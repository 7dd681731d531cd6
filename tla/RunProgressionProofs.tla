------------------------ MODULE RunProgressionProofs ------------------------
(***************************************************************************)
(* Theorems about one claimed run, for every packet, set of disputes and   *)
(* bound on faults, turns and commands: types; where a step of the         *)
(* coordinator finds the run, its invocation and its worker; the tests     *)
(* under a delivered implementation are the ones a red run confirmed; what *)
(* the coordinator begins by itself is counted and bounded.                *)
(*                                                                         *)
(* Each action has a lemma <action>Holds: a step of the proof says what    *)
(* the action does to each variable, and the conjuncts of the invariant    *)
(* follow from those steps.                                                *)
(***************************************************************************)
EXTENDS RunProgression, TLAPS

-----------------------------------------------------------------------------
(* What a step of the coordinator relies on *)

\* runtime.go: the agent works for an active invocation that did not report.
InvocationInv ==
  /\ Active => row.role \in Roles /\ ~row.voided
  /\ row.report = "objection" => row.role = "implementation"
  /\ row.report = "exemption" => row.role = "test" /\ ~row.revision
  /\ agent = "working" => Active /\ row.report = "none" /\ (row.native \/ row.session)
  /\ coord = "ready" /\ op.do = "idle" /\ Active /\ (run.status = "active" \/ row.native) => row.session
  /\ run.status = "failed" => op.do = "idle" /\ ~Active /\ run.objection = ""

\* Where each operation of the coordinator finds the run and its invocation.
OperationInv ==
  /\ op.do # "idle" => coord = "ready"
  /\ journal /\ coord = "ready" => op.do = "resume" \/ (op.do = "repair" /\ op.at = "journaled")
  /\ op.do = "launch" =>
       /\ Active /\ row.role = run.stage
       /\ op.at \in {"saved", "worker"} => agent = "none" /\ row.report = "none"
       /\ op.at = "session" => row.session
  /\ op.do = "accepted" => ~Active
  /\ op.do = "accepted" /\ op.at \in {"policy", "red"} =>
       /\ row.role = "test" /\ row.report # "none"
       /\ op.at = "red" => tests \in red
  /\ op.do = "resume" =>
       /\ Active /\ row.session /\ agent = "none"
       /\ op.at = "automatic" => row.resumes = 1 /\ row.calls = 0

\* repair.go startCheckRepair: where a repair finds the invocation it resumes.
RepairInv ==
  op.do = "repair" =>
    /\ run.stage \in {"check", "implementation"} /\ run.attempts < packet.repairs
    /\ op.at = "start" => ~Active
    /\ op.at # "start" => Active /\ row.session /\ row.repair
    /\ op.at \in {"saved", "worker", "reserved", "journaled"} =>
         agent = "none" /\ row.report = "none" /\ row.calls = 0
    /\ op.at \in {"saved", "worker", "reserved"} => row.resumes = 0
    /\ op.at = "journaled" => row.resumes # 0
    /\ op.at \in {"reserved", "journaled", "resumed"} => run.pending # 0

\* draft_pr.go: from the protected tests' check to the draft pull request the
\* worktree is left alone.
DeliveryInv ==
  /\ op.do = "deliver" => run.stage = "check" /\ run.pending = 0
  /\ run.stage = "draft_pr" => op.do = "idle"
  /\ op.do = "deliver" \/ run.stage = "draft_pr" => ~Active /\ (run.handoff => run.protected = tests)
  /\ run.handoff => run.protected \in red

\* An objection is open only while its test is with the test role, which then
\* works on a revision.
ObjectionInv ==
  run.objection # "" => run.stage = "test" /\ (row.role = "test" => row.revision)

-----------------------------------------------------------------------------
(* What the counters count *)

ResumesInv == row.calls <= 1 /\ (row.resumes = 0 => row.calls = 0)

AttemptsInv ==
  /\ run.attempts <= packet.repairs
  /\ run.pending # 0 => run.pending = run.attempts + 1 /\ run.attempts < packet.repairs

\* A repair session may still begin, under an attempt that is open or without.
RepairDue  == (op.do = "repair" /\ op.at = "start") \/ (row.repair /\ Active /\ row.calls = 0)
RepairOpen == run.pending # 0 \/ op.do = "repair"

\* Every repair session is paid for by an attempt, an open attempt or a fault, and
\* so is one that is still due.
RepairsInv ==
  /\ runs.repairs <= run.attempts + faults + 1
  /\ RepairOpen \/ runs.repairs <= run.attempts + faults
  /\ RepairDue => runs.repairs <= run.attempts + faults
  /\ RepairDue => RepairOpen \/ runs.repairs < run.attempts + faults

\* invocationProjectionNeverEstablished, as Retry asks it.
Unestablished ==
  ~row.session /\ row.report = "none" /\ (row.status = "cannot_proceed" \/ row.voided)

\* A revision may still be begun by the coordinator itself.
RevisionDue ==
  \/ op.do = "launch" /\ op.at \in {"saved", "worker"} /\ row.revision /\ run.status = "active"
  \/ /\ run.objection # ""
     /\ \/ op.do = "accepted" /\ op.at = "next"
        \/ op.do = "idle" /\ ~Active /\ (run.status = "active" \/ Unestablished)

\* Every revision is paid for by a try of its dispute or by a fault.
RevisionsInv ==
  /\ run.tries <= packet.revisions
  /\ runs.revisions <= run.tries + faults
  /\ RevisionDue => runs.revisions < run.tries + faults

ShapeInv == InvocationInv /\ OperationInv /\ RepairInv /\ DeliveryInv /\ ObjectionInv
CountInv == ResumesInv /\ AttemptsInv /\ RepairsInv /\ RevisionsInv

\* The inductive invariant.
ProgressionInv == TypeOK /\ ShapeInv /\ CountInv

-----------------------------------------------------------------------------
(* Data *)

\* What an operation names.
LEMMA OpFields ==
  /\ Idle.do = "idle" /\ Idle.at = ""
  /\ \A do, at : Op(do, at).do = do /\ Op(do, at).at = at
BY DEF Idle, Op

LEMMA OpsAre ==
  /\ Idle \in Ops
  /\ \A at \in {"saved", "worker", "called", "session"} : Op("launch", at) \in Ops
  /\ \A at \in {"policy", "red", "next"} : Op("accepted", at) \in Ops
  /\ \A at \in {"gates", "pull_request"} : Op("deliver", at) \in Ops
  /\ \A at \in {"start", "saved", "worker", "reserved", "journaled", "resumed"} :
       Op("repair", at) \in Ops
  /\ \A at \in {"automatic", "manual"} : Op("resume", at) \in Ops
BY DEF Ops

\* An operation is idle, or one of those at one of its boundaries.
LEMMA OpIs ==
  ASSUME NEW o \in Ops
  PROVE  /\ o = Op(o.do, o.at)
         /\ o.do = "idle" <=> o = Idle
         /\ o.do \in {"idle", "launch", "accepted", "deliver", "repair", "resume"}
         /\ o.do = "launch" => o.at \in {"saved", "worker", "called", "session"}
         /\ o.do = "accepted" => o.at \in {"policy", "red", "next"}
         /\ o.do = "deliver" => o.at \in {"gates", "pull_request"}
         /\ o.do = "repair" => o.at \in {"start", "saved", "worker", "reserved", "journaled", "resumed"}
         /\ o.do = "resume" => o.at \in {"automatic", "manual"}
<1>1. PICK d, a : /\ o = Op(d, a)
                  /\ \/ d = "idle" /\ a = "" /\ o = Idle
                     \/ d = "launch" /\ a \in {"saved", "worker", "called", "session"}
                     \/ d = "accepted" /\ a \in {"policy", "red", "next"}
                     \/ d = "deliver" /\ a \in {"gates", "pull_request"}
                     \/ d = "repair" /\ a \in {"start", "saved", "worker", "reserved", "journaled", "resumed"}
                     \/ d = "resume" /\ a \in {"automatic", "manual"}
  <2>1. Idle = Op("idle", "")
    BY DEF Idle, Op
  <2> QED
    BY <2>1 DEF Ops
<1>2. o.do = d /\ o.at = a
  BY <1>1, OpFields
<1>3. o = Idle => d = "idle"
  BY <1>2, OpFields
<1> QED
  BY <1>1, <1>2, <1>3

\* The fields of the run that only a few steps write.
Kept(r, s) ==
  /\ s.handoff = r.handoff /\ s.protected = r.protected
  /\ s.objection = r.objection /\ s.tries = r.tries
  /\ s.attempts = r.attempts /\ s.pending = r.pending

LEMMA RunIs ==
  ASSUME NEW r \in RunRows
  PROVE  /\ r.stage \in Stages /\ r.status \in Statuses /\ r.why \in Reasons
         /\ {r.questions, r.handoff, r.testInv} \subseteq BOOLEAN
         /\ r.protected \in Nat /\ r.tries \in Nat /\ r.attempts \in Nat /\ r.pending \in Nat
         /\ r.objection \in Objections /\ r.dispute \in Objections
BY DEF RunRows

\* What each update of the run row changes, and that it keeps its type.
LEMMA StatusSet ==
  ASSUME NEW r \in RunRows, NEW status \in Statuses, NEW why \in Reasons
  PROVE  LET s == [r EXCEPT !.status = status, !.why = why]
         IN  s \in RunRows /\ s.stage = r.stage /\ s.status = status /\ Kept(r, s)
BY DEF RunRows, Kept

LEMMA Stopped ==
  ASSUME NEW r \in RunRows
  PROVE  /\ Stop(r) \in RunRows /\ Stop(r).stage = r.stage /\ Kept(r, Stop(r))
         /\ Stop(r).status = IF r.status = "active" THEN "waiting_for_human" ELSE r.status
BY DEF RunRows, Kept, Stop, Statuses, Reasons

LEMMA StageSet ==
  ASSUME NEW r \in RunRows, NEW stage \in Stages
  PROVE  LET s == [r EXCEPT !.stage = stage]
         IN  s \in RunRows /\ s.stage = stage /\ s.status = r.status /\ Kept(r, s)
BY DEF RunRows, Kept

LEMMA DraftSet ==
  ASSUME NEW r \in RunRows
  PROVE  LET s == [r EXCEPT !.stage = "draft_pr", !.why = ""]
         IN  s \in RunRows /\ s.stage = "draft_pr" /\ s.status = r.status /\ Kept(r, s)
BY DEF RunRows, Kept, Stages, Reasons

LEMMA CommitSet ==
  ASSUME NEW r \in RunRows, NEW role \in Roles
  PROVE  LET s == [r EXCEPT !.stage = role, !.status = "active", !.why = "",
                            !.testInv = @ \/ role = "test"]
         IN  s \in RunRows /\ s.stage = role /\ s.status = "active" /\ Kept(r, s)
BY DEF RunRows, Kept, Stages, Statuses, Reasons

LEMMA SkipSet ==
  ASSUME NEW r \in RunRows
  PROVE  LET s == [r EXCEPT !.stage = "implementation", !.skipped = "technical"]
         IN  s \in RunRows /\ s.stage = "implementation" /\ s.status = r.status /\ Kept(r, s)
BY DEF RunRows, Kept, Stages, Roles

LEMMA QuestionsSet ==
  ASSUME NEW r \in RunRows
  PROVE  LET s == [r EXCEPT !.status = "waiting_for_human", !.why = "", !.questions = TRUE]
         IN  s \in RunRows /\ s.stage = r.stage /\ s.status = "waiting_for_human" /\ Kept(r, s)
BY DEF RunRows, Kept, Statuses, Reasons

LEMMA CheckpointSet ==
  ASSUME NEW r \in RunRows, NEW n \in Nat
  PROVE  LET s == [r EXCEPT !.handoff = TRUE, !.protected = n, !.objection = "",
                            !.testInv = @ \/ r.objection # "",
                            !.stage = "implementation", !.status = "active", !.why = ""]
         IN  /\ s \in RunRows /\ s.stage = "implementation" /\ s.status = "active"
             /\ s.handoff /\ s.protected = n /\ s.objection = ""
             /\ s.tries = r.tries /\ s.attempts = r.attempts /\ s.pending = r.pending
<1>1. PICK b \in BOOLEAN : b = (r.testInv \/ r.objection # "")
  OBVIOUS
<1>2. [r EXCEPT !.handoff = TRUE, !.protected = n, !.objection = "",
                !.testInv = @ \/ r.objection # "",
                !.stage = "implementation", !.status = "active", !.why = ""]
      = [r EXCEPT !.handoff = TRUE, !.protected = n, !.objection = "", !.testInv = b,
                  !.stage = "implementation", !.status = "active", !.why = ""]
  BY <1>1 DEF RunRows
<1>3. LET s == [r EXCEPT !.handoff = TRUE, !.protected = n, !.objection = "", !.testInv = b,
                         !.stage = "implementation", !.status = "active", !.why = ""]
      IN  /\ s \in RunRows /\ s.stage = "implementation" /\ s.status = "active"
          /\ s.handoff /\ s.protected = n /\ s.objection = ""
          /\ s.tries = r.tries /\ s.attempts = r.attempts /\ s.pending = r.pending
  BY DEF RunRows, Stages, Roles, Statuses, Reasons, Objections
<1> QED
  BY <1>2, <1>3

LEMMA AdvancedSet ==
  ASSUME packet \in Packets, NEW r \in RunRows
  PROVE  /\ advanceAfterBaseline(r) \in RunRows
         /\ advanceAfterBaseline(r).stage \in Roles /\ advanceAfterBaseline(r).status = "active"
         /\ ~advanceAfterBaseline(r).handoff
         /\ advanceAfterBaseline(r).objection = r.objection /\ advanceAfterBaseline(r).tries = r.tries
         /\ advanceAfterBaseline(r).attempts = r.attempts /\ advanceAfterBaseline(r).pending = r.pending
<1>1. postBaselineStage \in Roles /\ (IF humanExemption THEN "human" ELSE "") \in {"", "human", "technical"}
  BY DEF postBaselineStage, EntryStage, Roles
<1>2. postBaselineStage \in Stages
  BY <1>1 DEF Stages
<1> QED
  BY <1>1, <1>2 DEF advanceAfterBaseline, RunRows, Statuses, Reasons

LEMMA ReservedSet ==
  ASSUME NEW r \in RunRows
  PROVE  LET s == [r EXCEPT !.stage = "implementation", !.pending = r.attempts + 1]
         IN  /\ s \in RunRows /\ s.stage = "implementation" /\ s.status = r.status
             /\ s.handoff = r.handoff /\ s.protected = r.protected
             /\ s.objection = r.objection /\ s.tries = r.tries
             /\ s.attempts = r.attempts /\ s.pending = r.attempts + 1
<1>0. r.attempts \in Nat
  BY RunIs
<1>1. PICK n \in Nat : n = r.attempts + 1
  BY <1>0
<1>2. LET s == [r EXCEPT !.stage = "implementation", !.pending = n]
      IN  /\ s \in RunRows /\ s.stage = "implementation" /\ s.status = r.status
          /\ s.handoff = r.handoff /\ s.protected = r.protected
          /\ s.objection = r.objection /\ s.tries = r.tries
          /\ s.attempts = r.attempts /\ s.pending = n
  BY DEF RunRows, Stages, Roles
<1> QED
  BY <1>1, <1>2

LEMMA CompletedSet ==
  ASSUME NEW r \in RunRows
  PROVE  LET s == completedAttempt(r)
         IN  /\ s \in RunRows /\ s.stage = r.stage /\ s.status = r.status
             /\ s.handoff = r.handoff /\ s.protected = r.protected
             /\ s.objection = r.objection /\ s.tries = r.tries
             /\ s.attempts = r.pending /\ s.pending = 0
BY DEF RunRows, completedAttempt

LEMMA RolledBackSet ==
  ASSUME NEW r \in RunRows
  PROVE  LET s == [r EXCEPT !.stage = "check", !.pending = 0,
                            !.status = "waiting_for_human", !.why = "checks"]
         IN  /\ s \in RunRows /\ s.stage = "check" /\ s.status = "waiting_for_human"
             /\ s.handoff = r.handoff /\ s.protected = r.protected
             /\ s.objection = r.objection /\ s.tries = r.tries
             /\ s.attempts = r.attempts /\ s.pending = 0
BY DEF RunRows, Stages, Statuses, Reasons

LEMMA AnsweredSet ==
  ASSUME packet \in Packets, NEW r \in RunRows
  PROVE  LET s == [resetTestProjection(r) EXCEPT
                      !.stage = packetResumeStage(r), !.status = "active",
                      !.why = "", !.questions = FALSE]
         IN  /\ s \in RunRows /\ s.stage \in {"claim"} \cup Roles /\ s.status = "active"
             /\ ~s.handoff /\ s.objection = "" /\ s.tries = 0
             /\ s.attempts = r.attempts /\ s.pending = r.pending
<1>1. packetResumeStage(r) \in {"claim"} \cup Roles
  BY DEF packetResumeStage, EntryStage, Roles
<1>2. packetResumeStage(r) \in Stages
  BY <1>1 DEF Stages
<1>3. (IF humanExemption THEN "human" ELSE "") \in {"", "human", "technical"}
  OBVIOUS
<1>4. LET t == resetTestProjection(r)
      IN  t \in RunRows /\ ~t.handoff /\ t.objection = "" /\ t.tries = 0
          /\ t.attempts = r.attempts /\ t.pending = r.pending
  BY <1>3 DEF resetTestProjection, RunRows, Objections
<1>5. ASSUME NEW t \in RunRows, NEW stage \in Stages
      PROVE  LET s == [t EXCEPT !.stage = stage, !.status = "active", !.why = "", !.questions = FALSE]
             IN  s \in RunRows /\ s.stage = stage /\ s.status = "active" /\ Kept(t, s)
  BY DEF RunRows, Kept, Statuses, Reasons
<1> QED
  BY <1>1, <1>2, <1>4, <1>5 DEF Kept

\* report_acceptance.go agentReportRunProjection: a report of the architecture or
\* implementation role moves or ends the run, and counts nothing.
LEMMA ProjectedSet ==
  ASSUME NEW r \in RunRows, NEW report,
         r.stage \in Roles
  PROVE  LET s == agentReportRunProjection(r, report)
         IN  /\ s \in RunRows /\ Kept(r, s)
             /\ s.stage = r.stage \/ s.stage \in {"test", "implementation"}
             /\ s.status \in {r.status, "waiting_for_human", "failed"}
<1>1. [r EXCEPT !.status = "failed", !.why = ""] \in RunRows
      /\ [r EXCEPT !.status = "failed", !.why = ""].stage = r.stage
      /\ [r EXCEPT !.status = "failed", !.why = ""].status = "failed"
      /\ Kept(r, [r EXCEPT !.status = "failed", !.why = ""])
  BY StatusSet DEF Statuses, Reasons
<1>2. ASSUME NEW t \in {"test", "implementation"}
      PROVE  LET s == [r EXCEPT !.stage = t]
             IN  s \in RunRows /\ s.stage = t /\ s.status = r.status /\ Kept(r, s)
  BY StageSet DEF Stages, Roles
<1>3. [r EXCEPT !.stage = IF @ = "architecture" THEN "test" ELSE "implementation"]
        = [r EXCEPT !.stage = IF r.stage = "architecture" THEN "test" ELSE "implementation"]
  OBVIOUS
<1> QED
  BY <1>1, <1>2, <1>3, QuestionsSet DEF agentReportRunProjection

ObjectedRun(r, d, dispute, tries, status, why) ==
  [r EXCEPT !.stage = "test", !.objection = d, !.skipped = "",
            !.dispute = dispute, !.tries = tries, !.status = status, !.why = why]

LEMMA ObjectedIs ==
  ASSUME NEW r \in RunRows, NEW d \in Disputes, NEW dispute \in Objections,
         NEW tries \in Nat, NEW status \in Statuses, NEW why \in Reasons
  PROVE  LET s == ObjectedRun(r, d, dispute, tries, status, why)
         IN  /\ s \in RunRows /\ s.stage = "test" /\ s.objection = d
             /\ s.handoff = r.handoff /\ s.protected = r.protected
             /\ s.attempts = r.attempts /\ s.pending = r.pending
             /\ s.status = status /\ s.tries = tries
BY DEF ObjectedRun, RunRows, Stages, Roles, Objections

\* report_acceptance.go projectImplementationTestObjection: a count goes on only
\* for the same dispute, and within the packet's revisions.
LEMMA ObjectedSet ==
  ASSUME packet \in Packets, NEW r \in RunRows, NEW d \in Disputes,
         r.tries <= packet.revisions
  PROVE  LET s == projectImplementationTestObjection(r, d)
         IN  /\ s \in RunRows /\ s.stage = "test" /\ s.objection = d
             /\ s.handoff = r.handoff /\ s.protected = r.protected
             /\ s.attempts = r.attempts /\ s.pending = r.pending
             /\ s.status \in {"active", "waiting_for_human"}
             /\ s.tries <= packet.revisions
             /\ r.dispute = d => s.tries = r.tries + (IF s.status = "active" THEN 1 ELSE 0)
             /\ s.status = "active" => s.tries >= 1
<1>0. r.dispute \in Objections
  BY RunIs
<1>1. packet.revisions \in Nat /\ packet.revisions # 0 /\ r.tries \in Nat
  BY RunIs, ProgressionAssumption DEF PacketOK
<1>2. PICK n \in Nat : /\ n = (IF r.dispute = d THEN r.tries ELSE 0)
                       /\ n <= packet.revisions
  BY <1>1
<1>3. CASE packet.automated /\ n < packet.revisions
  <2>1. projectImplementationTestObjection(r, d) = ObjectedRun(r, d, d, n + 1, "active", "")
    BY <1>2, <1>3 DEF projectImplementationTestObjection, ObjectedRun
  <2>2. PICK m \in Nat : m = n + 1 /\ m <= packet.revisions /\ m >= 1 /\ (r.dispute = d => m = r.tries + 1)
    BY <1>1, <1>2, <1>3
  <2>3. PICK e \in Objections, why \in Reasons, status \in Statuses : e = d /\ why = "" /\ status = "active"
    BY DEF Statuses, Reasons, Objections
  <2>4. LET s == ObjectedRun(r, d, e, m, status, why)
        IN  /\ s \in RunRows /\ s.stage = "test" /\ s.objection = d
            /\ s.handoff = r.handoff /\ s.protected = r.protected
            /\ s.attempts = r.attempts /\ s.pending = r.pending
            /\ s.status = status /\ s.tries = m
    BY ObjectedIs
  <2> QED
    BY <2>1, <2>2, <2>3, <2>4
<1>4. CASE ~(packet.automated /\ n < packet.revisions)
  <2>1. PICK e \in Objections : e = (IF n = 0 THEN "" ELSE r.dispute)
    BY <1>0 DEF Objections
  <2>2. projectImplementationTestObjection(r, d) = ObjectedRun(r, d, e, n, "waiting_for_human", "policy")
    BY <1>2, <1>4, <2>1 DEF projectImplementationTestObjection, ObjectedRun
  <2>3. "waiting_for_human" \in Statuses /\ "policy" \in Reasons
    BY DEF Statuses, Reasons
  <2>4. n <= packet.revisions /\ (r.dispute = d => n = r.tries)
    BY <1>2
  <2>5. LET s == ObjectedRun(r, d, e, n, "waiting_for_human", "policy")
        IN  /\ s \in RunRows /\ s.stage = "test" /\ s.objection = d
            /\ s.handoff = r.handoff /\ s.protected = r.protected
            /\ s.attempts = r.attempts /\ s.pending = r.pending
            /\ s.status = "waiting_for_human" /\ s.tries = n
    BY <2>3, ObjectedIs
  <2> QED
    BY <1>1, <2>2, <2>4, <2>5
<1> QED
  BY <1>3, <1>4

\* What most steps keep of an invocation.
Same(r, s) ==
  /\ s.role = r.role /\ s.revision = r.revision /\ s.repair = r.repair
  /\ s.resumes = r.resumes /\ s.calls = r.calls

LEMMA RowIs ==
  ASSUME NEW r \in Rows
  PROVE  /\ r.role \in Roles \cup {"none"} /\ r.session \in BOOLEAN /\ r.native \in BOOLEAN
         /\ r.status \in {"none", "active", "completed", "waiting_for_human",
                          "cannot_proceed", "superseded"}
         /\ r.resumes \in Nat /\ r.calls \in Nat
         /\ r.report \in {"none", "completed", "clarification", "cannot_proceed", "objection",
                          "exemption", "rejected"}
         /\ r.voided \in BOOLEAN /\ r.here \in BOOLEAN
         /\ r.revision \in BOOLEAN /\ r.repair \in BOOLEAN
BY DEF Rows

RowStatuses == {"none", "active", "completed", "waiting_for_human", "cannot_proceed", "superseded"}
Reports == {"none", "completed", "clarification", "cannot_proceed", "objection", "exemption", "rejected"}

\* What each update of the invocation row changes, and that it keeps its type.
LEMMA SavedRow ==
  ASSUME NEW role \in Roles, NEW b \in BOOLEAN
  PROVE  LET s == [NoRow EXCEPT !.role = role, !.status = "active", !.here = TRUE, !.revision = b]
         IN  /\ s \in Rows /\ s.role = role /\ s.status = "active" /\ s.revision = b
             /\ ~s.session /\ ~s.native /\ ~s.voided /\ ~s.repair
             /\ s.resumes = 0 /\ s.calls = 0 /\ s.report = "none"
BY DEF NoRow, Rows

LEMMA RepairRow ==
  LET s == [NoRow EXCEPT !.role = "implementation", !.status = "active",
                         !.session = TRUE, !.native = TRUE, !.here = TRUE, !.repair = TRUE]
  IN  /\ s \in Rows /\ s.role = "implementation" /\ s.status = "active" /\ ~s.revision
      /\ s.session /\ s.native /\ ~s.voided /\ s.repair
      /\ s.resumes = 0 /\ s.calls = 0 /\ s.report = "none"
BY DEF NoRow, Rows, Roles

LEMMA RowStatusSet ==
  ASSUME NEW r \in Rows, NEW status \in RowStatuses
  PROVE  LET s == [r EXCEPT !.status = status]
         IN  /\ s \in Rows /\ s.status = status /\ Same(r, s)
             /\ s.session = r.session /\ s.native = r.native /\ s.voided = r.voided /\ s.report = r.report
BY DEF Rows, RowStatuses, Same

VoidedRow(r, status, b) == [r EXCEPT !.status = status, !.voided = b]

LEMMA VoidedSet ==
  ASSUME NEW r \in Rows, NEW status \in RowStatuses, NEW b \in BOOLEAN
  PROVE  LET s == VoidedRow(r, status, b)
         IN  /\ s \in Rows /\ s.status = status /\ Same(r, s)
             /\ s.session = r.session /\ s.native = r.native /\ s.voided = b /\ s.report = r.report
BY DEF VoidedRow, Rows, RowStatuses, Same

LEMMA RetriedSet ==
  ASSUME NEW r \in Rows
  PROVE  LET s == [r EXCEPT !.status = "superseded", !.voided = TRUE]
         IN  /\ s \in Rows /\ s.status = "superseded" /\ Same(r, s)
             /\ s.session = r.session /\ s.native = r.native /\ s.voided /\ s.report = r.report
BY DEF Rows, Same

LEMMA UnlaunchedSet ==
  ASSUME NEW r \in Rows
  PROVE  LET s == [r EXCEPT !.status = IF @ = "active" /\ r.report = "none"
                                       THEN "superseded" ELSE "cannot_proceed",
                            !.voided = r.report = "none"]
         IN  /\ s \in Rows /\ s.status \in {"superseded", "cannot_proceed"} /\ Same(r, s)
             /\ s.session = r.session /\ s.native = r.native /\ s.report = r.report
<1>1. PICK status \in RowStatuses, b \in BOOLEAN :
        /\ status = (IF r.status = "active" /\ r.report = "none" THEN "superseded" ELSE "cannot_proceed")
        /\ b = (r.report = "none")
  BY DEF RowStatuses
<1>2. [r EXCEPT !.status = IF @ = "active" /\ r.report = "none"
                           THEN "superseded" ELSE "cannot_proceed",
                !.voided = r.report = "none"]
        = VoidedRow(r, status, b)
  BY <1>1 DEF VoidedRow
<1>3. LET s == VoidedRow(r, status, b)
      IN  /\ s \in Rows /\ s.status = status /\ Same(r, s)
          /\ s.session = r.session /\ s.native = r.native /\ s.voided = b /\ s.report = r.report
  BY VoidedSet
<1> QED
  BY <1>1, <1>2, <1>3

LEMMA NativeSet ==
  ASSUME NEW r \in Rows
  PROVE  LET s == [r EXCEPT !.native = TRUE]
         IN  /\ s \in Rows /\ s.status = r.status /\ Same(r, s)
             /\ s.session = r.session /\ s.native /\ s.voided = r.voided /\ s.report = r.report
BY DEF Rows, Same

LEMMA SessionSet ==
  ASSUME NEW r \in Rows, NEW b \in BOOLEAN
  PROVE  LET s == [r EXCEPT !.session = b]
         IN  /\ s \in Rows /\ s.status = r.status /\ Same(r, s)
             /\ s.session = b /\ s.native = r.native /\ s.voided = r.voided /\ s.report = r.report
BY DEF Rows, Same

LEMMA ReportSet ==
  ASSUME NEW r \in Rows, NEW report \in Reports
  PROVE  LET s == [r EXCEPT !.report = report]
         IN  /\ s \in Rows /\ s.status = r.status /\ Same(r, s)
             /\ s.session = r.session /\ s.native = r.native /\ s.voided = r.voided /\ s.report = report
BY DEF Rows, Reports, Same

LEMMA HereSet ==
  ASSUME NEW r \in Rows
  PROVE  LET s == [r EXCEPT !.here = FALSE]
         IN  /\ s \in Rows /\ s.status = r.status /\ Same(r, s)
             /\ s.session = r.session /\ s.native = r.native /\ s.voided = r.voided /\ s.report = r.report
BY DEF Rows, Same

LEMMA ResumedSet ==
  ASSUME NEW r \in Rows
  PROVE  LET s == [r EXCEPT !.resumes = @ + 1, !.here = TRUE]
             t == [r EXCEPT !.resumes = @ + 1]
             u == [r EXCEPT !.calls = @ + 1]
         IN  /\ s \in Rows /\ s.status = r.status /\ s.resumes = r.resumes + 1 /\ s.calls = r.calls
             /\ s.role = r.role /\ s.revision = r.revision /\ s.repair = r.repair
             /\ s.session = r.session /\ s.native = r.native /\ s.voided = r.voided /\ s.report = r.report
             /\ t \in Rows /\ t.status = r.status /\ t.resumes = r.resumes + 1 /\ t.calls = r.calls
             /\ t.role = r.role /\ t.revision = r.revision /\ t.repair = r.repair
             /\ t.session = r.session /\ t.native = r.native /\ t.voided = r.voided /\ t.report = r.report
             /\ u \in Rows /\ u.status = r.status /\ u.calls = r.calls + 1 /\ u.resumes = r.resumes
             /\ u.role = r.role /\ u.revision = r.revision /\ u.repair = r.repair
             /\ u.session = r.session /\ u.native = r.native /\ u.voided = r.voided /\ u.report = r.report
<1>1. PICK n \in Nat, m \in Nat : n = r.resumes + 1 /\ m = r.calls + 1
  BY RowIs
<1>2. LET s == [r EXCEPT !.resumes = n, !.here = TRUE]
      IN  /\ s \in Rows /\ s.status = r.status /\ s.resumes = n /\ s.calls = r.calls
          /\ s.role = r.role /\ s.revision = r.revision /\ s.repair = r.repair
          /\ s.session = r.session /\ s.native = r.native /\ s.voided = r.voided /\ s.report = r.report
  BY DEF Rows
<1>3. LET t == [r EXCEPT !.resumes = n]
      IN  /\ t \in Rows /\ t.status = r.status /\ t.resumes = n /\ t.calls = r.calls
          /\ t.role = r.role /\ t.revision = r.revision /\ t.repair = r.repair
          /\ t.session = r.session /\ t.native = r.native /\ t.voided = r.voided /\ t.report = r.report
  BY DEF Rows
<1>4. LET u == [r EXCEPT !.calls = m]
      IN  /\ u \in Rows /\ u.status = r.status /\ u.calls = m /\ u.resumes = r.resumes
          /\ u.role = r.role /\ u.revision = r.revision /\ u.repair = r.repair
          /\ u.session = r.session /\ u.native = r.native /\ u.voided = r.voided /\ u.report = r.report
  BY DEF Rows
<1> QED
  BY <1>1, <1>2, <1>3, <1>4

LEMMA RunsIs ==
  ASSUME NEW r \in [repairs : Nat, revisions : Nat]
  PROVE  LET a == [r EXCEPT !.repairs = @ + 1]
             b == [r EXCEPT !.revisions = @ + 1]
             c == [r EXCEPT !.revisions = 0]
         IN  /\ r.repairs \in Nat /\ r.revisions \in Nat
             /\ a \in [repairs : Nat, revisions : Nat]
             /\ a.repairs = r.repairs + 1 /\ a.revisions = r.revisions
             /\ b \in [repairs : Nat, revisions : Nat]
             /\ b.repairs = r.repairs /\ b.revisions = r.revisions + 1
             /\ c \in [repairs : Nat, revisions : Nat]
             /\ c.repairs = r.repairs /\ c.revisions = 0
OBVIOUS

LEMMA BoundsAre == MaxTurns \in Nat /\ MaxFaults \in Nat /\ MaxCommands \in Nat
BY ProgressionAssumption

LEMMA TypesAre ==
  ASSUME ProgressionInv
  PROVE  /\ row \in Rows /\ run \in RunRows /\ runs \in [repairs : Nat, revisions : Nat]
         /\ packet \in Packets /\ op \in Ops /\ tests \in Nat
         /\ faults \in Nat /\ turns \in Nat /\ cmds \in Nat
<1>1. /\ row \in Rows /\ run \in RunRows /\ runs \in [repairs : Nat, revisions : Nat]
      /\ packet \in Packets /\ op \in Ops /\ tests \in Nat
      /\ turns \in 0 .. MaxTurns /\ faults \in 0 .. MaxFaults /\ cmds \in 0 .. MaxCommands
  BY DEF ProgressionInv, TypeOK
<1>2. MaxTurns \in Nat /\ MaxFaults \in Nat /\ MaxCommands \in Nat
  BY BoundsAre
<1> QED
  BY <1>1, <1>2

\* What the counters are compared by.
LEMMA NumbersAre ==
  ASSUME ProgressionInv
  PROVE  /\ run.tries \in Nat /\ run.attempts \in Nat /\ run.pending \in Nat
         /\ row.resumes \in Nat /\ row.calls \in Nat
         /\ runs.repairs \in Nat /\ runs.revisions \in Nat
         /\ packet.repairs \in Nat /\ packet.revisions \in Nat /\ faults \in Nat
<1>1. row \in Rows /\ run \in RunRows /\ runs \in [repairs : Nat, revisions : Nat]
      /\ packet \in Packets /\ faults \in Nat
  BY TypesAre
<1>2. packet.repairs \in Nat /\ packet.revisions \in Nat
  BY <1>1, ProgressionAssumption DEF PacketOK
<1> QED
  BY <1>1, <1>2, RunIs, RowIs, RunsIs

LEMMA FaultCounted ==
  ASSUME ProgressionInv, Faults(1)
  PROVE  faults' = faults + 1 /\ faults' \in 0 .. MaxFaults
<1>1. faults \in Nat /\ MaxFaults \in Nat
  BY TypesAre, BoundsAre
<1>2. faults + 1 <= MaxFaults /\ faults' = faults + 1
  BY DEF Faults
<1> QED
  BY <1>1, <1>2

\* progression.go: a parked run keeps its stage and its counters.
LEMMA ParkedIs ==
  ASSUME ProgressionInv, NEW status, NEW why, Park(status, why),
         status \in {"waiting_for_human", "waiting_for_harness"},
         why \in {"", "resumable", "capacity", "checks", "recovery", "policy"}
  PROVE  run' \in RunRows /\ run'.stage = run.stage /\ run'.status = status /\ Kept(run, run')
<1>1. PICK st \in Statuses, w \in Reasons : st = status /\ w = why
  BY DEF Statuses, Reasons
<1>2. run' = [run EXCEPT !.status = st, !.why = w]
  BY <1>1 DEF Park
<1>3. run \in RunRows
  BY TypesAre
<1>4. LET s == [run EXCEPT !.status = st, !.why = w]
      IN  s \in RunRows /\ s.stage = run.stage /\ s.status = st /\ Kept(run, s)
  BY <1>3, StatusSet
<1> QED
  BY <1>1, <1>2, <1>4

\* command.go, recovery.go: a run that goes on, or was cancelled, keeps the rest.
LEMMA WentOn ==
  ASSUME ProgressionInv, NEW status \in {"active", "cancelled"},
         run' = [run EXCEPT !.status = status, !.why = ""]
  PROVE  run' \in RunRows /\ run'.stage = run.stage /\ run'.status = status /\ Kept(run, run')
<1>1. PICK st \in Statuses, w \in Reasons : st = status /\ w = ""
  BY DEF Statuses, Reasons
<1>2. run' = [run EXCEPT !.status = st, !.why = w]
  BY <1>1
<1>3. run \in RunRows
  BY TypesAre
<1>4. LET s == [run EXCEPT !.status = st, !.why = w]
      IN  s \in RunRows /\ s.stage = run.stage /\ s.status = st /\ Kept(run, s)
  BY <1>3, StatusSet
<1> QED
  BY <1>1, <1>2, <1>4

-----------------------------------------------------------------------------
(* The steps *)

\* harness_start.go: what a launch stores first.
LEMMA SavedIs ==
  ASSUME NEW role \in Roles, SaveInvocation(role)
  PROVE  /\ row' \in Rows /\ row'.role = role /\ row'.status = "active"
         /\ ~row'.session /\ ~row'.native /\ ~row'.voided /\ ~row'.repair
         /\ row'.resumes = 0 /\ row'.calls = 0 /\ row'.report = "none"
         /\ row'.revision <=> TestRevision(role)
         /\ op' \in Ops /\ op'.do = "launch" /\ op'.at = "saved"
<1>1. PICK b \in BOOLEAN : b = TestRevision(role)
  BY DEF TestRevision
<1>2. row' = [NoRow EXCEPT !.role = role, !.status = "active", !.here = TRUE, !.revision = b]
  BY <1>1 DEF SaveInvocation
<1>3. LET s == [NoRow EXCEPT !.role = role, !.status = "active", !.here = TRUE, !.revision = b]
      IN  /\ s \in Rows /\ s.role = role /\ s.status = "active" /\ s.revision = b
          /\ ~s.session /\ ~s.native /\ ~s.voided /\ ~s.repair
          /\ s.resumes = 0 /\ s.calls = 0 /\ s.report = "none"
  BY SavedRow
<1>4. op' \in Ops /\ op'.do = "launch" /\ op'.at = "saved"
  BY OpFields, OpsAre DEF SaveInvocation
<1>5. (row'.revision = b) /\ (b <=> TestRevision(role))
  BY <1>1, <1>2, <1>3
<1> QED
  BY <1>2, <1>3, <1>4, <1>5

\* progression.go pauseProgression: only an active run is paused.
LEMMA StoppedIs ==
  ASSUME ProgressionInv, run' = Stop(run)
  PROVE  /\ run' \in RunRows /\ run'.stage = run.stage /\ Kept(run, run')
         /\ run'.status # "active" /\ (run.status = "active" \/ run'.status = run.status)
         /\ run'.status = "failed" => run.status = "failed"
BY TypesAre, Stopped

LEMMA RunBaselineHolds ==
  ASSUME ProgressionInv, RunBaseline PROVE ProgressionInv'
<1>1. /\ coord = "ready" /\ op.do = "idle" /\ run.stage = "claim" /\ run.status = "active" /\ ~Active
      /\ UNCHANGED <<packet, row, journal, worker, agent, tests, red, op, coord, runs, turns, cmds>>
  BY OpFields DEF RunBaseline, Driving, live, code
<1>2. \/ /\ run' \in RunRows /\ run'.stage \in Roles /\ run'.status = "active" /\ ~run'.handoff
         /\ run'.objection = run.objection /\ run'.tries = run.tries
         /\ run'.attempts = run.attempts /\ run'.pending = run.pending
         /\ faults' = faults
      \/ /\ run' \in RunRows /\ run'.stage = run.stage /\ run'.status = "waiting_for_human" /\ Kept(run, run')
         /\ faults' = faults + 1 /\ faults' \in 0 .. MaxFaults
  BY <1>1, TypesAre, AdvancedSet, Stopped, FaultCounted DEF RunBaseline
<1>3. run.objection = ""
  BY <1>1 DEF ProgressionInv, ShapeInv, ObjectionInv
<1>4. TypeOK'
  BY <1>1, <1>2 DEF ProgressionInv, TypeOK
<1>5. ShapeInv'
  BY <1>1, <1>2
     DEF ProgressionInv, ShapeInv, InvocationInv, OperationInv, RepairInv, DeliveryInv,
         ObjectionInv, Active, Same, Kept, Roles
<1>6. ResumesInv' /\ AttemptsInv'
  BY <1>1, <1>2, NumbersAre DEF ProgressionInv, CountInv, ResumesInv, AttemptsInv, Same, Kept
<1>7. RepairsInv'
  BY <1>1, <1>2, NumbersAre
     DEF ProgressionInv, CountInv, RepairsInv, RepairDue, RepairOpen, Active, Same, Kept
<1>8. RevisionDue' => RevisionDue
  BY <1>1, <1>2, <1>3 DEF RevisionDue, Unestablished, Active, Same, Kept
<1>9. RevisionsInv'
  BY <1>1, <1>2, <1>8, NumbersAre DEF ProgressionInv, CountInv, RevisionsInv, Kept
<1> QED
  BY <1>4, <1>5, <1>6, <1>7, <1>9 DEF ProgressionInv, CountInv

LEMMA StartWorkerHolds ==
  ASSUME ProgressionInv, StartWorker PROVE ProgressionInv'
<1>1. /\ op.do = "launch" /\ op.at = "saved" /\ op'.do = "launch" /\ op'.at = "worker"
      /\ op' \in Ops /\ worker' = TRUE
      /\ UNCHANGED <<packet, run, row, journal, agent, tests, red, coord, runs, turns, faults, cmds>>
  BY OpFields, OpsAre DEF StartWorker, code, bounds
<1>2. TypeOK'
  BY <1>1 DEF ProgressionInv, TypeOK
<1>3. ShapeInv'
  BY <1>1
     DEF ProgressionInv, ShapeInv, InvocationInv, OperationInv, RepairInv, DeliveryInv,
         ObjectionInv, Active, Same, Kept
<1>4. ResumesInv' /\ AttemptsInv'
  BY <1>1, NumbersAre DEF ProgressionInv, CountInv, ResumesInv, AttemptsInv, Same, Kept
<1>5. RepairsInv'
  BY <1>1, NumbersAre
     DEF ProgressionInv, CountInv, RepairsInv, RepairDue, RepairOpen, Active, Same, Kept
<1>6. RevisionDue' => RevisionDue
  BY <1>1 DEF RevisionDue, Unestablished, Active, Same, Kept
<1>7. RevisionsInv'
  BY <1>1, <1>6, NumbersAre DEF ProgressionInv, CountInv, RevisionsInv, Kept
<1> QED
  BY <1>2, <1>3, <1>4, <1>5, <1>7 DEF ProgressionInv, CountInv

LEMMA StartHarnessHolds ==
  ASSUME ProgressionInv, StartHarness PROVE ProgressionInv'
<1>1. /\ op.do = "launch" /\ op.at = "worker" /\ op'.do = "launch" /\ op'.at = "called"
      /\ op' \in Ops /\ agent' = "working"
      /\ UNCHANGED <<packet, run, journal, worker, tests, red, coord, turns, faults, cmds>>
  BY OpFields, OpsAre DEF StartHarness, code, bounds
<1>2. /\ row' \in Rows /\ row'.status = row.status /\ Same(row, row')
      /\ row'.session = row.session /\ row'.native /\ row'.voided = row.voided /\ row'.report = row.report
  BY TypesAre, NativeSet DEF StartHarness
<1>3. /\ runs' \in [repairs : Nat, revisions : Nat] /\ runs'.repairs = runs.repairs
      /\ runs'.revisions = runs.revisions + (IF row.revision /\ run.status = "active" THEN 1 ELSE 0)
  BY TypesAre, NumbersAre, RunsIs DEF StartHarness
<1>4. TypeOK'
  BY <1>1, <1>2, <1>3 DEF ProgressionInv, TypeOK
<1>5. ShapeInv'
  BY <1>1, <1>2, <1>3
     DEF ProgressionInv, ShapeInv, InvocationInv, OperationInv, RepairInv, DeliveryInv,
         ObjectionInv, Active, Same, Kept
<1>6. ResumesInv' /\ AttemptsInv'
  BY <1>1, <1>2, <1>3, NumbersAre DEF ProgressionInv, CountInv, ResumesInv, AttemptsInv, Same, Kept
<1>7. RepairsInv'
  BY <1>1, <1>2, <1>3, NumbersAre
     DEF ProgressionInv, CountInv, RepairsInv, RepairDue, RepairOpen, Active, Same, Kept
<1>8. RevisionsInv'
  BY <1>1, <1>2, <1>3, NumbersAre
     DEF ProgressionInv, CountInv, RevisionsInv, Kept, RevisionDue, Unestablished, Active, Same
<1> QED
  BY <1>4, <1>5, <1>6, <1>7, <1>8 DEF ProgressionInv, CountInv

LEMMA SaveSessionHolds ==
  ASSUME ProgressionInv, SaveSession PROVE ProgressionInv'
<1>1. /\ op.do = "launch" /\ op.at = "called" /\ op'.do = "launch" /\ op'.at = "session"
      /\ op' \in Ops
      /\ UNCHANGED <<packet, run, journal, worker, agent, tests, red, coord, runs, turns, faults, cmds>>
  BY OpFields, OpsAre DEF SaveSession, live, code, bounds
<1>2. /\ row' \in Rows /\ row'.status = row.status /\ Same(row, row')
      /\ row'.session /\ row'.native = row.native /\ row'.voided = row.voided /\ row'.report = row.report
  BY TypesAre, SessionSet DEF SaveSession
<1>3. TypeOK'
  BY <1>1, <1>2 DEF ProgressionInv, TypeOK
<1>4. ShapeInv'
  BY <1>1, <1>2
     DEF ProgressionInv, ShapeInv, InvocationInv, OperationInv, RepairInv, DeliveryInv,
         ObjectionInv, Active, Same, Kept
<1>5. ResumesInv' /\ AttemptsInv'
  BY <1>1, <1>2, NumbersAre DEF ProgressionInv, CountInv, ResumesInv, AttemptsInv, Same, Kept
<1>6. RepairsInv'
  BY <1>1, <1>2, NumbersAre
     DEF ProgressionInv, CountInv, RepairsInv, RepairDue, RepairOpen, Active, Same, Kept
<1>7. RevisionDue' => RevisionDue
  BY <1>1, <1>2 DEF RevisionDue, Unestablished, Active, Same, Kept
<1>8. RevisionsInv'
  BY <1>1, <1>2, <1>7, NumbersAre DEF ProgressionInv, CountInv, RevisionsInv, Kept
<1> QED
  BY <1>3, <1>4, <1>5, <1>6, <1>8 DEF ProgressionInv, CountInv

LEMMA commitLaunchRunHolds ==
  ASSUME ProgressionInv, commitLaunchRun PROVE ProgressionInv'
<1>1. /\ op.do = "launch" /\ op.at = "session" /\ op'.do = "idle" /\ op' \in Ops
      /\ UNCHANGED <<packet, row, journal, worker, agent, tests, red, coord, runs, turns, faults, cmds>>
  BY OpFields, OpsAre DEF commitLaunchRun, live, code, bounds
<1>2. Active /\ row.role \in Roles
  BY <1>1 DEF ProgressionInv, ShapeInv, OperationInv, InvocationInv
<1>3. run' \in RunRows /\ run'.stage = row.role /\ run'.status = "active" /\ Kept(run, run')
  BY <1>2, TypesAre, CommitSet DEF commitLaunchRun
<1>4. TypeOK'
  BY <1>1, <1>2, <1>3 DEF ProgressionInv, TypeOK
<1>5. ShapeInv'
  BY <1>1, <1>2, <1>3
     DEF ProgressionInv, ShapeInv, InvocationInv, OperationInv, RepairInv, DeliveryInv,
         ObjectionInv, Active, Same, Kept, Roles
<1>6. ResumesInv' /\ AttemptsInv'
  BY <1>1, <1>2, <1>3, NumbersAre DEF ProgressionInv, CountInv, ResumesInv, AttemptsInv, Same, Kept
<1>7. RepairsInv'
  BY <1>1, <1>2, <1>3, NumbersAre
     DEF ProgressionInv, CountInv, RepairsInv, RepairDue, RepairOpen, Active, Same, Kept
<1>8. RevisionDue' => RevisionDue
  BY <1>1, <1>2, <1>3 DEF RevisionDue, Unestablished, Active, Same, Kept
<1>9. RevisionsInv'
  BY <1>1, <1>2, <1>3, <1>8, NumbersAre DEF ProgressionInv, CountInv, RevisionsInv, Kept
<1> QED
  BY <1>4, <1>5, <1>6, <1>7, <1>9 DEF ProgressionInv, CountInv

LEMMA rollbackLaunchHolds ==
  ASSUME ProgressionInv, rollbackLaunch PROVE ProgressionInv'
<1>1. /\ op.do = "launch" /\ op'.do = "idle" /\ op' \in Ops /\ worker' = FALSE /\ agent' = "none"
      /\ UNCHANGED <<packet, journal, tests, red, coord, runs, turns, cmds>>
  BY OpFields, OpsAre DEF rollbackLaunch, StopWorkers, code
<1>2. /\ faults' = faults + 1 /\ faults' \in 0 .. MaxFaults
      /\ run' \in RunRows /\ run'.stage = run.stage /\ Kept(run, run')
      /\ run'.status = IF run.status = "active" THEN "waiting_for_human" ELSE run.status
  BY TypesAre, Stopped, FaultCounted DEF rollbackLaunch
<1>3. /\ row' \in Rows /\ row'.status # "active" /\ Same(row, row')
      /\ row'.session = row.session /\ row'.native = row.native /\ row'.report = row.report
      /\ row'.voided \in BOOLEAN
  BY TypesAre, RowIs, UnlaunchedSet DEF rollbackLaunch
<1>4. TypeOK'
  BY <1>1, <1>2, <1>3 DEF ProgressionInv, TypeOK
<1>5. ShapeInv'
  BY <1>1, <1>2, <1>3
     DEF ProgressionInv, ShapeInv, InvocationInv, OperationInv, RepairInv, DeliveryInv,
         ObjectionInv, Active, Same, Kept
<1>6. ResumesInv' /\ AttemptsInv'
  BY <1>1, <1>2, <1>3, NumbersAre DEF ProgressionInv, CountInv, ResumesInv, AttemptsInv, Same, Kept
<1>7. RepairsInv'
  BY <1>1, <1>2, <1>3, NumbersAre
     DEF ProgressionInv, CountInv, RepairsInv, RepairDue, RepairOpen, Active, Same, Kept
<1>8. RevisionsInv'
  BY <1>1, <1>2, <1>3, NumbersAre DEF ProgressionInv, CountInv, RevisionsInv, Kept
<1> QED
  BY <1>4, <1>5, <1>6, <1>7, <1>8 DEF ProgressionInv, CountInv

LEMMA retainLaunchHolds ==
  ASSUME ProgressionInv, retainLaunch PROVE ProgressionInv'
<1>1. /\ op.do = "launch" /\ op'.do = "idle" /\ op' \in Ops /\ worker' = FALSE /\ agent' = "none"
      /\ UNCHANGED <<packet, journal, tests, red, coord, runs, turns, cmds>>
  BY OpFields, OpsAre DEF retainLaunch, StopWorkers, code
<1>2. /\ faults' = faults + 1 /\ faults' \in 0 .. MaxFaults
      /\ run' \in RunRows /\ run'.stage = run.stage /\ Kept(run, run')
      /\ run'.status \in {"waiting_for_human", "waiting_for_harness"}
  BY ParkedIs, FaultCounted DEF retainLaunch
<1>3. /\ row' \in Rows /\ row'.status = "superseded" /\ Same(row, row')
      /\ row'.session = row.session /\ row'.native = row.native /\ row'.report = row.report
      /\ row'.voided \in BOOLEAN
  BY TypesAre, RowIs, RowStatusSet DEF retainLaunch, RowStatuses
<1>4. TypeOK'
  BY <1>1, <1>2, <1>3 DEF ProgressionInv, TypeOK
<1>5. ShapeInv'
  BY <1>1, <1>2, <1>3
     DEF ProgressionInv, ShapeInv, InvocationInv, OperationInv, RepairInv, DeliveryInv,
         ObjectionInv, Active, Same, Kept
<1>6. ResumesInv' /\ AttemptsInv'
  BY <1>1, <1>2, <1>3, NumbersAre DEF ProgressionInv, CountInv, ResumesInv, AttemptsInv, Same, Kept
<1>7. RepairsInv'
  BY <1>1, <1>2, <1>3, NumbersAre
     DEF ProgressionInv, CountInv, RepairsInv, RepairDue, RepairOpen, Active, Same, Kept
<1>8. RevisionsInv'
  BY <1>1, <1>2, <1>3, NumbersAre DEF ProgressionInv, CountInv, RevisionsInv, Kept
<1> QED
  BY <1>4, <1>5, <1>6, <1>7, <1>8 DEF ProgressionInv, CountInv

LEMMA StartAgentHolds ==
  ASSUME ProgressionInv, StartAgent PROVE ProgressionInv'
<1>1. /\ coord = "ready" /\ op.do = "idle" /\ run.status = "active" /\ ~Active /\ run.stage \in Roles
      /\ UNCHANGED <<packet, journal, worker, agent, tests, red, coord, runs, turns, faults, cmds>>
  BY OpFields DEF StartAgent, StartsAgent, Driving, live, code, bounds
<1>2. \/ /\ row' \in Rows /\ row'.role = run.stage /\ row'.status = "active"
         /\ ~row'.session /\ ~row'.native /\ ~row'.voided /\ ~row'.repair
         /\ row'.resumes = 0 /\ row'.calls = 0 /\ row'.report = "none"
         /\ row'.revision <=> (run.stage = "test" /\ run.objection # "")
         /\ op' \in Ops /\ op'.do = "launch" /\ op'.at = "saved"
         /\ run' = run
      \/ /\ run' \in RunRows /\ run'.stage = run.stage /\ Kept(run, run') /\ run'.status # "active"
            /\ (run'.status = "failed" => run.status = "failed")
         /\ UNCHANGED <<row, op>>
  BY <1>1, SavedIs, StoppedIs DEF StartAgent, TestRevision
<1>3. agent = "none"
  BY <1>1 DEF ProgressionInv, TypeOK, ShapeInv, InvocationInv
<1>4. /\ (row'.resumes = 0 /\ row'.calls = 0) \/ row' = row
      /\ run'.attempts = run.attempts /\ run'.pending = run.pending
  BY <1>2 DEF Kept
<1>5. TypeOK'
  BY <1>1, <1>2 DEF ProgressionInv, TypeOK
<1>6. ShapeInv'
  <2>1. InvocationInv'
    BY <1>1, <1>2, <1>3
       DEF ProgressionInv, ShapeInv, InvocationInv, OperationInv, RepairInv, Active, Same, Kept,
           Roles
  <2>2. OperationInv'
    BY <1>1, <1>2, <1>3
       DEF ProgressionInv, ShapeInv, InvocationInv, OperationInv, DeliveryInv, RepairInv, Active,
           Same, Kept, Roles
  <2>3. RepairInv'
    BY <1>1, <1>2, <1>3
       DEF ProgressionInv, ShapeInv, InvocationInv, OperationInv, DeliveryInv, RepairInv, Active,
           Same, Kept, Roles
  <2>4. DeliveryInv'
    BY <1>1, <1>2, <1>3
       DEF ProgressionInv, ShapeInv, InvocationInv, OperationInv, DeliveryInv, RepairInv, Active,
           Same, Kept, Roles
  <2>5. ObjectionInv'
    BY <1>1, <1>2, <1>3
       DEF ProgressionInv, ShapeInv, InvocationInv, OperationInv, ObjectionInv, Active, Same, Kept,
           Roles
  <2> QED
    BY <2>1, <2>2, <2>3, <2>4, <2>5 DEF ShapeInv
<1>7. ResumesInv' /\ AttemptsInv'
  BY <1>1, <1>4, NumbersAre DEF ProgressionInv, CountInv, ResumesInv, AttemptsInv, Same, Kept
<1>8. RepairsInv'
  BY <1>1, <1>2, NumbersAre
     DEF ProgressionInv, CountInv, RepairsInv, RepairDue, RepairOpen, Active, Same, Kept
<1>9. RevisionDue' => RevisionDue
  BY <1>1, <1>2 DEF RevisionDue, Unestablished, Active, Same, Kept
<1>10. RevisionsInv'
  BY <1>1, <1>2, <1>9, NumbersAre DEF ProgressionInv, CountInv, RevisionsInv, Kept
<1> QED
  BY <1>5, <1>6, <1>7, <1>8, <1>10 DEF ProgressionInv, CountInv

LEMMA AgentReportsHolds ==
  ASSUME ProgressionInv, AgentReports PROVE ProgressionInv'
<1>1. /\ agent = "working" /\ agent' = "none"
      /\ UNCHANGED <<packet, run, journal, worker, red, op, coord, runs, faults, cmds>>
  BY DEF AgentReports
<1>2. Active /\ turns \in 0 .. MaxTurns /\ tests \in Nat
  BY <1>1 DEF ProgressionInv, TypeOK, ShapeInv, InvocationInv
<1>3. PICK report \in Reports \ {"none"} :
        /\ MayReport(report) /\ row' = [row EXCEPT !.report = report]
        /\ turns' = (IF report = "objection" THEN turns + 1 ELSE turns)
        /\ tests' = (IF row.role = "test" /\ report = "completed" THEN tests + 1 ELSE tests)
  BY DEF AgentReports, Reports
<1>4. /\ row' \in Rows /\ row'.status = row.status /\ Same(row, row')
      /\ row'.session = row.session /\ row'.native = row.native /\ row'.voided = row.voided
      /\ row'.report = report /\ report # "none"
  BY <1>3, TypesAre, ReportSet
<1>5. /\ report = "objection" => row.role = "implementation"
      /\ report = "exemption" => row.role = "test" /\ ~row.revision
  BY <1>3 DEF MayReport
<1>6. tests' \in Nat /\ (tests' = tests \/ row.role = "test")
  BY <1>2, <1>3
<1>7. turns' \in 0 .. MaxTurns
  BY <1>2, <1>3, BoundsAre DEF MayReport
<1>8. TypeOK'
  BY <1>1, <1>2, <1>4, <1>6, <1>7 DEF ProgressionInv, TypeOK
<1>9. ShapeInv'
  BY <1>1, <1>2, <1>4, <1>5, <1>6
     DEF ProgressionInv, ShapeInv, InvocationInv, OperationInv, RepairInv, DeliveryInv,
         ObjectionInv, Active, Same, Kept
<1>10. ResumesInv' /\ AttemptsInv'
  BY <1>1, <1>2, <1>4, NumbersAre DEF ProgressionInv, CountInv, ResumesInv, AttemptsInv, Same, Kept
<1>11. RepairsInv'
  BY <1>1, <1>2, <1>4, NumbersAre
     DEF ProgressionInv, CountInv, RepairsInv, RepairDue, RepairOpen, Active, Same, Kept
<1>12. RevisionDue' => RevisionDue
  BY <1>1, <1>2, <1>4 DEF RevisionDue, Unestablished, Active, Same, Kept
<1>13. RevisionsInv'
  BY <1>1, <1>2, <1>4, <1>12, NumbersAre DEF ProgressionInv, CountInv, RevisionsInv, Kept
<1> QED
  BY <1>8, <1>9, <1>10, <1>11, <1>13 DEF ProgressionInv, CountInv

LEMMA AgentTampersHolds ==
  ASSUME ProgressionInv, AgentTampers PROVE ProgressionInv'
<1>1. /\ row.role = "implementation"
      /\ agent = "working" \/ (op.do = "idle" /\ run.stage # "draft_pr")
      /\ UNCHANGED <<packet, run, row, journal, worker, agent, red, op, coord, runs, faults, cmds>>
  BY OpFields DEF AgentTampers, Lingers, live
<1>2. tests' \in Nat
  BY TypesAre DEF AgentTampers
<1>3. turns' \in 0 .. MaxTurns
  BY TypesAre, BoundsAre DEF AgentTampers
<1>4. TypeOK'
  BY <1>1, <1>2, <1>3 DEF ProgressionInv, TypeOK
<1>5. ShapeInv'
  BY <1>1
     DEF ProgressionInv, ShapeInv, InvocationInv, OperationInv, RepairInv, DeliveryInv,
         ObjectionInv, Active, Same, Kept
<1>6. ResumesInv' /\ AttemptsInv'
  BY <1>1, NumbersAre DEF ProgressionInv, CountInv, ResumesInv, AttemptsInv, Same, Kept
<1>7. RepairsInv'
  BY <1>1, NumbersAre
     DEF ProgressionInv, CountInv, RepairsInv, RepairDue, RepairOpen, Active, Same, Kept
<1>8. RevisionDue' => RevisionDue
  BY <1>1 DEF RevisionDue, Unestablished, Active, Same, Kept
<1>9. RevisionsInv'
  BY <1>1, <1>8, NumbersAre DEF ProgressionInv, CountInv, RevisionsInv, Kept
<1> QED
  BY <1>4, <1>5, <1>6, <1>7, <1>9 DEF ProgressionInv, CountInv

LEMMA AgentStopsHolds ==
  ASSUME ProgressionInv, AgentStops PROVE ProgressionInv'
<1>1. /\ agent' = "none"
      /\ UNCHANGED <<packet, run, row, journal, tests, red, op, coord, runs, turns, cmds>>
  BY DEF AgentStops, code
<1>2. worker' \in BOOLEAN
  BY DEF AgentStops, ProgressionInv, TypeOK
<1>3. faults' = faults + 1 /\ faults' \in 0 .. MaxFaults
  BY FaultCounted DEF AgentStops
<1>4. TypeOK'
  BY <1>1, <1>2, <1>3 DEF ProgressionInv, TypeOK
<1>5. ShapeInv'
  <2>1. InvocationInv'
    BY <1>1, <1>3
       DEF ProgressionInv, ShapeInv, InvocationInv, OperationInv, RepairInv, Active, Same, Kept
  <2>2. OperationInv'
    BY <1>1, <1>3
       DEF ProgressionInv, ShapeInv, InvocationInv, OperationInv, DeliveryInv, RepairInv, Active,
           Same, Kept
  <2>3. RepairInv'
    BY <1>1, <1>3
       DEF ProgressionInv, ShapeInv, InvocationInv, OperationInv, DeliveryInv, RepairInv, Active,
           Same, Kept
  <2>4. DeliveryInv'
    BY <1>1, <1>3
       DEF ProgressionInv, ShapeInv, InvocationInv, OperationInv, DeliveryInv, RepairInv, Active,
           Same, Kept
  <2>5. ObjectionInv'
    BY <1>1, <1>3
       DEF ProgressionInv, ShapeInv, InvocationInv, OperationInv, ObjectionInv, Active, Same, Kept
  <2> QED
    BY <2>1, <2>2, <2>3, <2>4, <2>5 DEF ShapeInv
<1>6. ResumesInv' /\ AttemptsInv'
  BY <1>1, <1>3, NumbersAre DEF ProgressionInv, CountInv, ResumesInv, AttemptsInv, Same, Kept
<1>7. RepairsInv'
  BY <1>1, <1>3, NumbersAre
     DEF ProgressionInv, CountInv, RepairsInv, RepairDue, RepairOpen, Active, Same, Kept
<1>8. RevisionsInv'
  BY <1>1, <1>3, NumbersAre DEF ProgressionInv, CountInv, RevisionsInv, Kept
<1> QED
  BY <1>4, <1>5, <1>6, <1>7, <1>8 DEF ProgressionInv, CountInv

LEMMA agentInvocationExpiredHolds ==
  ASSUME ProgressionInv, agentInvocationExpired PROVE ProgressionInv'
<1>1. /\ UNCHANGED <<packet, row, journal, worker, agent, tests, red, op, coord, runs, turns, cmds>>
      /\ coord = "ready" /\ op.do = "idle"
  BY OpFields DEF agentInvocationExpired, Driving, live, code
<1>2. run' \in RunRows /\ run'.stage = run.stage /\ Kept(run, run') /\ run'.status # "active"
      /\ (run'.status = "failed" => run.status = "failed")
  BY StoppedIs DEF agentInvocationExpired
<1>3. faults' = faults + 1 /\ faults' \in 0 .. MaxFaults
  BY FaultCounted DEF agentInvocationExpired
<1>4. TypeOK'
  BY <1>1, <1>2, <1>3 DEF ProgressionInv, TypeOK
<1>5. ShapeInv'
  BY <1>1, <1>2, <1>3
     DEF ProgressionInv, ShapeInv, InvocationInv, OperationInv, RepairInv, DeliveryInv,
         ObjectionInv, Active, Same, Kept
<1>6. ResumesInv' /\ AttemptsInv'
  BY <1>1, <1>2, <1>3, NumbersAre DEF ProgressionInv, CountInv, ResumesInv, AttemptsInv, Same, Kept
<1>7. RepairsInv'
  BY <1>1, <1>2, <1>3, NumbersAre
     DEF ProgressionInv, CountInv, RepairsInv, RepairDue, RepairOpen, Active, Same, Kept
<1>8. RevisionsInv'
  BY <1>1, <1>2, <1>3, NumbersAre DEF ProgressionInv, CountInv, RevisionsInv, Kept
<1> QED
  BY <1>4, <1>5, <1>6, <1>7, <1>8 DEF ProgressionInv, CountInv

LEMMA RefuseReportHolds ==
  ASSUME ProgressionInv, RefuseReport PROVE ProgressionInv'
<1>1. /\ UNCHANGED <<packet, row, journal, worker, agent, tests, red, op, coord, runs, turns, faults, cmds>>
      /\ coord = "ready" /\ op.do = "idle" /\ Active
  BY OpFields DEF RefuseReport, Driving, live, code, bounds
<1>2. run' \in RunRows /\ run'.stage = run.stage /\ Kept(run, run') /\ run'.status # "active"
      /\ (run'.status = "failed" => run.status = "failed")
  BY StoppedIs DEF RefuseReport
<1>3. TypeOK'
  BY <1>1, <1>2 DEF ProgressionInv, TypeOK
<1>4. ShapeInv'
  BY <1>1, <1>2
     DEF ProgressionInv, ShapeInv, InvocationInv, OperationInv, RepairInv, DeliveryInv,
         ObjectionInv, Active, Same, Kept
<1>5. ResumesInv' /\ AttemptsInv'
  BY <1>1, <1>2, NumbersAre DEF ProgressionInv, CountInv, ResumesInv, AttemptsInv, Same, Kept
<1>6. RepairsInv'
  BY <1>1, <1>2, NumbersAre
     DEF ProgressionInv, CountInv, RepairsInv, RepairDue, RepairOpen, Active, Same, Kept
<1>7. RevisionDue' => RevisionDue
  BY <1>1, <1>2 DEF RevisionDue, Unestablished, Active, Same, Kept
<1>8. RevisionsInv'
  BY <1>1, <1>2, <1>7, NumbersAre DEF ProgressionInv, CountInv, RevisionsInv, Kept
<1> QED
  BY <1>3, <1>4, <1>5, <1>6, <1>8 DEF ProgressionInv, CountInv

LEMMA LaunchNextHolds ==
  ASSUME ProgressionInv, LaunchNext PROVE ProgressionInv'
<1>1. /\ op.do = "accepted" /\ op.at = "next" /\ coord = "ready"
      /\ UNCHANGED <<packet, journal, worker, agent, tests, red, coord, runs, turns, faults, cmds>>
  BY OpFields DEF LaunchNext, live, code, bounds
<1>2. \/ /\ row' \in Rows /\ row'.role = run.stage /\ row'.status = "active"
         /\ ~row'.session /\ ~row'.native /\ ~row'.voided /\ ~row'.repair
         /\ row'.resumes = 0 /\ row'.calls = 0 /\ row'.report = "none"
         /\ row'.revision <=> (run.stage = "test" /\ run.objection # "")
         /\ op' \in Ops /\ op'.do = "launch" /\ op'.at = "saved"
         /\ run' = run /\ ~Active /\ run.stage \in Roles
      \/ /\ run' \in RunRows /\ run'.stage = run.stage /\ Kept(run, run') /\ run'.status # "active"
            /\ (run'.status = "failed" => run.status = "failed")
         /\ row' = row /\ op' \in Ops /\ op'.do = "idle"
  BY SavedIs, StoppedIs, OpFields, OpsAre
     DEF LaunchNext, PlanLaunch, PlanLaunchAfter, TestRevision, Active
<1>3. Active \/ agent = "none"
  BY <1>1 DEF ProgressionInv, TypeOK, ShapeInv, InvocationInv
<1>4. /\ (row'.resumes = 0 /\ row'.calls = 0) \/ row' = row
      /\ run'.attempts = run.attempts /\ run'.pending = run.pending
  BY <1>2 DEF Kept
<1>5. TypeOK'
  BY <1>1, <1>2 DEF ProgressionInv, TypeOK
<1>6. ShapeInv'
  <2>1. InvocationInv'
    BY <1>1, <1>2, <1>3
       DEF ProgressionInv, ShapeInv, InvocationInv, OperationInv, RepairInv, Active, Same, Kept,
           Roles
  <2>2. OperationInv'
    BY <1>1, <1>2, <1>3
       DEF ProgressionInv, ShapeInv, InvocationInv, OperationInv, DeliveryInv, RepairInv, Active,
           Same, Kept, Roles
  <2>3. RepairInv'
    BY <1>1, <1>2, <1>3
       DEF ProgressionInv, ShapeInv, InvocationInv, OperationInv, DeliveryInv, RepairInv, Active,
           Same, Kept, Roles
  <2>4. DeliveryInv'
    BY <1>1, <1>2, <1>3
       DEF ProgressionInv, ShapeInv, InvocationInv, OperationInv, DeliveryInv, RepairInv, Active,
           Same, Kept, Roles
  <2>5. ObjectionInv'
    BY <1>1, <1>2, <1>3
       DEF ProgressionInv, ShapeInv, InvocationInv, OperationInv, ObjectionInv, Active, Same, Kept,
           Roles
  <2> QED
    BY <2>1, <2>2, <2>3, <2>4, <2>5 DEF ShapeInv
<1>7. ResumesInv' /\ AttemptsInv'
  BY <1>1, <1>4, NumbersAre DEF ProgressionInv, CountInv, ResumesInv, AttemptsInv, Same, Kept
<1>8. RepairsInv'
  BY <1>1, <1>2, NumbersAre
     DEF ProgressionInv, CountInv, RepairsInv, RepairDue, RepairOpen, Active, Same, Kept
<1>9. RevisionDue' => RevisionDue
  BY <1>1, <1>2 DEF RevisionDue, Unestablished, Active, Same, Kept
<1>10. RevisionsInv'
  BY <1>1, <1>2, <1>9, NumbersAre DEF ProgressionInv, CountInv, RevisionsInv, Kept
<1> QED
  BY <1>5, <1>6, <1>7, <1>8, <1>10 DEF ProgressionInv, CountInv

LEMMA AcceptedSet ==
  ASSUME NEW r \in Rows
  PROVE  LET s == [r EXCEPT !.status = acceptedInvocationStatus(r.report)]
         IN  /\ s \in Rows /\ s.status # "active" /\ Same(r, s)
             /\ s.session = r.session /\ s.native = r.native /\ s.voided = r.voided /\ s.report = r.report
<1>1. PICK status \in RowStatuses : status = acceptedInvocationStatus(r.report) /\ status # "active"
  BY DEF acceptedInvocationStatus, RowStatuses
<1>2. LET s == [r EXCEPT !.status = status]
      IN  /\ s \in Rows /\ s.status = status /\ Same(r, s)
          /\ s.session = r.session /\ s.native = r.native /\ s.voided = r.voided /\ s.report = r.report
  BY RowStatusSet
<1> QED
  BY <1>1, <1>2

\* An objection that the coordinator handles itself goes straight on to the test role.
LEMMA ObjectionAccepted ==
  ASSUME ProgressionInv, NEW d \in Disputes,
         run' = projectImplementationTestObjection(run, d),
         runs' = IF run.dispute = d THEN runs ELSE [runs EXCEPT !.revisions = 0]
  PROVE  /\ run' \in RunRows /\ run'.stage = "test" /\ run'.objection # ""
         /\ run'.status \in {"active", "waiting_for_human"}
         /\ run'.handoff = run.handoff /\ run'.protected = run.protected
         /\ run'.attempts = run.attempts /\ run'.pending = run.pending
         /\ run'.tries <= packet.revisions
         /\ runs' \in [repairs : Nat, revisions : Nat] /\ runs'.repairs = runs.repairs
         /\ \/ /\ runs' = runs
               /\ (run'.status = "active" /\ run'.tries = run.tries + 1)
                  \/ (run'.status # "active" /\ run'.tries = run.tries)
            \/ runs'.revisions = 0 /\ run'.tries \in Nat /\ (run'.status = "active" => run'.tries >= 1)
<1>1. packet \in Packets /\ run \in RunRows /\ run.tries <= packet.revisions /\ run.tries \in Nat
  BY TypesAre, NumbersAre DEF ProgressionInv, CountInv, RevisionsInv
<1>2. LET s == projectImplementationTestObjection(run, d)
      IN  /\ s \in RunRows /\ s.stage = "test" /\ s.objection = d
          /\ s.handoff = run.handoff /\ s.protected = run.protected
          /\ s.attempts = run.attempts /\ s.pending = run.pending
          /\ s.status \in {"active", "waiting_for_human"}
          /\ s.tries <= packet.revisions
          /\ run.dispute = d => s.tries = run.tries + (IF s.status = "active" THEN 1 ELSE 0)
          /\ s.status = "active" => s.tries >= 1
  BY <1>1, ObjectedSet
<1>3. d # ""
  BY ProgressionAssumption
<1>4. run' \in RunRows /\ run'.tries \in Nat
  BY <1>2, RunIs
<1>5. /\ run'.stage = "test" /\ run'.objection # ""
      /\ run'.status \in {"active", "waiting_for_human"}
      /\ run'.handoff = run.handoff /\ run'.protected = run.protected
      /\ run'.attempts = run.attempts /\ run'.pending = run.pending
      /\ run'.tries <= packet.revisions
      /\ run'.status = "active" => run'.tries >= 1
  BY <1>2, <1>3
<1>6. run.dispute = d => \/ run'.status = "active" /\ run'.tries = run.tries + 1
                         \/ run'.status # "active" /\ run'.tries = run.tries
  BY <1>1, <1>2
<1>7. /\ runs' \in [repairs : Nat, revisions : Nat] /\ runs'.repairs = runs.repairs
      /\ run.dispute = d => runs' = runs
      /\ run.dispute # d => runs'.revisions = 0
  BY TypesAre, RunsIs
<1> QED
  BY <1>4, <1>5, <1>6, <1>7

\* report_acceptance.go: what accepting a report makes of the run.
LEMMA AcceptedRuns ==
  ASSUME ProgressionInv, AcceptReport
  PROVE  \/ /\ row.role = "test" /\ UNCHANGED <<run, runs>>
            /\ op' \in Ops /\ op'.do = "accepted" /\ op'.at = "policy"
         \/ /\ row.report = "objection"
            /\ run' \in RunRows /\ run'.stage = "test" /\ run'.objection # ""
               /\ run'.status \in {"active", "waiting_for_human"}
            /\ run'.handoff = run.handoff /\ run'.protected = run.protected
            /\ run'.attempts = run.attempts /\ run'.pending = run.pending
            /\ run'.tries <= packet.revisions
            /\ runs' \in [repairs : Nat, revisions : Nat] /\ runs'.repairs = runs.repairs
            /\ \/ /\ runs' = runs
                  /\ (run'.status = "active" /\ run'.tries = run.tries + 1)
                     \/ (run'.status # "active" /\ run'.tries = run.tries)
               \/ runs'.revisions = 0 /\ run'.tries \in Nat /\ (run'.status = "active" => run'.tries >= 1)
            /\ op' \in Ops
            /\ (run'.status = "active" /\ op'.do = "accepted" /\ op'.at = "next")
               \/ (run'.status # "active" /\ op'.do = "idle")
         \/ /\ row.role # "test" /\ row.report # "objection" /\ runs' = runs
            /\ run' \in RunRows /\ Kept(run, run')
            /\ run'.stage = run.stage \/ run'.stage \in {"test", "implementation"}
            /\ op' \in Ops /\ op'.do = "idle"
<1>1. CASE row.role = "test" /\ op' = Op("accepted", "policy") /\ UNCHANGED <<run, runs>>
  BY <1>1, OpFields, OpsAre
<1>2. CASE /\ row.report = "objection"
           /\ \E d \in Disputes :
                /\ run' = projectImplementationTestObjection(run, d)
                /\ runs' = IF run.dispute = d THEN runs ELSE [runs EXCEPT !.revisions = 0]
           /\ op' = IF run'.status = "active" THEN Op("accepted", "next") ELSE Idle
  <2>1. op' \in Ops /\ ((run'.status = "active" /\ op'.do = "accepted" /\ op'.at = "next")
                        \/ (run'.status # "active" /\ op'.do = "idle"))
    <3>1. CASE run'.status = "active"
      <4>1. op' = Op("accepted", "next")
        BY <1>2, <3>1
      <4> QED
        BY <3>1, <4>1, OpFields, OpsAre
    <3>2. CASE run'.status # "active"
      <4>1. op' = Idle
        BY <1>2, <3>2
      <4> QED
        BY <3>2, <4>1, OpFields, OpsAre
    <3> QED
      BY <3>1, <3>2
  <2> QED
    BY <1>2, <2>1, ObjectionAccepted
<1>3. CASE /\ row.role # "test" /\ row.report # "objection"
           /\ run' = agentReportRunProjection(run, row.report)
           /\ op' = Idle /\ UNCHANGED runs
  <2>1. run \in RunRows /\ run.stage \in Roles
    BY TypesAre DEF AcceptReport, admitAcceptance, ProgressionInv, ShapeInv, InvocationInv
  <2>2. LET s == agentReportRunProjection(run, row.report)
        IN  /\ s \in RunRows /\ Kept(run, s)
            /\ s.stage = run.stage \/ s.stage \in {"test", "implementation"}
    BY <2>1, ProjectedSet
  <2> QED
    BY <1>3, <2>2, OpFields, OpsAre
<1> QED
  BY <1>1, <1>2, <1>3 DEF AcceptReport

LEMMA AcceptReportHolds ==
  ASSUME ProgressionInv, AcceptReport PROVE ProgressionInv'
<1>1. /\ coord = "ready" /\ op.do = "idle" /\ run.status = "active" /\ Active
      /\ row.report # "none" /\ row.role = run.stage
      /\ UNCHANGED <<packet, journal, agent, tests, red, coord, turns, faults, cmds>>
  BY OpFields DEF AcceptReport, Driving, admitAcceptance, code, bounds
<1>2. worker' \in BOOLEAN
  BY <1>1 DEF AcceptReport, ProgressionInv, TypeOK
<1>3. /\ row' \in Rows /\ row'.status # "active" /\ Same(row, row')
      /\ row'.session = row.session /\ row'.native = row.native /\ row'.voided = row.voided
         /\ row'.report = row.report
  BY TypesAre, AcceptedSet DEF AcceptReport
<1>4. /\ agent # "working" /\ row.role \in Roles
      /\ row.report = "objection" => row.role = "implementation"
      /\ row.role # "test" => run.objection = ""
      /\ run.handoff => run.protected \in red
  BY <1>1 DEF ProgressionInv, ShapeInv, InvocationInv, DeliveryInv, ObjectionInv
<1>5. /\ row.role # "test" => run.objection = ""
      /\ run.tries <= packet.revisions
  BY <1>1, <1>4 DEF ProgressionInv, CountInv, RevisionsInv
<1>6. \/ /\ row.role = "test" /\ UNCHANGED <<run, runs>>
         /\ op' \in Ops /\ op'.do = "accepted" /\ op'.at = "policy"
      \/ /\ row.report = "objection"
         /\ run' \in RunRows /\ run'.stage = "test" /\ run'.objection # ""
            /\ run'.status \in {"active", "waiting_for_human"}
         /\ run'.handoff = run.handoff /\ run'.protected = run.protected
         /\ run'.attempts = run.attempts /\ run'.pending = run.pending
         /\ run'.tries <= packet.revisions
         /\ runs' \in [repairs : Nat, revisions : Nat] /\ runs'.repairs = runs.repairs
         /\ \/ /\ runs' = runs
               /\ (run'.status = "active" /\ run'.tries = run.tries + 1)
                  \/ (run'.status # "active" /\ run'.tries = run.tries)
            \/ runs'.revisions = 0 /\ run'.tries \in Nat /\ (run'.status = "active" => run'.tries >= 1)
         /\ op' \in Ops
         /\ (run'.status = "active" /\ op'.do = "accepted" /\ op'.at = "next")
            \/ (run'.status # "active" /\ op'.do = "idle")
      \/ /\ row.role # "test" /\ row.report # "objection" /\ runs' = runs
         /\ run' \in RunRows /\ Kept(run, run')
         /\ run'.stage = run.stage \/ run'.stage \in {"test", "implementation"}
         /\ op' \in Ops /\ op'.do = "idle"
  BY AcceptedRuns DEF AcceptReport
<1>7. /\ packet' = packet /\ faults' = faults /\ run'.tries <= packet.revisions
      /\ \/ /\ runs'.revisions = runs.revisions /\ run'.tries = run.tries
            /\ row.report # "objection" \/ run'.status # "active"
         \/ /\ row.report = "objection" /\ run'.status = "active"
            /\ \/ runs'.revisions = runs.revisions /\ run'.tries = run.tries + 1
               \/ runs'.revisions = 0 /\ run'.tries \in Nat /\ run'.tries >= 1
         \/ /\ row.report = "objection" /\ run'.status # "active"
            /\ runs'.revisions = 0 /\ run'.tries \in Nat
  BY <1>1, <1>4, <1>5, <1>6 DEF Kept
<1>8. TypeOK'
  BY <1>1, <1>2, <1>3, <1>6 DEF ProgressionInv, TypeOK
<1>9. ShapeInv'
  <2>1. InvocationInv'
    BY <1>1, <1>3, <1>4, <1>6
       DEF ProgressionInv, ShapeInv, InvocationInv, OperationInv, RepairInv, Active, Same, Kept,
           Roles
  <2>2. OperationInv'
    BY <1>1, <1>3, <1>4, <1>6
       DEF ProgressionInv, ShapeInv, InvocationInv, OperationInv, DeliveryInv, RepairInv, Active,
           Same, Kept, Roles
  <2>3. RepairInv'
    BY <1>1, <1>3, <1>4, <1>6
       DEF ProgressionInv, ShapeInv, InvocationInv, OperationInv, DeliveryInv, RepairInv, Active,
           Same, Kept, Roles
  <2>4. DeliveryInv'
    BY <1>1, <1>3, <1>4, <1>6
       DEF ProgressionInv, ShapeInv, InvocationInv, OperationInv, DeliveryInv, RepairInv, Active,
           Same, Kept, Roles
  <2>5. ObjectionInv'
    BY <1>1, <1>3, <1>4, <1>6
       DEF ProgressionInv, ShapeInv, InvocationInv, OperationInv, ObjectionInv, Active, Same, Kept,
           Roles
  <2> QED
    BY <2>1, <2>2, <2>3, <2>4, <2>5 DEF ShapeInv
<1>10. ResumesInv' /\ AttemptsInv'
  BY <1>1, <1>3, <1>6, NumbersAre DEF ProgressionInv, CountInv, ResumesInv, AttemptsInv, Same, Kept
<1>11. RepairsInv'
  BY <1>1, <1>3, <1>6, NumbersAre
     DEF ProgressionInv, CountInv, RepairsInv, RepairDue, RepairOpen, Active, Same, Kept
<1>12. ~RevisionDue' \/ (row.report = "objection" /\ run'.status = "active")
  BY <1>1, <1>3, <1>5, <1>6 DEF RevisionDue, Unestablished, Active, Same, Kept
<1>13. RevisionsInv'
  BY <1>7, <1>12, NumbersAre DEF ProgressionInv, CountInv, RevisionsInv, Kept
<1> QED
  BY <1>8, <1>9, <1>10, <1>11, <1>13 DEF ProgressionInv, CountInv

\* test_stage.go: the ways a test role's report is taken up.
LEMMA PolicySteps ==
  ASSUME ProgressionInv, acceptTestStageReport
  PROVE  /\ row.report # "none"
         /\ \/ /\ row.report = "clarification"
               /\ run' = [run EXCEPT !.status = "waiting_for_human", !.why = "", !.questions = TRUE]
               /\ op' = Idle /\ UNCHANGED <<row, worker, agent, red>>
            \/ PauseTest /\ UNCHANGED red
            \/ /\ row.report = "exemption"
               /\ run' = [run EXCEPT !.stage = "implementation", !.skipped = "technical"]
               /\ StopWorkers /\ op' = Op("accepted", "next") /\ UNCHANGED <<row, red>>
            \/ /\ red' = red \cup {tests} /\ StopWorkers
               /\ op' = Op("accepted", "red") /\ UNCHANGED <<run, row>>
<1>1. op.do = "accepted" /\ op.at = "policy" /\ row \in Rows
  BY OpFields, TypesAre DEF acceptTestStageReport
<1>2. row.role = "test" /\ row.report # "none" /\ row.report # "objection"
  BY <1>1 DEF ProgressionInv, ShapeInv, OperationInv, InvocationInv
<1>3. row.report \in Reports
  BY <1>1, RowIs DEF Reports
<1>4. row.report \in {"clarification", "cannot_proceed", "rejected", "exemption", "completed"}
  BY <1>2, <1>3 DEF Reports
<1>5. CASE row.report = "clarification"
  BY <1>5 DEF acceptTestStageReport, live
<1>6. CASE row.report \in {"cannot_proceed", "rejected"}
  BY <1>2, <1>6 DEF acceptTestStageReport
<1>7. CASE row.report = "exemption"
  BY <1>7 DEF acceptTestStageReport
<1>8. CASE row.report = "completed"
  BY <1>8 DEF acceptTestStageReport
<1> QED
  BY <1>4, <1>5, <1>6, <1>7, <1>8

LEMMA PausedRow ==
  ASSUME ProgressionInv, acceptTestStageReport
  PROVE  /\ row' \in Rows /\ row'.status \in {row.status, "waiting_for_human"} /\ Same(row, row')
         /\ row'.session = row.session /\ row'.native = row.native /\ row'.voided = row.voided
            /\ row'.report = row.report
<1>1. row' = row \/ row' = [row EXCEPT !.status = "waiting_for_human"]
  BY PolicySteps DEF PauseTest
<1>2. row \in Rows /\ "waiting_for_human" \in RowStatuses
  BY TypesAre DEF RowStatuses
<1>3. LET s == [row EXCEPT !.status = "waiting_for_human"]
      IN  /\ s \in Rows /\ s.status = "waiting_for_human" /\ Same(row, s)
          /\ s.session = row.session /\ s.native = row.native /\ s.voided = row.voided /\ s.report = row.report
  BY <1>2, RowStatusSet
<1> QED
  BY <1>1, <1>2, <1>3 DEF Same

LEMMA PolicyRuns ==
  ASSUME ProgressionInv, acceptTestStageReport
  PROVE  /\ row.report # "none"
         /\ \/ /\ run' \in RunRows /\ run'.stage = run.stage /\ run'.status = "waiting_for_human"
                  /\ Kept(run, run')
               /\ red' = red /\ op' \in Ops /\ op'.do = "idle"
            \/ /\ row.report = "exemption" /\ red' = red
               /\ run' \in RunRows /\ run'.stage = "implementation" /\ run'.status = run.status
                  /\ Kept(run, run')
               /\ op' \in Ops /\ op'.do = "accepted" /\ op'.at = "next"
            \/ /\ run' = run /\ red' = red \cup {tests}
               /\ op' \in Ops /\ op'.do = "accepted" /\ op'.at = "red"
<1>1. row.report # "none"
  BY PolicySteps
<1>2. run \in RunRows
  BY TypesAre
<1>3. CASE PauseTest /\ UNCHANGED red
  <2>1. Park("waiting_for_human", "policy") /\ op' = Idle
    BY <1>3 DEF PauseTest
  <2>2. run' \in RunRows /\ run'.stage = run.stage /\ run'.status = "waiting_for_human" /\ Kept(run, run')
    BY <2>1, ParkedIs
  <2> QED
    BY <1>1, <1>3, <2>1, <2>2, OpFields, OpsAre
<1>4. CASE /\ run' = [run EXCEPT !.status = "waiting_for_human", !.why = "", !.questions = TRUE]
           /\ op' = Idle /\ red' = red
  <2>1. run' \in RunRows /\ run'.stage = run.stage /\ run'.status = "waiting_for_human" /\ Kept(run, run')
    BY <1>2, <1>4, QuestionsSet
  <2> QED
    BY <1>1, <1>4, <2>1, OpFields, OpsAre
<1>5. CASE /\ row.report = "exemption" /\ red' = red
           /\ run' = [run EXCEPT !.stage = "implementation", !.skipped = "technical"]
           /\ op' = Op("accepted", "next")
  <2>1. run' \in RunRows /\ run'.stage = "implementation" /\ run'.status = run.status /\ Kept(run, run')
    BY <1>2, <1>5, SkipSet
  <2>2. op' \in Ops /\ op'.do = "accepted" /\ op'.at = "next"
    BY <1>5, OpFields, OpsAre
  <2> QED
    BY <1>1, <1>5, <2>1, <2>2
<1>6. CASE red' = red \cup {tests} /\ op' = Op("accepted", "red") /\ run' = run
  BY <1>1, <1>6, OpFields, OpsAre
<1> QED
  BY <1>3, <1>4, <1>5, <1>6, PolicySteps

LEMMA CheckpointedRun ==
  ASSUME ProgressionInv, CheckpointTests
  PROVE  /\ run' \in RunRows /\ run'.stage = "implementation" /\ run'.status = "active"
         /\ run'.handoff /\ run'.protected = tests /\ run'.objection = ""
         /\ run'.attempts = run.attempts /\ run'.pending = run.pending /\ run'.tries = run.tries
<1>1. run \in RunRows /\ tests \in Nat
  BY TypesAre
<1>2. LET s == [run EXCEPT !.handoff = TRUE, !.protected = tests, !.objection = "",
                           !.testInv = @ \/ run.objection # "",
                           !.stage = "implementation", !.status = "active", !.why = ""]
      IN  /\ s \in RunRows /\ s.stage = "implementation" /\ s.status = "active"
          /\ s.handoff /\ s.protected = tests /\ s.objection = ""
          /\ s.tries = run.tries /\ s.attempts = run.attempts /\ s.pending = run.pending
  BY <1>1, CheckpointSet
<1> QED
  BY <1>2 DEF CheckpointTests

LEMMA acceptTestStageReportHolds ==
  ASSUME ProgressionInv, acceptTestStageReport PROVE ProgressionInv'
<1>1. /\ coord = "ready" /\ op.do = "accepted" /\ op.at = "policy"
      /\ UNCHANGED <<packet, journal, tests, coord, runs, turns, faults, cmds>>
  BY OpFields DEF acceptTestStageReport, bounds
<1>2. /\ row.role = "test" /\ ~Active /\ agent = "none"
      /\ row.report = "exemption" => run.objection = ""
  BY <1>1 DEF ProgressionInv, TypeOK, ShapeInv, OperationInv, InvocationInv, ObjectionInv
<1>3. worker' \in BOOLEAN /\ agent' \in {"none", agent}
  BY PolicySteps DEF PauseTest, StopWorkers, ProgressionInv, TypeOK
<1>4. agent' \in {"none", "working"}
  BY <1>3 DEF ProgressionInv, TypeOK
<1>5. /\ row' \in Rows /\ row'.status \in {row.status, "waiting_for_human"} /\ Same(row, row')
      /\ row'.session = row.session /\ row'.native = row.native /\ row'.voided = row.voided
         /\ row'.report = row.report
  BY PausedRow
<1>6. /\ row.report # "none"
      /\ \/ /\ run' \in RunRows /\ run'.stage = run.stage /\ run'.status = "waiting_for_human"
               /\ Kept(run, run')
            /\ red' = red /\ op' \in Ops /\ op'.do = "idle"
         \/ /\ row.report = "exemption" /\ red' = red
            /\ run' \in RunRows /\ run'.stage = "implementation" /\ run'.status = run.status /\ Kept(run, run')
            /\ op' \in Ops /\ op'.do = "accepted" /\ op'.at = "next"
         \/ /\ run' = run /\ red' = red \cup {tests}
            /\ op' \in Ops /\ op'.do = "accepted" /\ op'.at = "red"
  BY PolicyRuns
<1>7. red' \subseteq Nat
  BY <1>6, TypesAre DEF ProgressionInv, TypeOK
<1>8. TypeOK'
  BY <1>1, <1>3, <1>4, <1>5, <1>6, <1>7 DEF ProgressionInv, TypeOK
<1>9. ShapeInv'
  <2>1. InvocationInv'
    BY <1>1, <1>2, <1>3, <1>5, <1>6
       DEF ProgressionInv, ShapeInv, InvocationInv, OperationInv, RepairInv, Active, Same, Kept
  <2>2. OperationInv'
    BY <1>1, <1>2, <1>3, <1>5, <1>6
       DEF ProgressionInv, ShapeInv, InvocationInv, OperationInv, DeliveryInv, RepairInv, Active,
           Same, Kept
  <2>3. RepairInv'
    BY <1>1, <1>2, <1>3, <1>5, <1>6
       DEF ProgressionInv, ShapeInv, InvocationInv, OperationInv, DeliveryInv, RepairInv, Active,
           Same, Kept
  <2>4. DeliveryInv'
    BY <1>1, <1>2, <1>3, <1>5, <1>6
       DEF ProgressionInv, ShapeInv, InvocationInv, OperationInv, DeliveryInv, RepairInv, Active,
           Same, Kept
  <2>5. ObjectionInv'
    BY <1>1, <1>2, <1>3, <1>5, <1>6
       DEF ProgressionInv, ShapeInv, InvocationInv, OperationInv, ObjectionInv, Active, Same, Kept
  <2> QED
    BY <2>1, <2>2, <2>3, <2>4, <2>5 DEF ShapeInv
<1>10. ResumesInv' /\ AttemptsInv'
  BY <1>1, <1>5, <1>6, NumbersAre DEF ProgressionInv, CountInv, ResumesInv, AttemptsInv, Same, Kept
<1>11. RepairsInv'
  BY <1>1, <1>5, <1>6, NumbersAre
     DEF ProgressionInv, CountInv, RepairsInv, RepairDue, RepairOpen, Active, Same, Kept
<1>12. ~RevisionDue'
  BY <1>1, <1>2, <1>5, <1>6 DEF RevisionDue, Unestablished, Active, Same, Kept
<1>13. RevisionsInv'
  BY <1>1, <1>5, <1>6, <1>12, NumbersAre DEF ProgressionInv, CountInv, RevisionsInv, Kept
<1> QED
  BY <1>8, <1>9, <1>10, <1>11, <1>13 DEF ProgressionInv, CountInv

LEMMA CheckpointTestsHolds ==
  ASSUME ProgressionInv, CheckpointTests PROVE ProgressionInv'
<1>1. /\ coord = "ready" /\ op.do = "accepted" /\ op.at = "red"
      /\ op' \in Ops /\ op'.do = "accepted" /\ op'.at = "next"
      /\ UNCHANGED <<packet, row, journal, worker, agent, tests, red, coord, runs, turns, faults, cmds>>
  BY OpFields, OpsAre DEF CheckpointTests, live, code, bounds
<1>2. /\ run' \in RunRows /\ run'.stage = "implementation" /\ run'.status = "active"
      /\ run'.handoff /\ run'.protected = tests
      /\ run'.attempts = run.attempts /\ run'.pending = run.pending /\ run'.tries = run.tries
  BY CheckpointedRun
<1>3. run'.objection = ""
  BY CheckpointedRun
<1>4. TypeOK'
  BY <1>1, <1>2 DEF ProgressionInv, TypeOK
<1>5. ShapeInv'
  <2>1. InvocationInv'
    BY <1>1, <1>2, <1>3
       DEF ProgressionInv, ShapeInv, InvocationInv, OperationInv, RepairInv, Active, Same, Kept
  <2>2. OperationInv'
    BY <1>1, <1>2, <1>3
       DEF ProgressionInv, ShapeInv, InvocationInv, OperationInv, DeliveryInv, RepairInv, Active,
           Same, Kept
  <2>3. RepairInv'
    BY <1>1, <1>2, <1>3
       DEF ProgressionInv, ShapeInv, InvocationInv, OperationInv, DeliveryInv, RepairInv, Active,
           Same, Kept
  <2>4. DeliveryInv'
    BY <1>1, <1>2, <1>3
       DEF ProgressionInv, ShapeInv, InvocationInv, OperationInv, DeliveryInv, RepairInv, Active,
           Same, Kept
  <2>5. ObjectionInv'
    BY <1>1, <1>2, <1>3
       DEF ProgressionInv, ShapeInv, InvocationInv, OperationInv, ObjectionInv, Active, Same, Kept
  <2> QED
    BY <2>1, <2>2, <2>3, <2>4, <2>5 DEF ShapeInv
<1>6. ResumesInv' /\ AttemptsInv'
  BY <1>1, <1>2, NumbersAre DEF ProgressionInv, CountInv, ResumesInv, AttemptsInv, Same, Kept
<1>7. RepairsInv'
  BY <1>1, <1>2, NumbersAre
     DEF ProgressionInv, CountInv, RepairsInv, RepairDue, RepairOpen, Active, Same, Kept
<1>8. ~RevisionDue'
  BY <1>1, <1>2, <1>3 DEF RevisionDue, Unestablished, Active, Same, Kept
<1>9. RevisionsInv'
  BY <1>1, <1>2, <1>8, NumbersAre DEF ProgressionInv, CountInv, RevisionsInv, Kept
<1> QED
  BY <1>4, <1>5, <1>6, <1>7, <1>9 DEF ProgressionInv, CountInv

\* draft_pr.go: delivery begins with the check of the protected tests.
LEMMA DeliveredRun ==
  ASSUME ProgressionInv, CreateDraftPullRequest
  PROVE  \/ /\ run.handoff => run.protected = tests
            /\ run' \in RunRows /\ run'.stage = "check" /\ run'.status = run.status /\ Kept(run, run')
            /\ op' \in Ops /\ op'.do = "deliver"
         \/ run' \in RunRows /\ run'.stage = run.stage /\ Kept(run, run') /\ run'.status # "active"
            /\ (run'.status = "failed" => run.status = "failed") /\ op' = op
<1>1. CASE validateProtectedTestPaths /\ run' = [run EXCEPT !.stage = "check"] /\ op' = Op("deliver", "gates")
  <2>1. run \in RunRows /\ "check" \in Stages
    BY TypesAre DEF Stages
  <2>2. run' \in RunRows /\ run'.stage = "check" /\ run'.status = run.status /\ Kept(run, run')
    BY <1>1, <2>1, StageSet
  <2> QED
    BY <1>1, <2>2, OpFields, OpsAre DEF validateProtectedTestPaths
<1>2. CASE run' = Stop(run) /\ UNCHANGED op
  BY <1>2, StoppedIs
<1> QED
  BY <1>1, <1>2 DEF CreateDraftPullRequest

\* draft_pr.go, repair.go: what the gates' result does to the run.
LEMMA GatedRun ==
  ASSUME ProgressionInv, RunGates
  PROVE  \/ run' = run /\ faults' = faults /\ op' \in Ops /\ op'.do = "deliver"
         \/ /\ run' = run /\ faults' = faults /\ run.attempts < packet.repairs
            /\ op' \in Ops /\ op'.do = "repair" /\ op'.at = "start"
         \/ /\ run' \in RunRows /\ run'.stage = run.stage /\ run'.status = "waiting_for_human"
               /\ Kept(run, run')
            /\ op' \in Ops /\ op'.do = "idle"
            /\ faults' = faults \/ faults' = faults + 1
<1>1. CASE op' = Op("deliver", "pull_request") /\ UNCHANGED <<run, faults>>
  BY <1>1, OpFields, OpsAre
<1>2. CASE run.attempts < packet.repairs /\ op' = Op("repair", "start") /\ UNCHANGED <<run, faults>>
  BY <1>2, OpFields, OpsAre
<1>3. ASSUME NEW why \in {"policy", "checks"}, Park("waiting_for_human", why), op' = Idle,
             faults' = faults \/ Faults(1)
      PROVE  /\ run' \in RunRows /\ run'.stage = run.stage /\ run'.status = "waiting_for_human"
                /\ Kept(run, run')
             /\ op' \in Ops /\ op'.do = "idle"
             /\ faults' = faults \/ faults' = faults + 1
  <2>1. run' \in RunRows /\ run'.stage = run.stage /\ run'.status = "waiting_for_human" /\ Kept(run, run')
    BY <1>3, ParkedIs
  <2>2. faults' = faults \/ faults' = faults + 1
    BY <1>3, FaultCounted
  <2> QED
    BY <1>3, <2>1, <2>2, OpFields, OpsAre
<1>4. CASE Park("waiting_for_human", "policy") /\ op' = Idle /\ UNCHANGED faults
  BY <1>3, <1>4
<1>5. CASE Park("waiting_for_human", "checks") /\ op' = Idle /\ Faults(1)
  BY <1>3, <1>5
<1> QED
  BY <1>1, <1>2, <1>4, <1>5 DEF RunGates

LEMMA CreateDraftPullRequestHolds ==
  ASSUME ProgressionInv, CreateDraftPullRequest PROVE ProgressionInv'
<1>1. /\ coord = "ready" /\ op.do = "idle" /\ run.status = "active" /\ ~Active
      /\ run.stage \in {"implementation", "check"} /\ run.pending = 0
      /\ UNCHANGED <<packet, row, journal, worker, agent, tests, red, coord, runs, turns, faults, cmds>>
  BY OpFields DEF CreateDraftPullRequest, Driving, Deliverable, live, code, bounds
<1>2. \/ /\ run.handoff => run.protected = tests
         /\ run' \in RunRows /\ run'.stage = "check" /\ run'.status = run.status /\ Kept(run, run')
         /\ op' \in Ops /\ op'.do = "deliver"
      \/ run' \in RunRows /\ run'.stage = run.stage /\ Kept(run, run') /\ run'.status # "active"
         /\ (run'.status = "failed" => run.status = "failed") /\ op' = op
  BY DeliveredRun
<1>3. run.objection = ""
  BY <1>1 DEF ProgressionInv, ShapeInv, ObjectionInv
<1>4. TypeOK'
  BY <1>1, <1>2 DEF ProgressionInv, TypeOK
<1>5. ShapeInv'
  <2>1. InvocationInv'
    BY <1>1, <1>2, <1>3
       DEF ProgressionInv, ShapeInv, InvocationInv, OperationInv, RepairInv, Active, Same, Kept
  <2>2. OperationInv'
    BY <1>1, <1>2, <1>3
       DEF ProgressionInv, ShapeInv, InvocationInv, OperationInv, DeliveryInv, RepairInv, Active,
           Same, Kept
  <2>3. RepairInv'
    BY <1>1, <1>2, <1>3
       DEF ProgressionInv, ShapeInv, InvocationInv, OperationInv, DeliveryInv, RepairInv, Active,
           Same, Kept
  <2>4. DeliveryInv'
    BY <1>1, <1>2, <1>3
       DEF ProgressionInv, ShapeInv, InvocationInv, OperationInv, DeliveryInv, RepairInv, Active,
           Same, Kept
  <2>5. ObjectionInv'
    BY <1>1, <1>2, <1>3
       DEF ProgressionInv, ShapeInv, InvocationInv, OperationInv, ObjectionInv, Active, Same, Kept
  <2> QED
    BY <2>1, <2>2, <2>3, <2>4, <2>5 DEF ShapeInv
<1>6. ResumesInv' /\ AttemptsInv'
  BY <1>1, <1>2, NumbersAre DEF ProgressionInv, CountInv, ResumesInv, AttemptsInv, Same, Kept
<1>7. RepairsInv'
  BY <1>1, <1>2, NumbersAre
     DEF ProgressionInv, CountInv, RepairsInv, RepairDue, RepairOpen, Active, Same, Kept
<1>8. RevisionDue' => RevisionDue
  BY <1>1, <1>2, <1>3 DEF RevisionDue, Unestablished, Active, Same, Kept
<1>9. RevisionsInv'
  BY <1>1, <1>2, <1>8, NumbersAre DEF ProgressionInv, CountInv, RevisionsInv, Kept
<1> QED
  BY <1>4, <1>5, <1>6, <1>7, <1>9 DEF ProgressionInv, CountInv

LEMMA RunGatesHolds ==
  ASSUME ProgressionInv, RunGates PROVE ProgressionInv'
<1>1. /\ coord = "ready" /\ op.do = "deliver" /\ worker' = TRUE
      /\ UNCHANGED <<packet, row, journal, agent, tests, red, coord, runs, turns, cmds>>
  BY OpFields DEF RunGates, code
<1>2. \/ run' = run /\ faults' = faults /\ op' \in Ops /\ op'.do = "deliver"
      \/ /\ run' = run /\ faults' = faults /\ run.attempts < packet.repairs
         /\ op' \in Ops /\ op'.do = "repair" /\ op'.at = "start"
      \/ /\ run' \in RunRows /\ run'.stage = run.stage /\ run'.status = "waiting_for_human" /\ Kept(run, run')
         /\ op' \in Ops /\ op'.do = "idle"
         /\ faults' = faults \/ faults' = faults + 1
  BY GatedRun
<1>3. run.pending = 0
  BY <1>1 DEF ProgressionInv, ShapeInv, DeliveryInv
<1>4. faults' \in 0 .. MaxFaults
  BY FaultCounted DEF RunGates, ProgressionInv, TypeOK
<1>5. run.stage = "check" /\ ~Active
  BY <1>1 DEF ProgressionInv, ShapeInv, DeliveryInv
<1>6. run.objection = ""
  BY <1>5 DEF ProgressionInv, ShapeInv, ObjectionInv
<1>7. TypeOK'
  BY <1>1, <1>2, <1>4 DEF ProgressionInv, TypeOK
<1>8. ShapeInv'
  <2>1. InvocationInv'
    BY <1>1, <1>2, <1>3, <1>5
       DEF ProgressionInv, ShapeInv, InvocationInv, OperationInv, RepairInv, Active, Same, Kept
  <2>2. OperationInv'
    BY <1>1, <1>2, <1>3, <1>5
       DEF ProgressionInv, ShapeInv, InvocationInv, OperationInv, DeliveryInv, RepairInv, Active,
           Same, Kept
  <2>3. RepairInv'
    BY <1>1, <1>2, <1>3, <1>5
       DEF ProgressionInv, ShapeInv, InvocationInv, OperationInv, DeliveryInv, RepairInv, Active,
           Same, Kept
  <2>4. DeliveryInv'
    BY <1>1, <1>2, <1>3, <1>5
       DEF ProgressionInv, ShapeInv, InvocationInv, OperationInv, DeliveryInv, RepairInv, Active,
           Same, Kept
  <2>5. ObjectionInv'
    BY <1>1, <1>2, <1>3, <1>5
       DEF ProgressionInv, ShapeInv, InvocationInv, OperationInv, ObjectionInv, Active, Same, Kept
  <2> QED
    BY <2>1, <2>2, <2>3, <2>4, <2>5 DEF ShapeInv
<1>9. ResumesInv' /\ AttemptsInv'
  BY <1>1, <1>2, NumbersAre DEF ProgressionInv, CountInv, ResumesInv, AttemptsInv, Same, Kept
<1>10. RepairsInv'
  BY <1>1, <1>2, <1>3, NumbersAre
     DEF ProgressionInv, CountInv, RepairsInv, RepairDue, RepairOpen, Active, Same, Kept
<1>11. RevisionDue' => RevisionDue
  BY <1>1, <1>2, <1>6 DEF RevisionDue, Unestablished, Active, Same, Kept
<1>12. RevisionsInv'
  BY <1>1, <1>2, <1>11, NumbersAre DEF ProgressionInv, CountInv, RevisionsInv, Kept
<1> QED
  BY <1>7, <1>8, <1>9, <1>10, <1>12 DEF ProgressionInv, CountInv

LEMMA OpenPullRequestHolds ==
  ASSUME ProgressionInv, OpenPullRequest PROVE ProgressionInv'
<1>1. /\ coord = "ready" /\ op.do = "deliver" /\ op' \in Ops /\ op'.do = "idle"
      /\ UNCHANGED <<packet, row, journal, worker, agent, tests, red, coord, runs, turns, cmds>>
  BY OpFields, OpsAre DEF OpenPullRequest, live, code
<1>2. /\ run' \in RunRows /\ run'.stage \in {run.stage, "draft_pr"} /\ Kept(run, run')
      /\ run'.status = run.status \/ run'.status # "active"
      /\ faults' = faults \/ faults' = faults + 1
  BY TypesAre, DraftSet, StoppedIs, FaultCounted DEF OpenPullRequest
<1>3. faults' \in 0 .. MaxFaults
  BY FaultCounted DEF OpenPullRequest, ProgressionInv, TypeOK
<1>4. run.stage = "check" /\ ~Active
  BY <1>1 DEF ProgressionInv, ShapeInv, DeliveryInv
<1>5. run.objection = ""
  BY <1>4 DEF ProgressionInv, ShapeInv, ObjectionInv
<1>6. TypeOK'
  BY <1>1, <1>2, <1>3 DEF ProgressionInv, TypeOK
<1>7. ShapeInv'
  <2>1. InvocationInv'
    BY <1>1, <1>2, <1>4, <1>5
       DEF ProgressionInv, ShapeInv, InvocationInv, OperationInv, RepairInv, Active, Same, Kept
  <2>2. OperationInv'
    BY <1>1, <1>2, <1>4, <1>5
       DEF ProgressionInv, ShapeInv, InvocationInv, OperationInv, DeliveryInv, RepairInv, Active,
           Same, Kept
  <2>3. RepairInv'
    BY <1>1, <1>2, <1>4, <1>5
       DEF ProgressionInv, ShapeInv, InvocationInv, OperationInv, DeliveryInv, RepairInv, Active,
           Same, Kept
  <2>4. DeliveryInv'
    BY <1>1, <1>2, <1>4, <1>5
       DEF ProgressionInv, ShapeInv, InvocationInv, OperationInv, DeliveryInv, RepairInv, Active,
           Same, Kept
  <2>5. ObjectionInv'
    BY <1>1, <1>2, <1>4, <1>5
       DEF ProgressionInv, ShapeInv, InvocationInv, OperationInv, ObjectionInv, Active, Same, Kept
  <2> QED
    BY <2>1, <2>2, <2>3, <2>4, <2>5 DEF ShapeInv
<1>8. ResumesInv' /\ AttemptsInv'
  BY <1>1, <1>2, NumbersAre DEF ProgressionInv, CountInv, ResumesInv, AttemptsInv, Same, Kept
<1>9. RepairsInv'
  BY <1>1, <1>2, NumbersAre
     DEF ProgressionInv, CountInv, RepairsInv, RepairDue, RepairOpen, Active, Same, Kept
<1>10. RevisionDue' => RevisionDue
  BY <1>1, <1>2, <1>5 DEF RevisionDue, Unestablished, Active, Same, Kept
<1>11. RevisionsInv'
  BY <1>1, <1>2, <1>10, NumbersAre DEF ProgressionInv, CountInv, RevisionsInv, Kept
<1> QED
  BY <1>6, <1>7, <1>8, <1>9, <1>11 DEF ProgressionInv, CountInv

\* repair.go startCheckRepair: the row of a repair, or a run that waits.
LEMMA RepairSaved ==
  ASSUME ProgressionInv, SaveRepairInvocation
  PROVE  \/ /\ row' \in Rows /\ row'.role = "implementation" /\ row'.status = "active" /\ ~row'.revision
            /\ row'.session /\ row'.native /\ ~row'.voided /\ row'.repair
            /\ row'.resumes = 0 /\ row'.calls = 0 /\ row'.report = "none"
            /\ run' = run /\ op' \in Ops /\ op'.do = "repair" /\ op'.at = "saved"
         \/ /\ row' = row
            /\ run' \in RunRows /\ run'.stage = run.stage /\ run'.status = "waiting_for_human"
               /\ Kept(run, run')
            /\ op' \in Ops /\ op'.do = "idle"
<1>1. CASE row.role = "implementation" /\ row.session
  <2>1. /\ row' = [NoRow EXCEPT !.role = "implementation", !.status = "active",
                               !.session = TRUE, !.native = TRUE, !.here = TRUE, !.repair = TRUE]
        /\ op' = Op("repair", "saved") /\ run' = run
    BY <1>1 DEF SaveRepairInvocation
  <2>2. /\ row' \in Rows /\ row'.role = "implementation" /\ row'.status = "active" /\ ~row'.revision
        /\ row'.session /\ row'.native /\ ~row'.voided /\ row'.repair
        /\ row'.resumes = 0 /\ row'.calls = 0 /\ row'.report = "none"
    BY <2>1, RepairRow
  <2>3. op' \in Ops /\ op'.do = "repair" /\ op'.at = "saved"
    BY <2>1, OpFields, OpsAre
  <2> QED
    BY <2>1, <2>2, <2>3
<1>2. CASE ~(row.role = "implementation" /\ row.session)
  <2>1. Park("waiting_for_human", "policy") /\ op' = Idle /\ row' = row
    BY <1>2 DEF SaveRepairInvocation
  <2>2. run' \in RunRows /\ run'.stage = run.stage /\ run'.status = "waiting_for_human" /\ Kept(run, run')
    BY <2>1, ParkedIs
  <2> QED
    BY <2>1, <2>2, OpFields, OpsAre
<1> QED
  BY <1>1, <1>2

LEMMA SaveRepairInvocationHolds ==
  ASSUME ProgressionInv, SaveRepairInvocation PROVE ProgressionInv'
<1>1. /\ coord = "ready" /\ op.do = "repair" /\ op.at = "start"
      /\ UNCHANGED <<packet, journal, worker, agent, tests, red, coord, runs, turns, faults, cmds>>
  BY OpFields DEF SaveRepairInvocation, live, code, bounds
<1>2. \/ /\ row' \in Rows /\ row'.role = "implementation" /\ row'.status = "active" /\ ~row'.revision
         /\ row'.session /\ row'.native /\ ~row'.voided /\ row'.repair
         /\ row'.resumes = 0 /\ row'.calls = 0 /\ row'.report = "none"
         /\ run' = run /\ op' \in Ops /\ op'.do = "repair" /\ op'.at = "saved"
      \/ /\ row' = row
         /\ run' \in RunRows /\ run'.stage = run.stage /\ run'.status = "waiting_for_human" /\ Kept(run, run')
         /\ op' \in Ops /\ op'.do = "idle"
  BY RepairSaved
<1>3. agent = "none" /\ ~Active
  BY <1>1 DEF ProgressionInv, TypeOK, ShapeInv, InvocationInv, RepairInv
<1>4. run.objection = ""
  BY <1>1 DEF ProgressionInv, ShapeInv, RepairInv, ObjectionInv
<1>5. TypeOK'
  BY <1>1, <1>2 DEF ProgressionInv, TypeOK
<1>6. ShapeInv'
  <2>1. InvocationInv'
    BY <1>1, <1>2, <1>3, <1>4
       DEF ProgressionInv, ShapeInv, InvocationInv, OperationInv, RepairInv, Active, Same, Kept,
           Roles
  <2>2. OperationInv'
    BY <1>1, <1>2, <1>3, <1>4
       DEF ProgressionInv, ShapeInv, InvocationInv, OperationInv, DeliveryInv, RepairInv, Active,
           Same, Kept, Roles
  <2>3. RepairInv'
    BY <1>1, <1>2, <1>3, <1>4
       DEF ProgressionInv, ShapeInv, InvocationInv, OperationInv, DeliveryInv, RepairInv, Active,
           Same, Kept, Roles
  <2>4. DeliveryInv'
    BY <1>1, <1>2, <1>3, <1>4
       DEF ProgressionInv, ShapeInv, InvocationInv, OperationInv, DeliveryInv, RepairInv, Active,
           Same, Kept, Roles
  <2>5. ObjectionInv'
    BY <1>1, <1>2, <1>3, <1>4
       DEF ProgressionInv, ShapeInv, InvocationInv, OperationInv, ObjectionInv, Active, Same, Kept,
           Roles
  <2> QED
    BY <2>1, <2>2, <2>3, <2>4, <2>5 DEF ShapeInv
<1>7. ResumesInv' /\ AttemptsInv'
  BY <1>1, <1>2, NumbersAre DEF ProgressionInv, CountInv, ResumesInv, AttemptsInv, Same, Kept
<1>8. RepairsInv'
  BY <1>1, <1>2, <1>3, NumbersAre
     DEF ProgressionInv, CountInv, RepairsInv, RepairDue, RepairOpen, Active, Same, Kept
<1>9. RevisionDue' => RevisionDue
  BY <1>1, <1>2, <1>4 DEF RevisionDue, Unestablished, Active, Same, Kept
<1>10. RevisionsInv'
  BY <1>1, <1>2, <1>9, NumbersAre DEF ProgressionInv, CountInv, RevisionsInv, Kept
<1> QED
  BY <1>5, <1>6, <1>7, <1>8, <1>10 DEF ProgressionInv, CountInv

LEMMA StartRepairWorkerHolds ==
  ASSUME ProgressionInv, StartRepairWorker PROVE ProgressionInv'
<1>1. /\ coord = "ready" /\ op.do = "repair" /\ op.at = "saved" /\ op' \in Ops /\ op'.do = "repair"
         /\ op'.at = "worker" /\ worker' = TRUE
      /\ UNCHANGED <<packet, run, row, journal, agent, tests, red, coord, runs, turns, faults, cmds>>
  BY OpFields, OpsAre DEF StartRepairWorker, code, bounds
<1>2. TypeOK'
  BY <1>1 DEF ProgressionInv, TypeOK
<1>3. ShapeInv'
  BY <1>1
     DEF ProgressionInv, ShapeInv, InvocationInv, OperationInv, RepairInv, DeliveryInv,
         ObjectionInv, Active, Same, Kept
<1>4. ResumesInv' /\ AttemptsInv'
  BY <1>1, NumbersAre DEF ProgressionInv, CountInv, ResumesInv, AttemptsInv, Same, Kept
<1>5. RepairsInv'
  BY <1>1, NumbersAre
     DEF ProgressionInv, CountInv, RepairsInv, RepairDue, RepairOpen, Active, Same, Kept
<1>6. RevisionDue' => RevisionDue
  BY <1>1 DEF RevisionDue, Unestablished, Active, Same, Kept
<1>7. RevisionsInv'
  BY <1>1, <1>6, NumbersAre DEF ProgressionInv, CountInv, RevisionsInv, Kept
<1> QED
  BY <1>2, <1>3, <1>4, <1>5, <1>7 DEF ProgressionInv, CountInv

LEMMA ReserveAttemptHolds ==
  ASSUME ProgressionInv, ReserveAttempt PROVE ProgressionInv'
<1>1. /\ coord = "ready" /\ op.do = "repair" /\ op.at = "worker" /\ op' \in Ops /\ op'.do = "repair"
         /\ op'.at = "reserved"
      /\ UNCHANGED <<packet, row, journal, worker, agent, tests, red, coord, runs, turns, faults, cmds>>
  BY OpFields, OpsAre DEF ReserveAttempt, live, code, bounds
<1>2. /\ run' \in RunRows /\ run'.stage = "implementation" /\ run'.status = run.status
      /\ run'.handoff = run.handoff /\ run'.protected = run.protected
      /\ run'.objection = run.objection /\ run'.tries = run.tries
      /\ run'.attempts = run.attempts /\ run'.pending = run.attempts + 1
  BY TypesAre, ReservedSet DEF ReserveAttempt
<1>3. run.attempts < packet.repairs /\ run.attempts \in Nat /\ run'.pending # 0
  BY <1>1, <1>2, NumbersAre DEF ProgressionInv, ShapeInv, RepairInv
<1>4. run.objection = ""
  BY <1>1 DEF ProgressionInv, ShapeInv, RepairInv, ObjectionInv
<1>5. TypeOK'
  BY <1>1, <1>2 DEF ProgressionInv, TypeOK
<1>6. ShapeInv'
  <2>1. InvocationInv'
    BY <1>1, <1>2, <1>3, <1>4
       DEF ProgressionInv, ShapeInv, InvocationInv, OperationInv, RepairInv, Active, Same, Kept
  <2>2. OperationInv'
    BY <1>1, <1>2, <1>3, <1>4
       DEF ProgressionInv, ShapeInv, InvocationInv, OperationInv, DeliveryInv, RepairInv, Active,
           Same, Kept
  <2>3. RepairInv'
    BY <1>1, <1>2, <1>3, <1>4
       DEF ProgressionInv, ShapeInv, InvocationInv, OperationInv, DeliveryInv, RepairInv, Active,
           Same, Kept
  <2>4. DeliveryInv'
    BY <1>1, <1>2, <1>3, <1>4
       DEF ProgressionInv, ShapeInv, InvocationInv, OperationInv, DeliveryInv, RepairInv, Active,
           Same, Kept
  <2>5. ObjectionInv'
    BY <1>1, <1>2, <1>3, <1>4
       DEF ProgressionInv, ShapeInv, InvocationInv, OperationInv, ObjectionInv, Active, Same, Kept
  <2> QED
    BY <2>1, <2>2, <2>3, <2>4, <2>5 DEF ShapeInv
<1>7. ResumesInv' /\ AttemptsInv'
  BY <1>1, <1>2, <1>3, NumbersAre DEF ProgressionInv, CountInv, ResumesInv, AttemptsInv, Same, Kept
<1>8. RepairsInv'
  BY <1>1, <1>2, NumbersAre
     DEF ProgressionInv, CountInv, RepairsInv, RepairDue, RepairOpen, Active, Same, Kept
<1>9. RevisionDue' => RevisionDue
  BY <1>1, <1>2, <1>4 DEF RevisionDue, Unestablished, Active, Same, Kept
<1>10. RevisionsInv'
  BY <1>1, <1>2, <1>9, NumbersAre DEF ProgressionInv, CountInv, RevisionsInv, Kept
<1> QED
  BY <1>5, <1>6, <1>7, <1>8, <1>10 DEF ProgressionInv, CountInv

LEMMA JournalRepairResumeHolds ==
  ASSUME ProgressionInv, JournalRepairResume PROVE ProgressionInv'
<1>1. /\ coord = "ready" /\ op.do = "repair" /\ op.at = "reserved" /\ op' \in Ops /\ op'.do = "repair"
         /\ op'.at = "journaled" /\ journal' = TRUE
      /\ UNCHANGED <<packet, run, worker, agent, tests, red, coord, runs, turns, faults, cmds>>
  BY OpFields, OpsAre DEF JournalRepairResume, live, code, bounds
<1>2. /\ row' \in Rows /\ row'.status = row.status /\ row'.resumes = row.resumes + 1 /\ row'.calls = row.calls
      /\ row'.role = row.role /\ row'.revision = row.revision /\ row'.repair = row.repair
      /\ row'.session = row.session /\ row'.native = row.native /\ row'.voided = row.voided
         /\ row'.report = row.report
  BY TypesAre, ResumedSet DEF JournalRepairResume
<1>3. TypeOK'
  BY <1>1, <1>2 DEF ProgressionInv, TypeOK
<1>4. ShapeInv'
  <2>1. InvocationInv'
    BY <1>1, <1>2
       DEF ProgressionInv, ShapeInv, InvocationInv, OperationInv, RepairInv, Active, Same, Kept
  <2>2. OperationInv'
    BY <1>1, <1>2
       DEF ProgressionInv, ShapeInv, InvocationInv, OperationInv, DeliveryInv, RepairInv, Active,
           Same, Kept
  <2>3. RepairInv'
    BY <1>1, <1>2
       DEF ProgressionInv, ShapeInv, InvocationInv, OperationInv, DeliveryInv, RepairInv, Active,
           Same, Kept
  <2>4. DeliveryInv'
    BY <1>1, <1>2
       DEF ProgressionInv, ShapeInv, InvocationInv, OperationInv, DeliveryInv, RepairInv, Active,
           Same, Kept
  <2>5. ObjectionInv'
    BY <1>1, <1>2
       DEF ProgressionInv, ShapeInv, InvocationInv, OperationInv, ObjectionInv, Active, Same, Kept
  <2> QED
    BY <2>1, <2>2, <2>3, <2>4, <2>5 DEF ShapeInv
<1>5. ResumesInv' /\ AttemptsInv'
  BY <1>1, <1>2, NumbersAre DEF ProgressionInv, CountInv, ResumesInv, AttemptsInv, Same, Kept
<1>6. RepairsInv'
  BY <1>1, <1>2, NumbersAre
     DEF ProgressionInv, CountInv, RepairsInv, RepairDue, RepairOpen, Active, Same, Kept
<1>7. RevisionDue' => RevisionDue
  BY <1>1, <1>2 DEF RevisionDue, Unestablished, Active, Same, Kept
<1>8. RevisionsInv'
  BY <1>1, <1>2, <1>7, NumbersAre DEF ProgressionInv, CountInv, RevisionsInv, Kept
<1> QED
  BY <1>3, <1>4, <1>5, <1>6, <1>8 DEF ProgressionInv, CountInv

LEMMA ResumeForRepairHolds ==
  ASSUME ProgressionInv, ResumeForRepair PROVE ProgressionInv'
<1>1. /\ coord = "ready" /\ op.do = "repair" /\ op.at = "journaled" /\ op' \in Ops /\ op'.do = "repair"
         /\ op'.at = "resumed" /\ agent' = "working" /\ journal' = FALSE
      /\ UNCHANGED <<packet, run, worker, tests, red, coord, turns, faults, cmds>>
  BY OpFields, OpsAre DEF ResumeForRepair, code, bounds
<1>2. /\ row' \in Rows /\ row'.status = row.status /\ row'.calls = row.calls + 1 /\ row'.resumes = row.resumes
      /\ row'.role = row.role /\ row'.revision = row.revision /\ row'.repair = row.repair
      /\ row'.session = row.session /\ row'.native = row.native /\ row'.voided = row.voided
         /\ row'.report = row.report
  BY TypesAre, ResumedSet DEF ResumeForRepair
<1>3. /\ runs' \in [repairs : Nat, revisions : Nat] /\ runs'.repairs = runs.repairs + 1
      /\ runs'.revisions = runs.revisions
  BY TypesAre, RunsIs DEF ResumeForRepair
<1>4. row.calls = 0 /\ row.resumes # 0 /\ row.repair /\ Active
  BY <1>1 DEF ProgressionInv, ShapeInv, RepairInv
<1>5. TypeOK'
  BY <1>1, <1>2, <1>3 DEF ProgressionInv, TypeOK
<1>6. ShapeInv'
  <2>1. InvocationInv'
    BY <1>1, <1>2, <1>3
       DEF ProgressionInv, ShapeInv, InvocationInv, OperationInv, RepairInv, Active, Same, Kept
  <2>2. OperationInv'
    BY <1>1, <1>2, <1>3
       DEF ProgressionInv, ShapeInv, InvocationInv, OperationInv, DeliveryInv, RepairInv, Active,
           Same, Kept
  <2>3. RepairInv'
    BY <1>1, <1>2, <1>3
       DEF ProgressionInv, ShapeInv, InvocationInv, OperationInv, DeliveryInv, RepairInv, Active,
           Same, Kept
  <2>4. DeliveryInv'
    BY <1>1, <1>2, <1>3
       DEF ProgressionInv, ShapeInv, InvocationInv, OperationInv, DeliveryInv, RepairInv, Active,
           Same, Kept
  <2>5. ObjectionInv'
    BY <1>1, <1>2, <1>3
       DEF ProgressionInv, ShapeInv, InvocationInv, OperationInv, ObjectionInv, Active, Same, Kept
  <2> QED
    BY <2>1, <2>2, <2>3, <2>4, <2>5 DEF ShapeInv
<1>7. ResumesInv' /\ AttemptsInv'
  BY <1>1, <1>2, <1>3, <1>4, NumbersAre
     DEF ProgressionInv, CountInv, ResumesInv, AttemptsInv, Same, Kept
<1>8. RepairsInv'
  BY <1>1, <1>2, <1>3, <1>4, NumbersAre
     DEF ProgressionInv, CountInv, RepairsInv, RepairDue, RepairOpen, Active, Same, Kept
<1>9. RevisionDue' => RevisionDue
  BY <1>1, <1>2, <1>3 DEF RevisionDue, Unestablished, Active, Same, Kept
<1>10. RevisionsInv'
  BY <1>1, <1>2, <1>3, <1>9, NumbersAre DEF ProgressionInv, CountInv, RevisionsInv, Kept
<1> QED
  BY <1>5, <1>6, <1>7, <1>8, <1>10 DEF ProgressionInv, CountInv

LEMMA CompleteAttemptHolds ==
  ASSUME ProgressionInv, CompleteAttempt PROVE ProgressionInv'
<1>1. /\ coord = "ready" /\ op.do = "repair" /\ op.at = "resumed" /\ op' \in Ops /\ op'.do = "idle"
      /\ UNCHANGED <<packet, row, journal, worker, agent, tests, red, coord, runs, turns, faults, cmds>>
  BY OpFields, OpsAre DEF CompleteAttempt, live, code, bounds
<1>2. /\ run' \in RunRows /\ run'.stage = run.stage /\ run'.status = run.status
      /\ run'.handoff = run.handoff /\ run'.protected = run.protected
      /\ run'.objection = run.objection /\ run'.tries = run.tries
      /\ run'.attempts = run.pending /\ run'.pending = 0
  BY TypesAre, CompletedSet DEF CompleteAttempt
<1>3. run.pending = run.attempts + 1 /\ run.attempts < packet.repairs
  BY <1>1, NumbersAre DEF ProgressionInv, ShapeInv, RepairInv, CountInv, AttemptsInv
<1>4. run.objection = ""
  BY <1>1 DEF ProgressionInv, ShapeInv, RepairInv, ObjectionInv
<1>5. TypeOK'
  BY <1>1, <1>2 DEF ProgressionInv, TypeOK
<1>6. ShapeInv'
  <2>1. InvocationInv'
    BY <1>1, <1>2, <1>4
       DEF ProgressionInv, ShapeInv, InvocationInv, OperationInv, RepairInv, Active, Same, Kept
  <2>2. OperationInv'
    BY <1>1, <1>2, <1>4
       DEF ProgressionInv, ShapeInv, InvocationInv, OperationInv, DeliveryInv, RepairInv, Active,
           Same, Kept
  <2>3. RepairInv'
    BY <1>1, <1>2, <1>4
       DEF ProgressionInv, ShapeInv, InvocationInv, OperationInv, DeliveryInv, RepairInv, Active,
           Same, Kept
  <2>4. DeliveryInv'
    BY <1>1, <1>2, <1>4
       DEF ProgressionInv, ShapeInv, InvocationInv, OperationInv, DeliveryInv, RepairInv, Active,
           Same, Kept
  <2>5. ObjectionInv'
    BY <1>1, <1>2, <1>4
       DEF ProgressionInv, ShapeInv, InvocationInv, OperationInv, ObjectionInv, Active, Same, Kept
  <2> QED
    BY <2>1, <2>2, <2>3, <2>4, <2>5 DEF ShapeInv
<1>7. ResumesInv' /\ AttemptsInv'
  BY <1>1, <1>2, <1>3, NumbersAre DEF ProgressionInv, CountInv, ResumesInv, AttemptsInv, Same, Kept
<1>8. RepairsInv'
  BY <1>1, <1>2, <1>3, NumbersAre
     DEF ProgressionInv, CountInv, RepairsInv, RepairDue, RepairOpen, Active, Same, Kept
<1>9. RevisionDue' => RevisionDue
  BY <1>1, <1>2, <1>4 DEF RevisionDue, Unestablished, Active, Same, Kept
<1>10. RevisionsInv'
  BY <1>1, <1>2, <1>9, NumbersAre DEF ProgressionInv, CountInv, RevisionsInv, Kept
<1> QED
  BY <1>5, <1>6, <1>7, <1>8, <1>10 DEF ProgressionInv, CountInv

LEMMA rollbackCheckRepairHolds ==
  ASSUME ProgressionInv, rollbackCheckRepair PROVE ProgressionInv'
<1>1. /\ coord = "ready" /\ op.do = "repair" /\ op.at \in {"saved", "worker", "reserved"}
      /\ op' \in Ops /\ op'.do = "idle" /\ worker' = FALSE /\ agent' = "none"
      /\ UNCHANGED <<packet, journal, tests, red, coord, runs, turns, cmds>>
  BY OpFields, OpsAre DEF rollbackCheckRepair, StopWorkers, code
<1>2. /\ run' \in RunRows /\ run'.stage = "check" /\ run'.status = "waiting_for_human"
      /\ run'.handoff = run.handoff /\ run'.protected = run.protected
      /\ run'.objection = run.objection /\ run'.tries = run.tries
      /\ run'.attempts = run.attempts /\ run'.pending = 0
  BY TypesAre, RolledBackSet DEF rollbackCheckRepair
<1>3. /\ row' \in Rows /\ row'.status = "cannot_proceed" /\ Same(row, row')
      /\ row'.session = row.session /\ row'.native = row.native /\ row'.voided = row.voided
         /\ row'.report = row.report
  BY TypesAre, RowStatusSet DEF rollbackCheckRepair, RowStatuses
<1>4. faults' = faults + 1 /\ faults' \in 0 .. MaxFaults
  BY FaultCounted DEF rollbackCheckRepair
<1>5. run.objection = ""
  BY <1>1 DEF ProgressionInv, ShapeInv, RepairInv, ObjectionInv
<1>6. TypeOK'
  BY <1>1, <1>2, <1>3, <1>4 DEF ProgressionInv, TypeOK
<1>7. ShapeInv'
  <2>1. InvocationInv'
    BY <1>1, <1>2, <1>3, <1>4, <1>5
       DEF ProgressionInv, ShapeInv, InvocationInv, OperationInv, RepairInv, Active, Same, Kept
  <2>2. OperationInv'
    BY <1>1, <1>2, <1>3, <1>4, <1>5
       DEF ProgressionInv, ShapeInv, InvocationInv, OperationInv, DeliveryInv, RepairInv, Active,
           Same, Kept
  <2>3. RepairInv'
    BY <1>1, <1>2, <1>3, <1>4, <1>5
       DEF ProgressionInv, ShapeInv, InvocationInv, OperationInv, DeliveryInv, RepairInv, Active,
           Same, Kept
  <2>4. DeliveryInv'
    BY <1>1, <1>2, <1>3, <1>4, <1>5
       DEF ProgressionInv, ShapeInv, InvocationInv, OperationInv, DeliveryInv, RepairInv, Active,
           Same, Kept
  <2>5. ObjectionInv'
    BY <1>1, <1>2, <1>3, <1>4, <1>5
       DEF ProgressionInv, ShapeInv, InvocationInv, OperationInv, ObjectionInv, Active, Same, Kept
  <2> QED
    BY <2>1, <2>2, <2>3, <2>4, <2>5 DEF ShapeInv
<1>8. ResumesInv' /\ AttemptsInv'
  BY <1>1, <1>2, <1>3, <1>4, NumbersAre
     DEF ProgressionInv, CountInv, ResumesInv, AttemptsInv, Same, Kept
<1>9. RepairsInv'
  BY <1>1, <1>2, <1>3, <1>4, NumbersAre
     DEF ProgressionInv, CountInv, RepairsInv, RepairDue, RepairOpen, Active, Same, Kept
<1>10. RevisionsInv'
  BY <1>1, <1>2, <1>3, <1>4, NumbersAre DEF ProgressionInv, CountInv, RevisionsInv, Kept
<1> QED
  BY <1>6, <1>7, <1>8, <1>9, <1>10 DEF ProgressionInv, CountInv

\* recovery.go: what a reserved resume stores.
LEMMA ReservedIs ==
  ASSUME ProgressionInv, NEW how \in {"automatic", "manual"}, ReserveResume(row, how)
  PROVE  /\ row' \in Rows /\ row'.status = row.status /\ row'.calls = row.calls
         /\ row'.resumes # 0 /\ (row.resumes = 0 => row'.resumes = 1)
         /\ row'.role = row.role /\ row'.revision = row.revision /\ row'.repair = row.repair
         /\ row'.native = row.native /\ row'.voided = row.voided /\ row'.report = row.report
         /\ worker' = TRUE /\ agent' = "none" /\ journal' = TRUE
         /\ op' \in Ops /\ op'.do = "resume" /\ op'.at = how
         /\ row'.session = row.session
<1>1. /\ row' = [row EXCEPT !.resumes = @ + 1, !.here = TRUE]
      /\ worker' = TRUE /\ agent' = "none" /\ journal' = TRUE /\ op' = Op("resume", how)
  BY DEF ReserveResume
<1>2. /\ row' \in Rows /\ row'.status = row.status /\ row'.resumes = row.resumes + 1 /\ row'.calls = row.calls
      /\ row'.role = row.role /\ row'.revision = row.revision /\ row'.repair = row.repair
      /\ row'.session = row.session /\ row'.native = row.native /\ row'.voided = row.voided
         /\ row'.report = row.report
  BY <1>1, TypesAre, ResumedSet
<1>3. op' \in Ops /\ op'.do = "resume" /\ op'.at = how
  BY <1>1, OpFields, OpsAre
<1>4. row'.resumes # 0 /\ (row.resumes = 0 => row'.resumes = 1)
  <2>1. row'.resumes = row.resumes + 1
    BY <1>2
  <2> QED
    BY <2>1, NumbersAre
<1> QED
  BY <1>1, <1>2, <1>3, <1>4

\* What the harness knows of the session's row.
LEMMA RecoveredIs ==
  ASSUME ProgressionInv
  PROVE  /\ Recovered \in Rows /\ Recovered.status = row.status /\ Same(row, Recovered)
         /\ Recovered.native = row.native /\ Recovered.voided = row.voided /\ Recovered.report = row.report
         /\ Recovered.session <=> (row.session \/ (Active /\ row.native))
<1>1. row \in Rows /\ row.session \in BOOLEAN
  BY TypesAre, RowIs
<1>2. PICK b \in BOOLEAN : b = (row.session \/ (Active /\ row.native))
  OBVIOUS
<1>3. Recovered = [row EXCEPT !.session = b]
  BY <1>2 DEF Recovered
<1>4. LET s == [row EXCEPT !.session = b]
      IN  /\ s \in Rows /\ s.status = row.status /\ Same(row, s)
          /\ s.session = b /\ s.native = row.native /\ s.voided = row.voided /\ s.report = row.report
  BY <1>1, SessionSet
<1> QED
  BY <1>2, <1>3, <1>4

LEMMA ReservedRecovered ==
  ASSUME ProgressionInv, ReserveResume(Recovered, "automatic")
  PROVE  /\ row' \in Rows /\ row'.status = row.status /\ row'.calls = row.calls
         /\ row'.resumes # 0 /\ (row.resumes = 0 => row'.resumes = 1)
         /\ row'.role = row.role /\ row'.revision = row.revision /\ row'.repair = row.repair
         /\ row'.native = row.native /\ row'.voided = row.voided /\ row'.report = row.report
         /\ worker' = TRUE /\ agent' = "none" /\ journal' = TRUE
         /\ op' \in Ops /\ op'.do = "resume" /\ op'.at = "automatic"
         /\ row'.session = Recovered.session
<1>0. /\ Recovered \in Rows /\ Recovered.status = row.status /\ Same(row, Recovered)
      /\ Recovered.native = row.native /\ Recovered.voided = row.voided /\ Recovered.report = row.report
  BY RecoveredIs
<1>1. /\ row' = [Recovered EXCEPT !.resumes = @ + 1, !.here = TRUE]
      /\ worker' = TRUE /\ agent' = "none" /\ journal' = TRUE /\ op' = Op("resume", "automatic")
  BY DEF ReserveResume
<1>2. /\ row' \in Rows /\ row'.status = Recovered.status /\ row'.resumes = Recovered.resumes + 1
      /\ row'.calls = Recovered.calls
      /\ row'.role = Recovered.role /\ row'.revision = Recovered.revision /\ row'.repair = Recovered.repair
      /\ row'.session = Recovered.session /\ row'.native = Recovered.native
      /\ row'.voided = Recovered.voided /\ row'.report = Recovered.report
  BY <1>0, <1>1, ResumedSet
<1>3. op' \in Ops /\ op'.do = "resume" /\ op'.at = "automatic"
  BY <1>1, OpFields, OpsAre
<1>4. row'.resumes # 0 /\ (row.resumes = 0 => row'.resumes = 1)
  <2>1. row'.resumes = row.resumes + 1
    BY <1>0, <1>2 DEF Same
  <2> QED
    BY <2>1, NumbersAre
<1> QED
  BY <1>0, <1>1, <1>2, <1>3, <1>4 DEF Same

\* recovery.go: an automatic resume is counted, pays a due repair and completes an
\* open attempt; a manual one only continues the session.
LEMMA ResumedIs ==
  ASSUME ProgressionInv, NativeResume
  PROVE  \/ /\ op.at = "manual" /\ row' = row /\ runs' = runs
            /\ run' \in RunRows /\ run'.stage = run.stage /\ run'.status = "active" /\ Kept(run, run')
         \/ /\ op.at = "automatic"
            /\ row' \in Rows /\ row'.status = row.status /\ row'.calls = 1 /\ row'.resumes = 1
            /\ row'.role = row.role /\ row'.revision = row.revision /\ row'.repair = row.repair
            /\ row'.session = row.session /\ row'.native = row.native /\ row'.voided = row.voided
            /\ row'.report = row.report
            /\ runs' \in [repairs : Nat, revisions : Nat] /\ runs'.revisions = runs.revisions
            /\ IF row.repair THEN runs'.repairs = runs.repairs + 1 ELSE runs'.repairs = runs.repairs
            /\ run' \in RunRows /\ run'.stage = run.stage /\ run'.status = "active"
            /\ run'.handoff = run.handoff /\ run'.protected = run.protected
            /\ run'.objection = run.objection /\ run'.tries = run.tries
            /\ \/ run'.attempts = run.attempts /\ run'.pending = run.pending
               \/ run.pending # 0 /\ run'.attempts = run.pending /\ run'.pending = 0
<1> DEFINE r == [run EXCEPT !.status = "active", !.why = ""]
<1>1. r \in RunRows /\ r.stage = run.stage /\ r.status = "active" /\ Kept(run, r)
  BY TypesAre, StatusSet DEF Statuses, Reasons
<1>2. op.at \in {"automatic", "manual"}
  BY TypesAre, OpIs DEF NativeResume
<1>3. run' = IF op.at = "automatic" /\ run.status = "active" /\ r.pending # 0
             THEN completedAttempt(r) ELSE r
  BY DEF NativeResume
<1> HIDE DEF r
<1>4. CASE op.at = "manual"
  <2>1. row' = row /\ runs' = runs
    BY <1>4 DEF NativeResume
  <2>2. run' = r
    BY <1>3, <1>4
  <2> QED
    BY <1>1, <1>4, <2>1, <2>2
<1>5. CASE op.at = "automatic"
  <2>0. row.resumes = 1 /\ row.calls = 0
    BY <1>5 DEF NativeResume, ProgressionInv, ShapeInv, OperationInv
  <2>1. row' = [row EXCEPT !.calls = @ + 1]
    BY <1>5 DEF NativeResume
  <2>2. /\ row' \in Rows /\ row'.status = row.status /\ row'.calls = row.calls + 1 /\ row'.resumes = row.resumes
        /\ row'.role = row.role /\ row'.revision = row.revision /\ row'.repair = row.repair
        /\ row'.session = row.session /\ row'.native = row.native /\ row'.voided = row.voided
        /\ row'.report = row.report
    BY <2>1, TypesAre, ResumedSet
  <2>8. row'.calls = 1 /\ row'.resumes = 1
    BY <2>0, <2>2
  <2>3. runs' = IF row.repair THEN [runs EXCEPT !.repairs = @ + 1] ELSE runs
    BY <1>5, <2>0 DEF NativeResume
  <2>4. /\ runs' \in [repairs : Nat, revisions : Nat] /\ runs'.revisions = runs.revisions
        /\ IF row.repair THEN runs'.repairs = runs.repairs + 1 ELSE runs'.repairs = runs.repairs
    BY <2>3, TypesAre, NumbersAre, RunsIs
  <2>5. /\ completedAttempt(r) \in RunRows /\ completedAttempt(r).stage = r.stage
        /\ completedAttempt(r).status = r.status
        /\ completedAttempt(r).handoff = r.handoff /\ completedAttempt(r).protected = r.protected
        /\ completedAttempt(r).objection = r.objection /\ completedAttempt(r).tries = r.tries
        /\ completedAttempt(r).attempts = r.pending /\ completedAttempt(r).pending = 0
    BY <1>1, CompletedSet
  <2>6. \/ run' = r
        \/ run' = completedAttempt(r) /\ r.pending # 0
    BY <1>3
  <2>7. /\ run' \in RunRows /\ run'.stage = run.stage /\ run'.status = "active"
        /\ run'.handoff = run.handoff /\ run'.protected = run.protected
        /\ run'.objection = run.objection /\ run'.tries = run.tries
        /\ \/ run'.attempts = run.attempts /\ run'.pending = run.pending
           \/ run.pending # 0 /\ run'.attempts = run.pending /\ run'.pending = 0
    BY <1>1, <2>5, <2>6 DEF Kept
  <2> QED
    BY <1>5, <2>2, <2>8, <2>4, <2>7
<1> QED
  BY <1>2, <1>4, <1>5

LEMMA CommandCounted ==
  ASSUME ProgressionInv, Commanded
  PROVE  coord = "ready" /\ op.do = "idle" /\ cmds' \in 0 .. MaxCommands /\ ~journal
<1>1. coord = "ready" /\ op.do = "idle"
  BY OpFields DEF Commanded
<1>2. cmds < MaxCommands /\ cmds' = cmds + 1 /\ cmds \in Nat /\ MaxCommands \in Nat
  BY TypesAre, BoundsAre DEF Commanded
<1>3. ~journal
  BY <1>1 DEF ProgressionInv, ShapeInv, OperationInv
<1> QED
  BY <1>1, <1>2, <1>3

LEMMA NativeResumeHolds ==
  ASSUME ProgressionInv, NativeResume PROVE ProgressionInv'
<1>1. /\ coord = "ready" /\ op.do = "resume" /\ op' \in Ops /\ op'.do = "idle" /\ journal' = FALSE
      /\ agent' = (IF row.report = "none" THEN "working" ELSE "none")
      /\ UNCHANGED <<packet, worker, tests, red, coord, turns, faults, cmds>>
  BY OpFields, OpsAre DEF NativeResume, code, bounds
<1>2. \/ /\ op.at = "manual" /\ row' = row /\ runs' = runs
         /\ run' \in RunRows /\ run'.stage = run.stage /\ run'.status = "active" /\ Kept(run, run')
      \/ /\ op.at = "automatic"
         /\ row' \in Rows /\ row'.status = row.status /\ row'.calls = 1 /\ row'.resumes = 1
         /\ row'.role = row.role /\ row'.revision = row.revision /\ row'.repair = row.repair
         /\ row'.session = row.session /\ row'.native = row.native /\ row'.voided = row.voided
         /\ row'.report = row.report
         /\ runs' \in [repairs : Nat, revisions : Nat] /\ runs'.revisions = runs.revisions
         /\ IF row.repair THEN runs'.repairs = runs.repairs + 1 ELSE runs'.repairs = runs.repairs
         /\ run' \in RunRows /\ run'.stage = run.stage /\ run'.status = "active"
         /\ run'.handoff = run.handoff /\ run'.protected = run.protected
         /\ run'.objection = run.objection /\ run'.tries = run.tries
         /\ \/ run'.attempts = run.attempts /\ run'.pending = run.pending
            \/ run.pending # 0 /\ run'.attempts = run.pending /\ run'.pending = 0
  BY ResumedIs
<1>3. /\ Active /\ row.session /\ agent = "none"
      /\ op.at = "automatic" => row.resumes = 1 /\ row.calls = 0
  BY <1>1 DEF ProgressionInv, ShapeInv, OperationInv
<1>4. row' = row \/ (row'.resumes = 1 /\ row'.calls = 1)
  BY <1>2, <1>3
<1>5. \/ run'.attempts = run.attempts /\ run'.pending = run.pending
      \/ run.pending # 0 /\ run'.attempts = run.pending /\ run'.pending = 0
  BY <1>2 DEF Kept
<1>6. run.pending # 0 => run.pending = run.attempts + 1 /\ run.attempts < packet.repairs
  BY DEF ProgressionInv, CountInv, AttemptsInv
<1>7. (RepairOpen' <=> run'.pending # 0) /\ (RepairOpen <=> run.pending # 0) /\ faults' = faults
  BY <1>1 DEF RepairOpen
<1>8. row.repair /\ op.at = "automatic" => ~RepairDue' /\ RepairDue /\ runs'.repairs = runs.repairs + 1
  BY <1>1, <1>2, <1>3 DEF RepairDue, Active
<1>9. ~row.repair \/ op.at = "manual" => (RepairDue' => RepairDue) /\ runs'.repairs = runs.repairs
  BY <1>1, <1>2, <1>3 DEF RepairDue, Active
<1>10. op.at \in {"automatic", "manual"} /\ row.repair \in BOOLEAN
  BY <1>1, TypesAre, OpIs, RowIs
<1>11. packet' = packet
  BY <1>1
<1>12. TypeOK'
  BY <1>1, <1>2 DEF ProgressionInv, TypeOK
<1>13. ShapeInv'
  <2>1. InvocationInv'
    BY <1>1, <1>2, <1>3
       DEF ProgressionInv, ShapeInv, InvocationInv, OperationInv, RepairInv, Active, Same, Kept
  <2>2. OperationInv'
    BY <1>1, <1>2, <1>3
       DEF ProgressionInv, ShapeInv, InvocationInv, OperationInv, DeliveryInv, RepairInv, Active,
           Same, Kept
  <2>3. RepairInv'
    BY <1>1, <1>2, <1>3
       DEF ProgressionInv, ShapeInv, InvocationInv, OperationInv, DeliveryInv, RepairInv, Active,
           Same, Kept
  <2>4. DeliveryInv'
    BY <1>1, <1>2, <1>3
       DEF ProgressionInv, ShapeInv, InvocationInv, OperationInv, DeliveryInv, RepairInv, Active,
           Same, Kept
  <2>5. ObjectionInv'
    BY <1>1, <1>2, <1>3
       DEF ProgressionInv, ShapeInv, InvocationInv, OperationInv, ObjectionInv, Active, Same, Kept
  <2> QED
    BY <2>1, <2>2, <2>3, <2>4, <2>5 DEF ShapeInv
<1>14. ResumesInv' /\ AttemptsInv'
  BY <1>1, <1>4, <1>5, <1>6, <1>11, NumbersAre
     DEF ProgressionInv, CountInv, ResumesInv, AttemptsInv, Same, Kept
<1>15. RepairsInv'
  BY <1>1, <1>5, <1>6, <1>7, <1>8, <1>9, <1>10, NumbersAre DEF ProgressionInv, CountInv, RepairsInv
<1>16. ~RevisionDue'
  BY <1>1, <1>2, <1>3 DEF RevisionDue, Unestablished, Active, Same, Kept
<1>17. RevisionsInv'
  BY <1>1, <1>2, <1>3, <1>16, NumbersAre DEF ProgressionInv, CountInv, RevisionsInv, Kept
<1> QED
  BY <1>12, <1>13, <1>14, <1>15, <1>17 DEF ProgressionInv, CountInv

LEMMA RefusedResumeHolds ==
  ASSUME ProgressionInv, RefusedResume PROVE ProgressionInv'
<1>1. /\ coord = "ready" /\ op.do = "resume" /\ op' \in Ops /\ op'.do = "idle" /\ journal' = FALSE
      /\ worker' = FALSE /\ agent' = "none"
      /\ UNCHANGED <<packet, row, tests, red, coord, runs, turns, cmds>>
  BY OpFields, OpsAre DEF RefusedResume, StopWorkers, code
<1>2. /\ run' \in RunRows /\ run'.stage = run.stage /\ Kept(run, run')
         /\ run'.status \in {"waiting_for_human", "waiting_for_harness"}
  BY ParkedIs DEF RefusedResume
<1>3. faults' = faults + 1 /\ faults' \in 0 .. MaxFaults
  BY FaultCounted DEF RefusedResume
<1>4. Active /\ row.session
  BY <1>1 DEF ProgressionInv, ShapeInv, OperationInv
<1>5. TypeOK'
  BY <1>1, <1>2, <1>3, <1>4 DEF ProgressionInv, TypeOK
<1>6. ShapeInv'
  <2>1. InvocationInv'
    BY <1>1, <1>2, <1>3, <1>4
       DEF ProgressionInv, ShapeInv, InvocationInv, OperationInv, RepairInv, Active, Same, Kept
  <2>2. OperationInv'
    BY <1>1, <1>2, <1>3, <1>4
       DEF ProgressionInv, ShapeInv, InvocationInv, OperationInv, DeliveryInv, RepairInv, Active,
           Same, Kept
  <2>3. RepairInv'
    BY <1>1, <1>2, <1>3, <1>4
       DEF ProgressionInv, ShapeInv, InvocationInv, OperationInv, DeliveryInv, RepairInv, Active,
           Same, Kept
  <2>4. DeliveryInv'
    BY <1>1, <1>2, <1>3, <1>4
       DEF ProgressionInv, ShapeInv, InvocationInv, OperationInv, DeliveryInv, RepairInv, Active,
           Same, Kept
  <2>5. ObjectionInv'
    BY <1>1, <1>2, <1>3, <1>4
       DEF ProgressionInv, ShapeInv, InvocationInv, OperationInv, ObjectionInv, Active, Same, Kept
  <2> QED
    BY <2>1, <2>2, <2>3, <2>4, <2>5 DEF ShapeInv
<1>7. ResumesInv' /\ AttemptsInv'
  BY <1>1, <1>2, <1>3, <1>4, NumbersAre
     DEF ProgressionInv, CountInv, ResumesInv, AttemptsInv, Same, Kept
<1>8. RepairsInv'
  BY <1>1, <1>2, <1>3, <1>4, NumbersAre
     DEF ProgressionInv, CountInv, RepairsInv, RepairDue, RepairOpen, Active, Same, Kept
<1>9. RevisionsInv'
  BY <1>1, <1>2, <1>3, <1>4, NumbersAre DEF ProgressionInv, CountInv, RevisionsInv, Kept
<1> QED
  BY <1>5, <1>6, <1>7, <1>8, <1>9 DEF ProgressionInv, CountInv

LEMMA reconcileActiveHarnessLivenessHolds ==
  ASSUME ProgressionInv, reconcileActiveHarnessLiveness PROVE ProgressionInv'
<1>1. /\ coord = "ready" /\ op.do = "idle" /\ Active /\ row.session
      /\ UNCHANGED <<packet, tests, red, coord, runs, turns, faults, cmds>>
  BY OpFields DEF reconcileActiveHarnessLiveness, Driving, code, bounds
<1>2. \/ /\ run' \in RunRows /\ run'.stage = run.stage /\ Kept(run, run')
            /\ run'.status \in {"waiting_for_human", "waiting_for_harness"}
         /\ worker' = FALSE /\ agent' = "none" /\ UNCHANGED <<row, journal, op>>
      \/ /\ row' \in Rows /\ row'.status = row.status /\ row'.calls = row.calls
         /\ row'.resumes # 0 /\ (row.resumes = 0 => row'.resumes = 1)
         /\ row'.role = row.role /\ row'.revision = row.revision /\ row'.repair = row.repair
         /\ row'.native = row.native /\ row'.voided = row.voided /\ row'.report = row.report
         /\ worker' = TRUE /\ agent' = "none" /\ journal' = TRUE
         /\ op' \in Ops /\ op'.do = "resume" /\ op'.at = "automatic"
         /\ row'.session = row.session /\ row.resumes = 0 /\ Active /\ row.session
         /\ run' = run
  BY <1>1, ParkedIs, ReservedIs DEF reconcileActiveHarnessLiveness, StopWorkers
<1>3. row.resumes = 0 => row.calls = 0
  BY DEF ProgressionInv, CountInv, ResumesInv
<1>4. /\ op'.do = "resume" => row'.resumes = 1 /\ row'.calls = 0
      /\ row'.calls = 0 \/ row' = row
      /\ run'.attempts = run.attempts /\ run'.pending = run.pending
  BY <1>1, <1>2, <1>3 DEF Kept
<1>5. journal = FALSE /\ run'.stage = run.stage /\ coord' = "ready"
  BY <1>1, <1>2 DEF ProgressionInv, TypeOK, ShapeInv, OperationInv
<1>6. \/ op'.do = "idle" /\ journal' = FALSE
      \/ /\ op'.do = "resume" /\ op'.at = "automatic" /\ row'.status = "active" /\ row'.session
         /\ agent' = "none" /\ row'.resumes = 1 /\ row'.calls = 0 /\ run' = run
  BY <1>1, <1>2, <1>4, <1>5 DEF Active
<1>7. TypeOK'
  BY <1>1, <1>2 DEF ProgressionInv, TypeOK
<1>8. ShapeInv'
  <2>1. InvocationInv'
    BY <1>1, <1>2, <1>4
       DEF ProgressionInv, ShapeInv, InvocationInv, OperationInv, RepairInv, Active, Same, Kept
  <2>2. OperationInv'
    BY <1>5, <1>6
       DEF ProgressionInv, ShapeInv, InvocationInv, OperationInv, DeliveryInv, RepairInv, Active,
           Same, Kept
  <2>3. RepairInv'
    BY <1>1, <1>2, <1>4
       DEF ProgressionInv, ShapeInv, InvocationInv, OperationInv, DeliveryInv, RepairInv, Active,
           Same, Kept
  <2>4. DeliveryInv'
    BY <1>1, <1>2, <1>4
       DEF ProgressionInv, ShapeInv, InvocationInv, OperationInv, DeliveryInv, RepairInv, Active,
           Same, Kept
  <2>5. ObjectionInv'
    BY <1>1, <1>2, <1>4
       DEF ProgressionInv, ShapeInv, InvocationInv, OperationInv, ObjectionInv, Active, Same, Kept
  <2> QED
    BY <2>1, <2>2, <2>3, <2>4, <2>5 DEF ShapeInv
<1>9. ResumesInv' /\ AttemptsInv'
  BY <1>1, <1>4, NumbersAre DEF ProgressionInv, CountInv, ResumesInv, AttemptsInv, Same, Kept
<1>10. RepairsInv'
  BY <1>1, <1>2, NumbersAre
     DEF ProgressionInv, CountInv, RepairsInv, RepairDue, RepairOpen, Active, Same, Kept
<1>11. RevisionDue' => RevisionDue
  BY <1>1, <1>2 DEF RevisionDue, Unestablished, Active, Same, Kept
<1>12. RevisionsInv'
  BY <1>1, <1>2, <1>11, NumbersAre DEF ProgressionInv, CountInv, RevisionsInv, Kept
<1> QED
  BY <1>7, <1>8, <1>9, <1>10, <1>12 DEF ProgressionInv, CountInv

LEMMA retryWaitingForHarnessHolds ==
  ASSUME ProgressionInv, retryWaitingForHarness PROVE ProgressionInv'
<1>1. /\ coord = "ready" /\ op.do = "idle" /\ run.status = "waiting_for_harness"
      /\ UNCHANGED <<packet, tests, red, coord, runs, turns, faults, cmds>>
  BY OpFields DEF retryWaitingForHarness, code, bounds
<1>2. \/ /\ run' \in RunRows /\ run'.stage = run.stage /\ Kept(run, run')
            /\ run'.status \in {"waiting_for_human", "waiting_for_harness"}
         /\ worker' = FALSE /\ agent' = "none" /\ UNCHANGED <<row, journal, op>> /\ Active /\ row.session
      \/ /\ row' \in Rows /\ row'.status = row.status /\ row'.calls = row.calls
         /\ row'.resumes # 0 /\ (row.resumes = 0 => row'.resumes = 1)
         /\ row'.role = row.role /\ row'.revision = row.revision /\ row'.repair = row.repair
         /\ row'.native = row.native /\ row'.voided = row.voided /\ row'.report = row.report
         /\ worker' = TRUE /\ agent' = "none" /\ journal' = TRUE
         /\ op' \in Ops /\ op'.do = "resume" /\ op'.at = "automatic"
         /\ row'.session = row.session /\ row.resumes = 0 /\ Active /\ row.session
         /\ run' = run
      \/ /\ row' \in Rows /\ row'.role = run.stage /\ row'.status = "active"
         /\ ~row'.session /\ ~row'.native /\ ~row'.voided /\ ~row'.repair
         /\ row'.resumes = 0 /\ row'.calls = 0 /\ row'.report = "none"
         /\ row'.revision <=> (run.stage = "test" /\ run.objection # "")
         /\ op' \in Ops /\ op'.do = "launch" /\ op'.at = "saved"
         /\ run' = run /\ ~Active /\ run.stage \in Roles
         /\ UNCHANGED <<worker, agent, journal>>
  BY ParkedIs, ReservedIs, SavedIs
     DEF retryWaitingForHarness, StopWorkers, PlanLaunch, PlanLaunchAfter, TestRevision, live
<1>3. row.resumes = 0 => row.calls = 0
  BY DEF ProgressionInv, CountInv, ResumesInv
<1>4. /\ op'.do = "resume" => row'.resumes = 1 /\ row'.calls = 0
      /\ row'.calls = 0 \/ row' = row
      /\ run'.attempts = run.attempts /\ run'.pending = run.pending
  BY <1>1, <1>2, <1>3 DEF Kept
<1>5. Active \/ agent = "none"
  BY DEF ProgressionInv, TypeOK, ShapeInv, InvocationInv
<1>6. journal = FALSE /\ run'.stage = run.stage /\ coord' = "ready"
  BY <1>1, <1>2 DEF ProgressionInv, TypeOK, ShapeInv, OperationInv
<1>7. \/ op'.do = "idle" /\ journal' = FALSE
      \/ /\ op'.do = "resume" /\ op'.at = "automatic" /\ row'.status = "active" /\ row'.session
         /\ agent' = "none" /\ row'.resumes = 1 /\ row'.calls = 0
      \/ /\ op'.do = "launch" /\ op'.at = "saved" /\ row'.status = "active" /\ row'.role = run'.stage
         /\ agent' = "none" /\ row'.report = "none" /\ journal' = FALSE
  BY <1>1, <1>2, <1>4, <1>5, <1>6 DEF Active
<1>8. TypeOK'
  BY <1>1, <1>2 DEF ProgressionInv, TypeOK
<1>9. ShapeInv'
  <2>1. InvocationInv'
    BY <1>1, <1>2, <1>4, <1>5
       DEF ProgressionInv, ShapeInv, InvocationInv, OperationInv, RepairInv, Active, Same, Kept,
           Roles
  <2>2. OperationInv'
    BY <1>6, <1>7
       DEF ProgressionInv, ShapeInv, InvocationInv, OperationInv, DeliveryInv, RepairInv, Active,
           Same, Kept, Roles
  <2>3. RepairInv'
    BY <1>1, <1>2, <1>4, <1>5
       DEF ProgressionInv, ShapeInv, InvocationInv, OperationInv, DeliveryInv, RepairInv, Active,
           Same, Kept, Roles
  <2>4. DeliveryInv'
    BY <1>1, <1>2, <1>4, <1>5
       DEF ProgressionInv, ShapeInv, InvocationInv, OperationInv, DeliveryInv, RepairInv, Active,
           Same, Kept, Roles
  <2>5. ObjectionInv'
    BY <1>1, <1>2, <1>4, <1>5
       DEF ProgressionInv, ShapeInv, InvocationInv, OperationInv, ObjectionInv, Active, Same, Kept,
           Roles
  <2> QED
    BY <2>1, <2>2, <2>3, <2>4, <2>5 DEF ShapeInv
<1>10. ResumesInv' /\ AttemptsInv'
  BY <1>1, <1>4, NumbersAre DEF ProgressionInv, CountInv, ResumesInv, AttemptsInv, Same, Kept
<1>11. RepairsInv'
  BY <1>1, <1>2, NumbersAre
     DEF ProgressionInv, CountInv, RepairsInv, RepairDue, RepairOpen, Active, Same, Kept
<1>12. RevisionDue' => RevisionDue
  BY <1>1, <1>2 DEF RevisionDue, Unestablished, Active, Same, Kept
<1>13. RevisionsInv'
  BY <1>1, <1>2, <1>12, NumbersAre DEF ProgressionInv, CountInv, RevisionsInv, Kept
<1> QED
  BY <1>8, <1>9, <1>10, <1>11, <1>13 DEF ProgressionInv, CountInv

\* recovery.go: what a startup without a reserved resume leaves.
SessionKnown ==
  /\ row' \in Rows /\ row'.status = row.status /\ Same(row, row')
  /\ row'.native = row.native /\ row'.voided = row.voided /\ row'.report = row.report
  /\ row'.session <=> (row.session \/ (Active /\ row.native))

RunSettled ==
  /\ run' \in RunRows /\ run'.stage = run.stage
  /\ run'.handoff = run.handoff /\ run'.protected = run.protected
  /\ run'.objection = run.objection /\ run'.tries = run.tries
  /\ \/ run'.attempts = run.attempts /\ run'.pending = run.pending
     \/ /\ run'.attempts = run.pending /\ run'.pending = 0
        /\ run.pending # 0 /\ row.resumes # 0
  /\ run'.status \in {run.status, "waiting_for_human"}

WorkersSettled == agent' \in {agent, "none"} /\ worker' \in BOOLEAN /\ journal' = FALSE /\ op' = op

SessionContinued ==
  /\ row' \in Rows /\ row'.status = row.status /\ row'.calls = row.calls
  /\ row'.resumes # 0 /\ (row.resumes = 0 => row'.resumes = 1)
  /\ row'.role = row.role /\ row'.revision = row.revision /\ row'.repair = row.repair
  /\ row'.native = row.native /\ row'.voided = row.voided /\ row'.report = row.report
  /\ worker' = TRUE /\ agent' = "none" /\ journal' = TRUE
  /\ op' \in Ops /\ op'.do = "resume" /\ op'.at = "automatic" /\ row'.session
  /\ run' = run /\ Active /\ row.resumes = 0 /\ run.status = "active"

LEMMA ReconciledIs ==
  ASSUME ProgressionInv, Reconcile
  PROVE  \/ /\ SessionKnown /\ RunSettled /\ WorkersSettled
            /\ run'.status = "active" /\ Active => row'.session
         \/ SessionContinued
<1>1. /\ journal = FALSE /\ worker \in BOOLEAN /\ agent \in {"none", "working"}
      /\ run \in RunRows
  BY DEF Reconcile, ProgressionInv, TypeOK
<1>2. /\ Recovered \in Rows /\ Recovered.status = row.status /\ Same(row, Recovered)
      /\ Recovered.native = row.native /\ Recovered.voided = row.voided /\ Recovered.report = row.report
      /\ Recovered.session <=> (row.session \/ (Active /\ row.native))
  BY RecoveredIs
<1>3. Active => row.role # "none"
  BY DEF ProgressionInv, ShapeInv, InvocationInv, Roles
<1>4. Active /\ ~Discrepancy(Recovered) => Recovered.session
  BY <1>2, <1>3 DEF Discrepancy, NeverEstablished, Active, Same
<1>5. \/ /\ run.status = "waiting_for_harness" \/ Terminal(run.status)
         /\ row' = Recovered /\ UNCHANGED <<run, live, journal, op>>
      \/ /\ row' = Recovered /\ PauseForRecovery /\ UNCHANGED <<journal, op>>
      \/ /\ ~Discrepancy(Recovered) /\ run.status = "active" /\ Active /\ row.resumes = 0
         /\ ReserveResume(Recovered, "automatic") /\ UNCHANGED run
      \/ /\ row' = Recovered /\ Park("waiting_for_human", "resumable") /\ StopWorkers
         /\ UNCHANGED <<journal, op>>
      \/ /\ ~Discrepancy(Recovered)
         /\ run' = IF run.pending # 0 /\ row.resumes > 0 THEN completedAttempt(run) ELSE run
         /\ row' = Recovered /\ UNCHANGED <<live, journal, op>>
  BY DEF Reconcile
<1>6. row' = Recovered => SessionKnown
  BY <1>2 DEF SessionKnown
<1>7. CASE /\ run.status = "waiting_for_harness" \/ Terminal(run.status)
           /\ row' = Recovered /\ UNCHANGED <<run, live, journal, op>>
  <2>1. run.status # "active" /\ run' = run
    BY <1>7 DEF Terminal
  <2>2. RunSettled
    BY <1>1, <2>1 DEF RunSettled
  <2>3. WorkersSettled
    BY <1>1, <1>7 DEF WorkersSettled, live
  <2> QED
    BY <1>6, <1>7, <2>1, <2>2, <2>3
<1>8. CASE /\ row' = Recovered /\ UNCHANGED <<journal, op>>
           /\ PauseForRecovery \/ (Park("waiting_for_human", "resumable") /\ StopWorkers)
  <2>1. run' \in RunRows /\ run'.stage = run.stage /\ run'.status = "waiting_for_human" /\ Kept(run, run')
    <3>1. CASE PauseForRecovery
      BY <1>1, <3>1, StatusSet DEF PauseForRecovery, Statuses, Reasons
    <3>2. CASE Park("waiting_for_human", "resumable")
      BY <3>2, ParkedIs
    <3> QED
      BY <1>8, <3>1, <3>2
  <2>2. worker' = FALSE /\ agent' = "none"
    BY <1>8 DEF PauseForRecovery, StopWorkers
  <2>3. RunSettled
    BY <2>1 DEF RunSettled, Kept
  <2>4. WorkersSettled
    BY <1>1, <1>8, <2>2 DEF WorkersSettled
  <2> QED
    BY <1>6, <1>8, <2>1, <2>3, <2>4
<1>9. CASE /\ ~Discrepancy(Recovered) /\ run.status = "active" /\ Active /\ row.resumes = 0
           /\ ReserveResume(Recovered, "automatic") /\ UNCHANGED run
  <2>1. /\ row' \in Rows /\ row'.status = row.status /\ row'.calls = row.calls
        /\ row'.resumes # 0 /\ (row.resumes = 0 => row'.resumes = 1)
        /\ row'.role = row.role /\ row'.revision = row.revision /\ row'.repair = row.repair
        /\ row'.native = row.native /\ row'.voided = row.voided /\ row'.report = row.report
        /\ worker' = TRUE /\ agent' = "none" /\ journal' = TRUE
        /\ op' \in Ops /\ op'.do = "resume" /\ op'.at = "automatic"
        /\ row'.session = Recovered.session
    BY <1>9, ReservedRecovered
  <2>2. row'.session
    BY <1>4, <1>9, <2>1
  <2> QED
    BY <1>9, <2>1, <2>2 DEF SessionContinued
<1>10. CASE /\ ~Discrepancy(Recovered)
            /\ run' = IF run.pending # 0 /\ row.resumes > 0 THEN completedAttempt(run) ELSE run
            /\ row' = Recovered /\ UNCHANGED <<live, journal, op>>
  <2>1. row.resumes > 0 => row.resumes # 0
    BY NumbersAre
  <2>2. /\ run' \in RunRows /\ run'.stage = run.stage /\ run'.status = run.status
        /\ run'.handoff = run.handoff /\ run'.protected = run.protected
        /\ run'.objection = run.objection /\ run'.tries = run.tries
        /\ \/ run'.attempts = run.attempts /\ run'.pending = run.pending
           \/ /\ run'.attempts = run.pending /\ run'.pending = 0
              /\ run.pending # 0 /\ row.resumes # 0
    BY <1>1, <1>10, <2>1, CompletedSet
  <2>3. Active => row'.session
    BY <1>4, <1>10
  <2>4. RunSettled
    BY <2>2 DEF RunSettled
  <2>5. WorkersSettled
    BY <1>1, <1>10 DEF WorkersSettled, live
  <2> QED
    BY <1>6, <1>10, <2>3, <2>4, <2>5
<1> QED
  BY <1>5, <1>7, <1>8, <1>9, <1>10

LEMMA CrashHolds ==
  ASSUME ProgressionInv, Crash PROVE ProgressionInv'
<1>1. /\ coord' = "down" /\ op' \in Ops /\ op'.do = "idle"
      /\ UNCHANGED <<packet, run, journal, tests, red, runs, turns, cmds>>
  BY OpFields, OpsAre DEF Crash, code
<1>2. /\ row' \in Rows /\ row'.status = row.status /\ Same(row, row')
      /\ row'.session = row.session /\ row'.native = row.native /\ row'.voided = row.voided
         /\ row'.report = row.report
  BY TypesAre, HereSet DEF Crash
<1>3. faults' = faults + 1 /\ faults' \in 0 .. MaxFaults
  BY FaultCounted DEF Crash
<1>4. op = Idle \/ op.do # "idle"
  BY TypesAre, OpIs
<1>5. journal /\ op # Idle => Active /\ row.session
  BY <1>4 DEF ProgressionInv, ShapeInv, OperationInv, RepairInv
<1>6. \/ worker' = worker /\ agent' = agent
      \/ worker' = FALSE /\ agent' = "none"
      \/ /\ worker' = worker /\ agent' = (IF row.report = "none" THEN "working" ELSE "none")
         /\ Active /\ row.session
  BY <1>5 DEF Crash, StopWorkers, live
<1>7. TypeOK'
  BY <1>1, <1>2, <1>3, <1>6 DEF ProgressionInv, TypeOK
<1>8. ShapeInv'
  <2>1. InvocationInv'
    BY <1>1, <1>2, <1>3, <1>6
       DEF ProgressionInv, ShapeInv, InvocationInv, OperationInv, RepairInv, Active, Same, Kept
  <2>2. OperationInv'
    BY <1>1, <1>2, <1>3, <1>6
       DEF ProgressionInv, ShapeInv, InvocationInv, OperationInv, DeliveryInv, RepairInv, Active,
           Same, Kept
  <2>3. RepairInv'
    BY <1>1, <1>2, <1>3, <1>6
       DEF ProgressionInv, ShapeInv, InvocationInv, OperationInv, DeliveryInv, RepairInv, Active,
           Same, Kept
  <2>4. DeliveryInv'
    BY <1>1, <1>2, <1>3, <1>6
       DEF ProgressionInv, ShapeInv, InvocationInv, OperationInv, DeliveryInv, RepairInv, Active,
           Same, Kept
  <2>5. ObjectionInv'
    BY <1>1, <1>2, <1>3, <1>6
       DEF ProgressionInv, ShapeInv, InvocationInv, OperationInv, ObjectionInv, Active, Same, Kept
  <2> QED
    BY <2>1, <2>2, <2>3, <2>4, <2>5 DEF ShapeInv
<1>9. ResumesInv' /\ AttemptsInv'
  BY <1>1, <1>2, <1>3, <1>6, NumbersAre
     DEF ProgressionInv, CountInv, ResumesInv, AttemptsInv, Same, Kept
<1>10. RepairsInv'
  BY <1>1, <1>2, <1>3, <1>6, NumbersAre
     DEF ProgressionInv, CountInv, RepairsInv, RepairDue, RepairOpen, Active, Same, Kept
<1>11. RevisionsInv'
  BY <1>1, <1>2, <1>3, <1>6, NumbersAre DEF ProgressionInv, CountInv, RevisionsInv, Kept
<1> QED
  BY <1>7, <1>8, <1>9, <1>10, <1>11 DEF ProgressionInv, CountInv

LEMMA RestartHolds ==
  ASSUME ProgressionInv, Restart PROVE ProgressionInv'
<1>1. /\ coord = "down" /\ coord' = "starting"
      /\ UNCHANGED <<packet, run, row, journal, worker, agent, tests, red, op, runs, turns, faults, cmds>>
  BY DEF Restart, live, code, bounds
<1>2. TypeOK'
  BY <1>1 DEF ProgressionInv, TypeOK
<1>3. ShapeInv'
  BY <1>1
     DEF ProgressionInv, ShapeInv, InvocationInv, OperationInv, RepairInv, DeliveryInv,
         ObjectionInv, Active, Same, Kept
<1>4. ResumesInv' /\ AttemptsInv'
  BY <1>1, NumbersAre DEF ProgressionInv, CountInv, ResumesInv, AttemptsInv, Same, Kept
<1>5. RepairsInv'
  BY <1>1, NumbersAre
     DEF ProgressionInv, CountInv, RepairsInv, RepairDue, RepairOpen, Active, Same, Kept
<1>6. RevisionDue' => RevisionDue
  BY <1>1 DEF RevisionDue, Unestablished, Active, Same, Kept
<1>7. RevisionsInv'
  BY <1>1, <1>6, NumbersAre DEF ProgressionInv, CountInv, RevisionsInv, Kept
<1> QED
  BY <1>2, <1>3, <1>4, <1>5, <1>7 DEF ProgressionInv, CountInv

LEMMA ReplayReservedResumeHolds ==
  ASSUME ProgressionInv, ReplayReservedResume PROVE ProgressionInv'
<1>1. /\ coord = "starting" /\ coord' = "ready" /\ journal' = FALSE /\ worker' = FALSE /\ agent' = "none"
      /\ UNCHANGED <<packet, tests, red, op, runs, turns, faults, cmds>>
  BY DEF ReplayReservedResume, Starting, PauseForRecovery, StopWorkers, code, bounds
<1>2. /\ row' \in Rows /\ row'.status = row.status /\ Same(row, row')
      /\ row'.native = row.native /\ row'.voided = row.voided /\ row'.report = row.report
      /\ row'.session <=> (row.session \/ (Active /\ row.native))
  BY RecoveredIs DEF ReplayReservedResume
<1>3. run' \in RunRows /\ run'.stage = run.stage /\ run'.status = "waiting_for_human" /\ Kept(run, run')
  BY TypesAre, StatusSet DEF ReplayReservedResume, PauseForRecovery, Statuses, Reasons
<1>4. op.do = "idle"
  BY <1>1 DEF ProgressionInv, ShapeInv, OperationInv
<1>5. TypeOK'
  BY <1>1, <1>2, <1>3, <1>4 DEF ProgressionInv, TypeOK
<1>6. ShapeInv'
  <2>1. InvocationInv'
    BY <1>1, <1>2, <1>3, <1>4
       DEF ProgressionInv, ShapeInv, InvocationInv, OperationInv, RepairInv, Active, Same, Kept
  <2>2. OperationInv'
    BY <1>1, <1>2, <1>3, <1>4
       DEF ProgressionInv, ShapeInv, InvocationInv, OperationInv, DeliveryInv, RepairInv, Active,
           Same, Kept
  <2>3. RepairInv'
    BY <1>1, <1>2, <1>3, <1>4
       DEF ProgressionInv, ShapeInv, InvocationInv, OperationInv, DeliveryInv, RepairInv, Active,
           Same, Kept
  <2>4. DeliveryInv'
    BY <1>1, <1>2, <1>3, <1>4
       DEF ProgressionInv, ShapeInv, InvocationInv, OperationInv, DeliveryInv, RepairInv, Active,
           Same, Kept
  <2>5. ObjectionInv'
    BY <1>1, <1>2, <1>3, <1>4
       DEF ProgressionInv, ShapeInv, InvocationInv, OperationInv, ObjectionInv, Active, Same, Kept
  <2> QED
    BY <2>1, <2>2, <2>3, <2>4, <2>5 DEF ShapeInv
<1>7. ResumesInv' /\ AttemptsInv'
  BY <1>1, <1>2, <1>3, <1>4, NumbersAre
     DEF ProgressionInv, CountInv, ResumesInv, AttemptsInv, Same, Kept
<1>8. RepairsInv'
  BY <1>1, <1>2, <1>3, <1>4, NumbersAre
     DEF ProgressionInv, CountInv, RepairsInv, RepairDue, RepairOpen, Active, Same, Kept
<1>9. RevisionDue' => RevisionDue
  BY <1>1, <1>2, <1>3, <1>4 DEF RevisionDue, Unestablished, Active, Same, Kept
<1>10. RevisionsInv'
  BY <1>1, <1>2, <1>3, <1>4, <1>9, NumbersAre DEF ProgressionInv, CountInv, RevisionsInv, Kept
<1> QED
  BY <1>5, <1>6, <1>7, <1>8, <1>10 DEF ProgressionInv, CountInv

LEMMA ReconcileDeadSessionHolds ==
  ASSUME ProgressionInv, ReconcileDeadSession PROVE ProgressionInv'
<1>1. /\ coord = "starting" /\ coord' = "ready" /\ journal = FALSE /\ worker' = FALSE /\ agent' = "none"
         /\ Active
      /\ UNCHANGED <<packet, journal, tests, red, op, runs, turns, faults, cmds>>
  BY DEF ReconcileDeadSession, Starting, StopWorkers, code, bounds, ProgressionInv, TypeOK
<1>2. /\ row' \in Rows /\ row'.status = row.status /\ Same(row, row')
      /\ row'.native = row.native /\ row'.voided = row.voided /\ row'.report = row.report
      /\ row'.session <=> (row.session \/ (Active /\ row.native))
  BY RecoveredIs DEF ReconcileDeadSession
<1>3. run' \in RunRows /\ run'.stage = run.stage /\ Kept(run, run')
      /\ run'.status \in {"waiting_for_human", "waiting_for_harness"}
  BY ParkedIs DEF ReconcileDeadSession
<1>4. op.do = "idle"
  BY <1>1 DEF ProgressionInv, ShapeInv, OperationInv
<1>5. TypeOK'
  BY <1>1, <1>2, <1>3, <1>4 DEF ProgressionInv, TypeOK
<1>6. ShapeInv'
  <2>1. InvocationInv'
    BY <1>1, <1>2, <1>3, <1>4
       DEF ProgressionInv, ShapeInv, InvocationInv, OperationInv, RepairInv, Active, Same, Kept
  <2>2. OperationInv'
    BY <1>1, <1>2, <1>3, <1>4
       DEF ProgressionInv, ShapeInv, InvocationInv, OperationInv, DeliveryInv, RepairInv, Active,
           Same, Kept
  <2>3. RepairInv'
    BY <1>1, <1>2, <1>3, <1>4
       DEF ProgressionInv, ShapeInv, InvocationInv, OperationInv, DeliveryInv, RepairInv, Active,
           Same, Kept
  <2>4. DeliveryInv'
    BY <1>1, <1>2, <1>3, <1>4
       DEF ProgressionInv, ShapeInv, InvocationInv, OperationInv, DeliveryInv, RepairInv, Active,
           Same, Kept
  <2>5. ObjectionInv'
    BY <1>1, <1>2, <1>3, <1>4
       DEF ProgressionInv, ShapeInv, InvocationInv, OperationInv, ObjectionInv, Active, Same, Kept
  <2> QED
    BY <2>1, <2>2, <2>3, <2>4, <2>5 DEF ShapeInv
<1>7. ResumesInv' /\ AttemptsInv'
  BY <1>1, <1>2, <1>3, <1>4, NumbersAre
     DEF ProgressionInv, CountInv, ResumesInv, AttemptsInv, Same, Kept
<1>8. RepairsInv'
  BY <1>1, <1>2, <1>3, <1>4, NumbersAre
     DEF ProgressionInv, CountInv, RepairsInv, RepairDue, RepairOpen, Active, Same, Kept
<1>9. RevisionDue' => RevisionDue
  BY <1>1, <1>2, <1>3, <1>4 DEF RevisionDue, Unestablished, Active, Same, Kept
<1>10. RevisionsInv'
  BY <1>1, <1>2, <1>3, <1>4, <1>9, NumbersAre DEF ProgressionInv, CountInv, RevisionsInv, Kept
<1> QED
  BY <1>5, <1>6, <1>7, <1>8, <1>10 DEF ProgressionInv, CountInv

LEMMA ReconcileHolds ==
  ASSUME ProgressionInv, Reconcile PROVE ProgressionInv'
<1>1. /\ coord = "starting" /\ coord' = "ready"
      /\ UNCHANGED <<packet, tests, red, runs, turns, faults, cmds>>
  BY DEF Reconcile, Starting, code, bounds
<1>2. \/ /\ row' \in Rows /\ row'.status = row.status /\ Same(row, row')
         /\ row'.native = row.native /\ row'.voided = row.voided /\ row'.report = row.report
         /\ row'.session <=> (row.session \/ (Active /\ row.native))
         /\ run' \in RunRows /\ run'.stage = run.stage
         /\ run'.handoff = run.handoff /\ run'.protected = run.protected
         /\ run'.objection = run.objection /\ run'.tries = run.tries
         /\ \/ run'.attempts = run.attempts /\ run'.pending = run.pending
            \/ /\ run'.attempts = run.pending /\ run'.pending = 0
               /\ run.pending # 0 /\ row.resumes # 0
         /\ run'.status \in {run.status, "waiting_for_human"}
         /\ run'.status = "active" /\ Active => row'.session
         /\ agent' \in {agent, "none"} /\ worker' \in BOOLEAN /\ journal' = FALSE /\ op' = op
      \/ /\ row' \in Rows /\ row'.status = row.status /\ row'.calls = row.calls
         /\ row'.resumes # 0 /\ (row.resumes = 0 => row'.resumes = 1)
         /\ row'.role = row.role /\ row'.revision = row.revision /\ row'.repair = row.repair
         /\ row'.native = row.native /\ row'.voided = row.voided /\ row'.report = row.report
         /\ worker' = TRUE /\ agent' = "none" /\ journal' = TRUE
         /\ op' \in Ops /\ op'.do = "resume" /\ op'.at = "automatic" /\ row'.session
         /\ run' = run /\ Active /\ row.resumes = 0 /\ run.status = "active"
  BY ReconciledIs DEF SessionKnown, RunSettled, WorkersSettled, SessionContinued
<1>3. /\ op.do = "idle"
      /\ ~Active => agent = "none"
      /\ op.do = "idle" /\ Active => run.stage # "draft_pr"
      /\ agent = "working" => Active /\ row.report = "none" /\ (row.native \/ row.session)
  BY <1>1 DEF ProgressionInv, TypeOK, ShapeInv, InvocationInv, OperationInv, DeliveryInv
<1>4. row.resumes = 0 => row.calls = 0
  BY DEF ProgressionInv, CountInv, ResumesInv
<1>5. /\ op'.do = "resume" => op'.at = "automatic" /\ row'.resumes = 1 /\ row'.calls = 0
      /\ (row'.resumes = 1 /\ row'.calls = 0) \/ (row'.resumes = row.resumes /\ row'.calls = row.calls)
  BY <1>2, <1>3, <1>4 DEF Same
<1>6. \/ run'.attempts = run.attempts /\ run'.pending = run.pending
      \/ run.pending # 0 /\ run'.attempts = run.pending /\ run'.pending = 0
  BY <1>2
<1>7. run.pending # 0 => run.pending = run.attempts + 1 /\ run.attempts < packet.repairs
  BY DEF ProgressionInv, CountInv, AttemptsInv
<1>8. (RepairOpen' <=> run'.pending # 0) /\ (RepairOpen <=> run.pending # 0)
      /\ faults' = faults /\ runs'.repairs = runs.repairs
  BY <1>1, <1>2, <1>3 DEF RepairOpen
<1>9. RepairDue' => RepairDue
  BY <1>1, <1>2, <1>3 DEF RepairDue, Active, Same
<1>10. packet' = packet
  BY <1>1
<1>11. TypeOK'
  BY <1>1, <1>2, <1>3 DEF ProgressionInv, TypeOK
<1>12. ShapeInv'
  <2>1. InvocationInv'
    BY <1>1, <1>2, <1>3, <1>5
       DEF ProgressionInv, ShapeInv, InvocationInv, OperationInv, RepairInv, Active, Same, Kept
  <2>2. OperationInv'
    BY <1>1, <1>2, <1>3, <1>5
       DEF ProgressionInv, ShapeInv, InvocationInv, OperationInv, DeliveryInv, RepairInv, Active,
           Same, Kept
  <2>3. RepairInv'
    BY <1>1, <1>2, <1>3, <1>5
       DEF ProgressionInv, ShapeInv, InvocationInv, OperationInv, DeliveryInv, RepairInv, Active,
           Same, Kept
  <2>4. DeliveryInv'
    BY <1>1, <1>2, <1>3, <1>5
       DEF ProgressionInv, ShapeInv, InvocationInv, OperationInv, DeliveryInv, RepairInv, Active,
           Same, Kept
  <2>5. ObjectionInv'
    BY <1>1, <1>2, <1>3, <1>5
       DEF ProgressionInv, ShapeInv, InvocationInv, OperationInv, ObjectionInv, Active, Same, Kept
  <2> QED
    BY <2>1, <2>2, <2>3, <2>4, <2>5 DEF ShapeInv
<1>13. ResumesInv' /\ AttemptsInv'
  BY <1>1, <1>3, <1>5, <1>6, <1>7, <1>10, NumbersAre
     DEF ProgressionInv, CountInv, ResumesInv, AttemptsInv, Same, Kept
<1>14. RepairsInv'
  BY <1>1, <1>3, <1>6, <1>7, <1>8, <1>9, NumbersAre DEF ProgressionInv, CountInv, RepairsInv
<1>15. RevisionDue' => RevisionDue
  BY <1>1, <1>2, <1>3 DEF RevisionDue, Unestablished, Active, Same, Kept
<1>16. RevisionsInv'
  BY <1>1, <1>2, <1>3, <1>15, NumbersAre DEF ProgressionInv, CountInv, RevisionsInv, Kept
<1> QED
  BY <1>11, <1>12, <1>13, <1>14, <1>16 DEF ProgressionInv, CountInv

LEMMA AnsweredRow ==
  ASSUME ProgressionInv, Answer
  PROVE  /\ row' \in Rows /\ row'.status # "active" /\ Same(row, row')
         /\ row'.session = row.session /\ row'.native = row.native
         /\ row'.voided = row.voided /\ row'.report = row.report
<1>1. PICK status \in RowStatuses : status = (IF row.status = "none" THEN "none" ELSE "superseded")
  BY DEF RowStatuses
<1>2. row' = [row EXCEPT !.status = status]
  BY <1>1 DEF Answer
<1>3. status # "active"
  BY <1>1
<1> QED
  BY <1>2, <1>3, TypesAre, RowStatusSet

\* command.go supersedeInvocation.
LEMMA GivenUpIs ==
  ASSUME ProgressionInv
  PROVE  /\ GivenUp \in Rows /\ Same(row, GivenUp)
         /\ GivenUp.session = row.session /\ GivenUp.native = row.native
         /\ GivenUp.voided = row.voided /\ GivenUp.report = row.report
         /\ GivenUp.status = IF Active /\ ~row.session THEN "superseded" ELSE row.status
<1>1. CASE Active /\ ~row.session
  <2>1. GivenUp = [row EXCEPT !.status = "superseded"]
    BY <1>1 DEF GivenUp
  <2>2. "superseded" \in RowStatuses
    BY DEF RowStatuses
  <2> QED
    BY <1>1, <2>1, <2>2, TypesAre, RowStatusSet
<1>2. CASE ~(Active /\ ~row.session)
  BY <1>2, TypesAre DEF GivenUp, Same
<1> QED
  BY <1>1, <1>2

\* command.go: the three ways a resume goes on.
GivesUp ==
  /\ ~(Active /\ row.session) /\ UNCHANGED live /\ journal' = journal
  /\ row' \in Rows /\ Same(row, row')
  /\ row'.session = row.session /\ row'.native = row.native
  /\ row'.voided = row.voided /\ row'.report = row.report
  /\ row'.status = IF Active /\ ~row.session THEN "superseded" ELSE row.status
  /\ op' = op

ResumesSession ==
  /\ row' \in Rows /\ row'.status = row.status /\ row'.calls = row.calls
  /\ row'.resumes # 0 /\ (row.resumes = 0 => row'.resumes = 1)
  /\ row'.role = row.role /\ row'.revision = row.revision /\ row'.repair = row.repair
  /\ row'.native = row.native /\ row'.voided = row.voided /\ row'.report = row.report
  /\ worker' = TRUE /\ agent' = "none" /\ journal' = TRUE
  /\ op' \in Ops /\ op'.do = "resume" /\ op'.at = "manual"
  /\ row'.session = row.session /\ Active /\ row.session /\ run' = run

LaunchesRole ==
  /\ ~(Active /\ row.session)
  /\ row' \in Rows /\ row'.role = run.stage /\ row'.status = "active"
  /\ ~row'.session /\ ~row'.native /\ ~row'.voided /\ ~row'.repair
  /\ row'.resumes = 0 /\ row'.calls = 0 /\ row'.report = "none"
  /\ row'.revision <=> (run.stage = "test" /\ run.objection # "")
  /\ op' \in Ops /\ op'.do = "launch" /\ op'.at = "saved"
  /\ run' = run /\ run.stage \in Roles /\ UNCHANGED <<worker, agent, journal>>

LEMMA ResumeIs ==
  ASSUME ProgressionInv, Resume
  PROVE  \/ ResumesSession
         \/ /\ GivesUp /\ run.stage = "check"
            /\ run' \in RunRows /\ run'.stage = run.stage /\ run'.status = "active" /\ Kept(run, run')
         \/ GivesUp /\ run' = run
         \/ LaunchesRole
<1>1. CASE Active /\ row.session /\ ReserveResume(row, "manual") /\ UNCHANGED run
  BY <1>1, ReservedIs DEF ResumesSession
<1>2. CASE /\ ~(Active /\ row.session) /\ CheckContinuation
           /\ run' = [run EXCEPT !.status = "active", !.why = ""]
           /\ row' = GivenUp /\ UNCHANGED <<live, journal, op>>
  <2>1. GivesUp
    BY <1>2, GivenUpIs DEF GivesUp
  <2>2. run' \in RunRows /\ run'.stage = run.stage /\ run'.status = "active" /\ Kept(run, run')
    BY <1>2, WentOn
  <2>3. run.stage = "check"
    BY <1>2 DEF CheckContinuation
  <2> QED
    BY <2>1, <2>2, <2>3
<1>3. CASE /\ ~(Active /\ row.session)
           /\ IF PlanLaunchAfter(GivenUp, run.stage)
              THEN SaveInvocation(run.stage) ELSE row' = GivenUp /\ UNCHANGED op
           /\ UNCHANGED <<run, live, journal>>
  <2>1. CASE PlanLaunchAfter(GivenUp, run.stage)
    <3>1. run.stage \in Roles
      BY <2>1 DEF PlanLaunchAfter
    <3>2. SaveInvocation(run.stage)
      BY <1>3, <2>1
    <3> QED
      BY <1>3, <3>1, <3>2, SavedIs DEF LaunchesRole, TestRevision, live
  <2>2. CASE ~PlanLaunchAfter(GivenUp, run.stage)
    <3>1. GivesUp
      BY <1>3, <2>2, GivenUpIs DEF GivesUp
    <3> QED
      BY <1>3, <3>1
  <2> QED
    BY <2>1, <2>2
<1> QED
  BY <1>1, <1>2, <1>3 DEF Resume

LEMMA AnswerHolds ==
  ASSUME ProgressionInv, Answer PROVE ProgressionInv'
<1>1. /\ coord = "ready" /\ op.do = "idle" /\ journal = FALSE /\ cmds' \in 0 .. MaxCommands
      /\ UNCHANGED <<packet, journal, tests, coord, turns, faults>> /\ red' = {}
  BY CommandCounted DEF Answer, ProgressionInv, TypeOK
<1>2. /\ run' \in RunRows /\ run'.stage \in {"claim"} \cup Roles /\ run'.status = "active"
      /\ ~run'.handoff /\ run'.objection = "" /\ run'.tries = 0
      /\ run'.attempts = run.attempts /\ run'.pending = run.pending
  BY TypesAre, AnsweredSet DEF Answer
<1>3. /\ row' \in Rows /\ row'.status # "active" /\ Same(row, row')
      /\ row'.session = row.session /\ row'.native = row.native /\ row'.voided = row.voided
         /\ row'.report = row.report
  BY AnsweredRow
<1>4. /\ worker' \in BOOLEAN /\ agent' = "none"
  BY DEF Answer, StopWorkers, live, ProgressionInv, TypeOK, ShapeInv, InvocationInv
<1>5. op' \in Ops /\ (op'.do = "idle" \/ (op'.do = "accepted" /\ op'.at = "next"))
  BY OpFields, OpsAre DEF Answer
<1>6. /\ runs' \in [repairs : Nat, revisions : Nat] /\ runs'.repairs = runs.repairs
      /\ runs'.revisions = 0
  BY TypesAre, RunsIs DEF Answer
<1>7. run'.tries = 0 /\ runs'.revisions = 0 /\ UNCHANGED <<packet, faults>>
  BY <1>1, <1>2, <1>6
<1>8. TypeOK'
  BY <1>1, <1>2, <1>3, <1>4, <1>5, <1>6 DEF ProgressionInv, TypeOK
<1>9. ShapeInv'
  <2>1. InvocationInv'
    BY <1>1, <1>2, <1>3, <1>4, <1>5, <1>6
       DEF ProgressionInv, ShapeInv, InvocationInv, OperationInv, RepairInv, Active, Same, Kept,
           Roles
  <2>2. OperationInv'
    BY <1>1, <1>2, <1>3, <1>4, <1>5, <1>6
       DEF ProgressionInv, ShapeInv, InvocationInv, OperationInv, DeliveryInv, RepairInv, Active,
           Same, Kept, Roles
  <2>3. RepairInv'
    BY <1>1, <1>2, <1>3, <1>4, <1>5, <1>6
       DEF ProgressionInv, ShapeInv, InvocationInv, OperationInv, DeliveryInv, RepairInv, Active,
           Same, Kept, Roles
  <2>4. DeliveryInv'
    BY <1>1, <1>2, <1>3, <1>4, <1>5, <1>6
       DEF ProgressionInv, ShapeInv, InvocationInv, OperationInv, DeliveryInv, RepairInv, Active,
           Same, Kept, Roles
  <2>5. ObjectionInv'
    BY <1>1, <1>2, <1>3, <1>4, <1>5, <1>6
       DEF ProgressionInv, ShapeInv, InvocationInv, OperationInv, ObjectionInv, Active, Same, Kept,
           Roles
  <2> QED
    BY <2>1, <2>2, <2>3, <2>4, <2>5 DEF ShapeInv
<1>10. ResumesInv' /\ AttemptsInv'
  BY <1>1, <1>2, <1>3, <1>4, <1>5, <1>6, NumbersAre
     DEF ProgressionInv, CountInv, ResumesInv, AttemptsInv, Same, Kept
<1>11. RepairsInv'
  BY <1>1, <1>2, <1>3, <1>4, <1>5, <1>6, NumbersAre
     DEF ProgressionInv, CountInv, RepairsInv, RepairDue, RepairOpen, Active, Same, Kept
<1>12. ~RevisionDue'
  BY <1>1, <1>2, <1>3, <1>4, <1>5, <1>6 DEF RevisionDue, Unestablished, Active, Same, Kept
<1>13. RevisionsInv'
  BY <1>7, <1>12, NumbersAre DEF ProgressionInv, CountInv, RevisionsInv, Kept
<1> QED
  BY <1>8, <1>9, <1>10, <1>11, <1>13 DEF ProgressionInv, CountInv

LEMMA ResumesSessionHolds ==
  ASSUME ProgressionInv, Resume, ResumesSession PROVE ProgressionInv'
<1>1. /\ coord = "ready" /\ op.do = "idle" /\ journal = FALSE /\ run.stage # "draft_pr" /\ run.status # "failed"
      /\ cmds' \in 0 .. MaxCommands
      /\ UNCHANGED <<packet, tests, red, coord, runs, turns, faults>>
  BY CommandCounted DEF Resume, code, Terminal, ProgressionInv, TypeOK
<1>2. /\ row' \in Rows /\ row'.status = row.status /\ row'.calls = row.calls
      /\ row'.resumes # 0 /\ (row.resumes = 0 => row'.resumes = 1)
      /\ row'.role = row.role /\ row'.revision = row.revision /\ row'.repair = row.repair
      /\ row'.native = row.native /\ row'.voided = row.voided /\ row'.report = row.report
      /\ worker' = TRUE /\ agent' = "none" /\ journal' = TRUE
      /\ op' \in Ops /\ op'.do = "resume" /\ op'.at = "manual"
      /\ row'.session /\ row.session /\ Active /\ run' = run
  BY DEF ResumesSession
<1>3. row.resumes = 0 => row.calls = 0
  BY DEF ProgressionInv, CountInv, ResumesInv
<1>4. row'.resumes # 0 /\ row'.calls = row.calls
  BY <1>2
<1>5. UNCHANGED <<packet, run>>
  BY <1>1, <1>2
<1>6. TypeOK'
  BY <1>1, <1>2 DEF ProgressionInv, TypeOK
<1>7. ShapeInv'
  <2>1. InvocationInv'
    BY <1>1, <1>2
       DEF ProgressionInv, ShapeInv, InvocationInv, OperationInv, RepairInv, Active, Same, Kept
  <2>2. OperationInv'
    BY <1>1, <1>2
       DEF ProgressionInv, ShapeInv, InvocationInv, OperationInv, DeliveryInv, RepairInv, Active,
           Same, Kept
  <2>3. RepairInv'
    BY <1>1, <1>2
       DEF ProgressionInv, ShapeInv, InvocationInv, OperationInv, DeliveryInv, RepairInv, Active,
           Same, Kept
  <2>4. DeliveryInv'
    BY <1>1, <1>2
       DEF ProgressionInv, ShapeInv, InvocationInv, OperationInv, DeliveryInv, RepairInv, Active,
           Same, Kept
  <2>5. ObjectionInv'
    BY <1>1, <1>2
       DEF ProgressionInv, ShapeInv, InvocationInv, OperationInv, ObjectionInv, Active, Same, Kept
  <2> QED
    BY <2>1, <2>2, <2>3, <2>4, <2>5 DEF ShapeInv
<1>8. ResumesInv' /\ AttemptsInv'
  BY <1>1, <1>2, <1>4, <1>5, NumbersAre
     DEF ProgressionInv, CountInv, ResumesInv, AttemptsInv, Same, Kept
<1>9. RepairsInv'
  BY <1>1, <1>2, NumbersAre
     DEF ProgressionInv, CountInv, RepairsInv, RepairDue, RepairOpen, Active, Same, Kept
<1>10. RevisionDue' => RevisionDue
  BY <1>1, <1>2 DEF RevisionDue, Unestablished, Active, Same, Kept
<1>11. RevisionsInv'
  BY <1>1, <1>2, <1>10, NumbersAre DEF ProgressionInv, CountInv, RevisionsInv, Kept
<1> QED
  BY <1>6, <1>7, <1>8, <1>9, <1>11 DEF ProgressionInv, CountInv

LEMMA GivesUpHolds ==
  ASSUME ProgressionInv, Resume, GivesUp, run' = run PROVE ProgressionInv'
<1>1. /\ coord = "ready" /\ op.do = "idle" /\ journal = FALSE /\ run.stage # "draft_pr" /\ run.status # "failed"
      /\ cmds' \in 0 .. MaxCommands
      /\ UNCHANGED <<packet, tests, red, coord, runs, turns, faults>>
  BY CommandCounted DEF Resume, code, Terminal, ProgressionInv, TypeOK
<1>2. /\ row' \in Rows /\ Same(row, row') /\ UNCHANGED <<worker, agent, journal, op>>
      /\ row'.session = row.session /\ row'.native = row.native /\ row'.voided = row.voided
         /\ row'.report = row.report
      /\ row'.status = row.status \/ (Active /\ row'.status = "superseded")
      /\ ~(row'.status = "active") /\ ~(Active /\ row.session)
  BY DEF GivesUp, Active, live
<1>3. /\ agent = "none"
      /\ run.status = "active" => ~Active
      /\ Active => ~row.voided
  BY <1>1, <1>2 DEF ProgressionInv, TypeOK, ShapeInv, InvocationInv
<1>4. run' = run
  OBVIOUS
<1>5. TypeOK'
  BY <1>1, <1>2, <1>3, <1>4 DEF ProgressionInv, TypeOK
<1>6. ShapeInv'
  <2>1. InvocationInv'
    BY <1>1, <1>2, <1>3, <1>4
       DEF ProgressionInv, ShapeInv, InvocationInv, OperationInv, RepairInv, Active, Same, Kept
  <2>2. OperationInv'
    BY <1>1, <1>2, <1>3, <1>4
       DEF ProgressionInv, ShapeInv, InvocationInv, OperationInv, DeliveryInv, RepairInv, Active,
           Same, Kept
  <2>3. RepairInv'
    BY <1>1, <1>2, <1>3, <1>4
       DEF ProgressionInv, ShapeInv, InvocationInv, OperationInv, DeliveryInv, RepairInv, Active,
           Same, Kept
  <2>4. DeliveryInv'
    BY <1>1, <1>2, <1>3, <1>4
       DEF ProgressionInv, ShapeInv, InvocationInv, OperationInv, DeliveryInv, RepairInv, Active,
           Same, Kept
  <2>5. ObjectionInv'
    BY <1>1, <1>2, <1>3, <1>4
       DEF ProgressionInv, ShapeInv, InvocationInv, OperationInv, ObjectionInv, Active, Same, Kept
  <2> QED
    BY <2>1, <2>2, <2>3, <2>4, <2>5 DEF ShapeInv
<1>7. ResumesInv' /\ AttemptsInv'
  BY <1>1, <1>2, <1>3, <1>4, NumbersAre
     DEF ProgressionInv, CountInv, ResumesInv, AttemptsInv, Same, Kept
<1>8. RepairsInv'
  BY <1>1, <1>2, <1>3, <1>4, NumbersAre
     DEF ProgressionInv, CountInv, RepairsInv, RepairDue, RepairOpen, Active, Same, Kept
<1>9. RevisionDue' => RevisionDue
  BY <1>1, <1>2, <1>3, <1>4 DEF RevisionDue, Unestablished, Active, Same, Kept
<1>10. RevisionsInv'
  BY <1>1, <1>2, <1>3, <1>4, <1>9, NumbersAre DEF ProgressionInv, CountInv, RevisionsInv, Kept
<1> QED
  BY <1>5, <1>6, <1>7, <1>8, <1>10 DEF ProgressionInv, CountInv

LEMMA ContinuesChecksHolds ==
  ASSUME ProgressionInv, Resume, GivesUp, run.stage = "check",
         run' \in RunRows, run'.stage = run.stage, run'.status = "active", Kept(run, run') PROVE ProgressionInv'
<1>1. /\ coord = "ready" /\ op.do = "idle" /\ journal = FALSE /\ run.stage # "draft_pr" /\ run.status # "failed"
      /\ cmds' \in 0 .. MaxCommands
      /\ UNCHANGED <<packet, tests, red, coord, runs, turns, faults>>
  BY CommandCounted DEF Resume, code, Terminal, ProgressionInv, TypeOK
<1>2. /\ row' \in Rows /\ Same(row, row') /\ UNCHANGED <<worker, agent, journal, op>>
      /\ row'.session = row.session /\ row'.native = row.native /\ row'.voided = row.voided
         /\ row'.report = row.report
      /\ row'.status = row.status \/ (Active /\ row'.status = "superseded")
      /\ ~(row'.status = "active") /\ ~(Active /\ row.session)
  BY DEF GivesUp, Active, live
<1>3. /\ agent = "none"
      /\ run.status = "active" => ~Active
      /\ Active => ~row.voided
  BY <1>1, <1>2 DEF ProgressionInv, TypeOK, ShapeInv, InvocationInv
<1>4. run' \in RunRows /\ run'.stage = run.stage /\ run'.status = "active" /\ Kept(run, run')
  OBVIOUS
<1>5. run.objection = ""
  BY DEF ProgressionInv, ShapeInv, ObjectionInv
<1>6. TypeOK'
  BY <1>1, <1>2, <1>3, <1>4, <1>5 DEF ProgressionInv, TypeOK
<1>7. ShapeInv'
  <2>1. InvocationInv'
    BY <1>1, <1>2, <1>3, <1>4, <1>5
       DEF ProgressionInv, ShapeInv, InvocationInv, OperationInv, RepairInv, Active, Same, Kept
  <2>2. OperationInv'
    BY <1>1, <1>2, <1>3, <1>4, <1>5
       DEF ProgressionInv, ShapeInv, InvocationInv, OperationInv, DeliveryInv, RepairInv, Active,
           Same, Kept
  <2>3. RepairInv'
    BY <1>1, <1>2, <1>3, <1>4, <1>5
       DEF ProgressionInv, ShapeInv, InvocationInv, OperationInv, DeliveryInv, RepairInv, Active,
           Same, Kept
  <2>4. DeliveryInv'
    BY <1>1, <1>2, <1>3, <1>4, <1>5
       DEF ProgressionInv, ShapeInv, InvocationInv, OperationInv, DeliveryInv, RepairInv, Active,
           Same, Kept
  <2>5. ObjectionInv'
    BY <1>1, <1>2, <1>3, <1>4, <1>5
       DEF ProgressionInv, ShapeInv, InvocationInv, OperationInv, ObjectionInv, Active, Same, Kept
  <2> QED
    BY <2>1, <2>2, <2>3, <2>4, <2>5 DEF ShapeInv
<1>8. ResumesInv' /\ AttemptsInv'
  BY <1>1, <1>2, <1>3, <1>4, <1>5, NumbersAre
     DEF ProgressionInv, CountInv, ResumesInv, AttemptsInv, Same, Kept
<1>9. RepairsInv'
  BY <1>1, <1>2, <1>3, <1>4, <1>5, NumbersAre
     DEF ProgressionInv, CountInv, RepairsInv, RepairDue, RepairOpen, Active, Same, Kept
<1>10. RevisionDue' => RevisionDue
  BY <1>1, <1>2, <1>3, <1>4, <1>5 DEF RevisionDue, Unestablished, Active, Same, Kept
<1>11. RevisionsInv'
  BY <1>1, <1>2, <1>3, <1>4, <1>5, <1>10, NumbersAre
     DEF ProgressionInv, CountInv, RevisionsInv, Kept
<1> QED
  BY <1>6, <1>7, <1>8, <1>9, <1>11 DEF ProgressionInv, CountInv

LEMMA LaunchesRoleHolds ==
  ASSUME ProgressionInv, Resume, LaunchesRole PROVE ProgressionInv'
<1>1. /\ coord = "ready" /\ op.do = "idle" /\ journal = FALSE /\ run.stage # "draft_pr" /\ run.status # "failed"
      /\ cmds' \in 0 .. MaxCommands
      /\ UNCHANGED <<packet, tests, red, coord, runs, turns, faults>>
  BY CommandCounted DEF Resume, code, Terminal, ProgressionInv, TypeOK
<1>2. /\ ~(Active /\ row.session) /\ row' \in Rows /\ row'.role = run.stage /\ row'.status = "active"
      /\ ~row'.session /\ ~row'.native /\ ~row'.voided /\ ~row'.repair
      /\ row'.resumes = 0 /\ row'.calls = 0 /\ row'.report = "none"
      /\ row'.revision <=> (run.stage = "test" /\ run.objection # "")
      /\ op' \in Ops /\ op'.do = "launch" /\ op'.at = "saved"
      /\ run' = run /\ run.stage \in Roles /\ UNCHANGED <<worker, agent, journal>>
  BY DEF LaunchesRole
<1>3. /\ agent = "none"
      /\ run.status = "active" => ~Active
  BY <1>1, <1>2 DEF ProgressionInv, TypeOK, ShapeInv, InvocationInv
<1>4. row'.calls = 0 /\ UNCHANGED <<packet, run>>
  BY <1>1, <1>2
<1>5. TypeOK'
  BY <1>1, <1>2, <1>3 DEF ProgressionInv, TypeOK
<1>6. ShapeInv'
  <2>1. InvocationInv'
    BY <1>1, <1>2, <1>3
       DEF ProgressionInv, ShapeInv, InvocationInv, OperationInv, RepairInv, Active, Same, Kept,
           Roles
  <2>2. OperationInv'
    BY <1>1, <1>2, <1>3
       DEF ProgressionInv, ShapeInv, InvocationInv, OperationInv, DeliveryInv, RepairInv, Active,
           Same, Kept, Roles
  <2>3. RepairInv'
    BY <1>1, <1>2, <1>3
       DEF ProgressionInv, ShapeInv, InvocationInv, OperationInv, DeliveryInv, RepairInv, Active,
           Same, Kept, Roles
  <2>4. DeliveryInv'
    BY <1>1, <1>2, <1>3
       DEF ProgressionInv, ShapeInv, InvocationInv, OperationInv, DeliveryInv, RepairInv, Active,
           Same, Kept, Roles
  <2>5. ObjectionInv'
    BY <1>1, <1>2, <1>3
       DEF ProgressionInv, ShapeInv, InvocationInv, OperationInv, ObjectionInv, Active, Same, Kept,
           Roles
  <2> QED
    BY <2>1, <2>2, <2>3, <2>4, <2>5 DEF ShapeInv
<1>7. ResumesInv' /\ AttemptsInv'
  BY <1>4, NumbersAre DEF ProgressionInv, CountInv, ResumesInv, AttemptsInv, Same, Kept
<1>8. RepairsInv'
  BY <1>1, <1>2, <1>3, NumbersAre
     DEF ProgressionInv, CountInv, RepairsInv, RepairDue, RepairOpen, Active, Same, Kept
<1>9. RevisionDue' => RevisionDue
  BY <1>1, <1>2, <1>3 DEF RevisionDue, Unestablished, Active, Same, Kept
<1>10. RevisionsInv'
  BY <1>1, <1>2, <1>3, <1>9, NumbersAre DEF ProgressionInv, CountInv, RevisionsInv, Kept
<1> QED
  BY <1>5, <1>6, <1>7, <1>8, <1>10 DEF ProgressionInv, CountInv

LEMMA ResumeHolds ==
  ASSUME ProgressionInv, Resume PROVE ProgressionInv'
BY ResumeIs, ResumesSessionHolds, GivesUpHolds, ContinuesChecksHolds, LaunchesRoleHolds

LEMMA RetryHolds ==
  ASSUME ProgressionInv, Retry PROVE ProgressionInv'
<1>1. /\ coord = "ready" /\ op.do = "idle" /\ journal = FALSE
      /\ cmds' \in 0 .. MaxCommands
      /\ UNCHANGED <<packet, journal, worker, agent, tests, red, op, coord, runs, turns, faults>>
  BY CommandCounted DEF Retry, live, code, ProgressionInv, TypeOK
<1>2. run' \in RunRows /\ run'.stage = run.stage /\ run'.status = "active" /\ Kept(run, run')
  BY WentOn DEF Retry
<1>3. \/ run.status = "failed" /\ row' = row
      \/ /\ ~Active /\ Unestablished
         /\ row' \in Rows /\ row'.status = "superseded" /\ Same(row, row')
         /\ row'.session = row.session /\ row'.native = row.native /\ row'.report = row.report
  BY TypesAre, RetriedSet DEF Retry, Unestablished
<1>4. ~Active /\ agent = "none"
  BY <1>3 DEF ProgressionInv, TypeOK, ShapeInv, InvocationInv
<1>5. run.status = "failed" => run.objection = ""
  BY DEF ProgressionInv, ShapeInv, InvocationInv
<1>6. TypeOK'
  BY <1>1, <1>2, <1>3, <1>4 DEF ProgressionInv, TypeOK
<1>7. ShapeInv'
  <2>1. InvocationInv'
    BY <1>1, <1>2, <1>3, <1>4
       DEF ProgressionInv, ShapeInv, InvocationInv, OperationInv, RepairInv, Active, Same, Kept
  <2>2. OperationInv'
    BY <1>1, <1>2, <1>3, <1>4
       DEF ProgressionInv, ShapeInv, InvocationInv, OperationInv, DeliveryInv, RepairInv, Active,
           Same, Kept
  <2>3. RepairInv'
    BY <1>1, <1>2, <1>3, <1>4
       DEF ProgressionInv, ShapeInv, InvocationInv, OperationInv, DeliveryInv, RepairInv, Active,
           Same, Kept
  <2>4. DeliveryInv'
    BY <1>1, <1>2, <1>3, <1>4
       DEF ProgressionInv, ShapeInv, InvocationInv, OperationInv, DeliveryInv, RepairInv, Active,
           Same, Kept
  <2>5. ObjectionInv'
    BY <1>1, <1>2, <1>3, <1>4
       DEF ProgressionInv, ShapeInv, InvocationInv, OperationInv, ObjectionInv, Active, Same, Kept
  <2> QED
    BY <2>1, <2>2, <2>3, <2>4, <2>5 DEF ShapeInv
<1>8. ResumesInv' /\ AttemptsInv'
  BY <1>1, <1>2, <1>3, <1>4, NumbersAre
     DEF ProgressionInv, CountInv, ResumesInv, AttemptsInv, Same, Kept
<1>9. RepairsInv'
  BY <1>1, <1>2, <1>3, <1>4, NumbersAre
     DEF ProgressionInv, CountInv, RepairsInv, RepairDue, RepairOpen, Active, Same, Kept
<1>10. RevisionDue' => RevisionDue
  BY <1>1, <1>2, <1>3, <1>4, <1>5 DEF RevisionDue, Unestablished, Active, Same, Kept
<1>11. RevisionsInv'
  BY <1>1, <1>2, <1>3, <1>4, <1>10, NumbersAre DEF ProgressionInv, CountInv, RevisionsInv, Kept
<1> QED
  BY <1>6, <1>7, <1>8, <1>9, <1>11 DEF ProgressionInv, CountInv

LEMMA RepeatReportHolds ==
  ASSUME ProgressionInv, RepeatReport PROVE ProgressionInv'
<1>1. /\ coord = "ready" /\ op.do = "idle" /\ ~journal
      /\ cmds' \in 0 .. MaxCommands
  BY CommandCounted DEF RepeatReport
<1>2. op' \in Ops /\ op'.do = "accepted" /\ op'.at = "policy"
  BY OpFields, OpsAre DEF RepeatReport
<1>3. /\ ~Active /\ row.role = "test" /\ row.report # "none" /\ run.stage = "test" /\ run.status = "active"
      /\ UNCHANGED <<packet, run, row, journal, worker, agent, tests, red, coord, runs, turns, faults>>
  BY DEF RepeatReport, live, code
<1>4. TypeOK'
  BY <1>1, <1>2, <1>3 DEF ProgressionInv, TypeOK
<1>5. ShapeInv'
  <2>1. InvocationInv'
    BY <1>1, <1>2, <1>3
       DEF ProgressionInv, ShapeInv, InvocationInv, OperationInv, RepairInv, Active, Same, Kept
  <2>2. OperationInv'
    BY <1>1, <1>2, <1>3
       DEF ProgressionInv, ShapeInv, InvocationInv, OperationInv, DeliveryInv, RepairInv, Active,
           Same, Kept
  <2>3. RepairInv'
    BY <1>1, <1>2, <1>3
       DEF ProgressionInv, ShapeInv, InvocationInv, OperationInv, DeliveryInv, RepairInv, Active,
           Same, Kept
  <2>4. DeliveryInv'
    BY <1>1, <1>2, <1>3
       DEF ProgressionInv, ShapeInv, InvocationInv, OperationInv, DeliveryInv, RepairInv, Active,
           Same, Kept
  <2>5. ObjectionInv'
    BY <1>1, <1>2, <1>3
       DEF ProgressionInv, ShapeInv, InvocationInv, OperationInv, ObjectionInv, Active, Same, Kept
  <2> QED
    BY <2>1, <2>2, <2>3, <2>4, <2>5 DEF ShapeInv
<1>6. ResumesInv' /\ AttemptsInv'
  BY <1>1, <1>2, <1>3, NumbersAre DEF ProgressionInv, CountInv, ResumesInv, AttemptsInv, Same, Kept
<1>7. RepairsInv'
  BY <1>1, <1>2, <1>3, NumbersAre
     DEF ProgressionInv, CountInv, RepairsInv, RepairDue, RepairOpen, Active, Same, Kept
<1>8. ~RevisionDue'
  BY <1>1, <1>2, <1>3 DEF RevisionDue, Unestablished, Active, Same, Kept
<1>9. RevisionsInv'
  BY <1>1, <1>2, <1>3, <1>8, NumbersAre DEF ProgressionInv, CountInv, RevisionsInv, Kept
<1> QED
  BY <1>4, <1>5, <1>6, <1>7, <1>9 DEF ProgressionInv, CountInv

LEMMA CancelHolds ==
  ASSUME ProgressionInv, Cancel PROVE ProgressionInv'
<1>1. /\ coord = "ready" /\ op.do = "idle" /\ worker' = FALSE /\ agent' = "none"
      /\ cmds' \in 0 .. MaxCommands
      /\ UNCHANGED <<packet, row, journal, tests, red, op, coord, runs, turns, faults>>
  BY CommandCounted DEF Cancel, StopWorkers, code
<1>2. run' \in RunRows /\ run'.stage = run.stage /\ run'.status = "cancelled" /\ Kept(run, run')
  BY WentOn DEF Cancel
<1>3. TypeOK'
  BY <1>1, <1>2 DEF ProgressionInv, TypeOK
<1>4. ShapeInv'
  <2>1. InvocationInv'
    BY <1>1, <1>2
       DEF ProgressionInv, ShapeInv, InvocationInv, OperationInv, RepairInv, Active, Same, Kept
  <2>2. OperationInv'
    BY <1>1, <1>2
       DEF ProgressionInv, ShapeInv, InvocationInv, OperationInv, DeliveryInv, RepairInv, Active,
           Same, Kept
  <2>3. RepairInv'
    BY <1>1, <1>2
       DEF ProgressionInv, ShapeInv, InvocationInv, OperationInv, DeliveryInv, RepairInv, Active,
           Same, Kept
  <2>4. DeliveryInv'
    BY <1>1, <1>2
       DEF ProgressionInv, ShapeInv, InvocationInv, OperationInv, DeliveryInv, RepairInv, Active,
           Same, Kept
  <2>5. ObjectionInv'
    BY <1>1, <1>2
       DEF ProgressionInv, ShapeInv, InvocationInv, OperationInv, ObjectionInv, Active, Same, Kept
  <2> QED
    BY <2>1, <2>2, <2>3, <2>4, <2>5 DEF ShapeInv
<1>5. ResumesInv' /\ AttemptsInv'
  BY <1>1, <1>2, NumbersAre DEF ProgressionInv, CountInv, ResumesInv, AttemptsInv, Same, Kept
<1>6. RepairsInv'
  BY <1>1, <1>2, NumbersAre
     DEF ProgressionInv, CountInv, RepairsInv, RepairDue, RepairOpen, Active, Same, Kept
<1>7. RevisionDue' => RevisionDue
  BY <1>1, <1>2 DEF RevisionDue, Unestablished, Active, Same, Kept
<1>8. RevisionsInv'
  BY <1>1, <1>2, <1>7, NumbersAre DEF ProgressionInv, CountInv, RevisionsInv, Kept
<1> QED
  BY <1>3, <1>4, <1>5, <1>6, <1>8 DEF ProgressionInv, CountInv

LEMMA StopPendingAttemptHolds ==
  ASSUME ProgressionInv, StopPendingAttempt PROVE ProgressionInv'
<1>1. /\ coord = "ready" /\ op.do = "idle" /\ run.status = "active"
      /\ UNCHANGED <<packet, row, journal, worker, agent, tests, red, op, coord, runs, turns, faults, cmds>>
  BY OpFields DEF StopPendingAttempt, Driving, live, code, bounds
<1>2. run' \in RunRows /\ run'.stage = run.stage /\ Kept(run, run') /\ run'.status # "active"
      /\ (run'.status = "failed" => run.status = "failed")
  BY StoppedIs DEF StopPendingAttempt
<1>3. TypeOK'
  BY <1>1, <1>2 DEF ProgressionInv, TypeOK
<1>4. ShapeInv'
  <2>1. InvocationInv'
    BY <1>1, <1>2
       DEF ProgressionInv, ShapeInv, InvocationInv, OperationInv, RepairInv, Active, Same, Kept
  <2>2. OperationInv'
    BY <1>1, <1>2
       DEF ProgressionInv, ShapeInv, InvocationInv, OperationInv, DeliveryInv, RepairInv, Active,
           Same, Kept
  <2>3. RepairInv'
    BY <1>1, <1>2
       DEF ProgressionInv, ShapeInv, InvocationInv, OperationInv, DeliveryInv, RepairInv, Active,
           Same, Kept
  <2>4. DeliveryInv'
    BY <1>1, <1>2
       DEF ProgressionInv, ShapeInv, InvocationInv, OperationInv, DeliveryInv, RepairInv, Active,
           Same, Kept
  <2>5. ObjectionInv'
    BY <1>1, <1>2
       DEF ProgressionInv, ShapeInv, InvocationInv, OperationInv, ObjectionInv, Active, Same, Kept
  <2> QED
    BY <2>1, <2>2, <2>3, <2>4, <2>5 DEF ShapeInv
<1>5. ResumesInv' /\ AttemptsInv'
  BY <1>1, <1>2, NumbersAre DEF ProgressionInv, CountInv, ResumesInv, AttemptsInv, Same, Kept
<1>6. RepairsInv'
  BY <1>1, <1>2, NumbersAre
     DEF ProgressionInv, CountInv, RepairsInv, RepairDue, RepairOpen, Active, Same, Kept
<1>7. RevisionDue' => RevisionDue
  BY <1>1, <1>2 DEF RevisionDue, Unestablished, Active, Same, Kept
<1>8. RevisionsInv'
  BY <1>1, <1>2, <1>7, NumbersAre DEF ProgressionInv, CountInv, RevisionsInv, Kept
<1> QED
  BY <1>3, <1>4, <1>5, <1>6, <1>8 DEF ProgressionInv, CountInv

-----------------------------------------------------------------------------
(* The invariant *)

\* A claimed run satisfies the invariant.
LEMMA InitHolds ==
  ASSUME Init PROVE ProgressionInv
<1>1. /\ packet \in Packets /\ run = NewRun /\ row = NoRow /\ journal = FALSE
      /\ worker = FALSE /\ agent = "none" /\ tests = 0 /\ red = {} /\ op = Idle /\ coord = "ready"
      /\ runs = [repairs |-> 0, revisions |-> 0] /\ turns = 0 /\ faults = 0 /\ cmds = 0
  BY DEF Init
<1>2. /\ run \in RunRows /\ run.stage = "claim" /\ run.status = "active" /\ ~run.handoff
      /\ run.objection = "" /\ run.tries = 0 /\ run.attempts = 0 /\ run.pending = 0
  BY <1>1 DEF NewRun, RunRows, Stages, Statuses, Reasons, Objections
<1>3. /\ row \in Rows /\ row.status = "none" /\ row.report = "none" /\ row.resumes = 0 /\ row.calls = 0
      /\ row.role = "none"
  BY <1>1 DEF NoRow, Rows
<1>4. op \in Ops /\ op.do = "idle"
  BY <1>1, OpFields, OpsAre
<1>5. /\ runs \in [repairs : Nat, revisions : Nat] /\ runs.repairs = 0 /\ runs.revisions = 0
      /\ turns \in 0 .. MaxTurns /\ faults \in 0 .. MaxFaults /\ cmds \in 0 .. MaxCommands
  BY <1>1, BoundsAre
<1>6. packet.revisions \in Nat /\ packet.repairs \in Nat
  BY <1>1, ProgressionAssumption DEF PacketOK
<1>7. TypeOK
  BY <1>1, <1>2, <1>3, <1>4, <1>5 DEF TypeOK
<1>8. ShapeInv
  BY <1>1, <1>2, <1>3, <1>4
     DEF ShapeInv, InvocationInv, OperationInv, RepairInv, DeliveryInv, ObjectionInv, Active
<1>9. ~RepairDue /\ ~RevisionDue
  BY <1>2, <1>3, <1>4 DEF RepairDue, RevisionDue, Active
<1>10. CountInv
  <2>1. /\ run.tries = 0 /\ run.attempts = 0 /\ run.pending = 0 /\ faults = 0
        /\ runs.repairs = 0 /\ runs.revisions = 0
    BY <1>1, <1>2, <1>5
  <2>2. ResumesInv
    BY <1>3 DEF ResumesInv
  <2>3. AttemptsInv
    BY <1>6, <2>1 DEF AttemptsInv
  <2>4. RepairsInv
    BY <1>9, <2>1 DEF RepairsInv
  <2>5. RevisionsInv
    BY <1>6, <1>9, <2>1 DEF RevisionsInv
  <2> QED
    BY <2>2, <2>3, <2>4, <2>5 DEF CountInv
<1> QED
  BY <1>7, <1>8, <1>10 DEF ProgressionInv

LEMMA StutterHolds ==
  ASSUME ProgressionInv, UNCHANGED vars PROVE ProgressionInv'
<1>1. UNCHANGED <<packet, run, row, journal, worker, agent, tests, red, op, coord, runs, turns, faults, cmds>>
  BY DEF vars
<1>2. TypeOK'
  BY <1>1 DEF ProgressionInv, TypeOK
<1>3. ShapeInv'
  <2>1. InvocationInv'
    BY <1>1 DEF ProgressionInv, ShapeInv, InvocationInv, Active
  <2>2. OperationInv' /\ RepairInv'
    BY <1>1 DEF ProgressionInv, ShapeInv, OperationInv, RepairInv, Active
  <2>3. DeliveryInv' /\ ObjectionInv'
    BY <1>1 DEF ProgressionInv, ShapeInv, DeliveryInv, ObjectionInv, Active
  <2> QED
    BY <2>1, <2>2, <2>3 DEF ShapeInv
<1>4. CountInv'
  <2>1. (RepairDue <=> RepairDue') /\ (RepairOpen <=> RepairOpen') /\ (RevisionDue <=> RevisionDue')
    BY <1>1 DEF RepairDue, RepairOpen, RevisionDue, Unestablished, Active
  <2> QED
    BY <1>1, <2>1 DEF ProgressionInv, CountInv, ResumesInv, AttemptsInv, RepairsInv, RevisionsInv
<1> QED
  BY <1>2, <1>3, <1>4 DEF ProgressionInv

\* Every step keeps it.
LEMMA NextHolds ==
  ASSUME ProgressionInv, Next PROVE ProgressionInv'
<1>1. CASE Launching
  BY <1>1, StartAgentHolds, StartWorkerHolds, StartHarnessHolds, SaveSessionHolds,
     commitLaunchRunHolds
     DEF Launching
<1>2. CASE Accepting
  BY <1>2, AcceptReportHolds, RefuseReportHolds, acceptTestStageReportHolds, CheckpointTestsHolds,
     LaunchNextHolds
     DEF Accepting
<1>3. CASE Delivering
  BY <1>3, CreateDraftPullRequestHolds, RunGatesHolds, OpenPullRequestHolds DEF Delivering
<1>4. CASE Repairing
  BY <1>4, SaveRepairInvocationHolds, StartRepairWorkerHolds, ReserveAttemptHolds,
     JournalRepairResumeHolds,
     ResumeForRepairHolds, CompleteAttemptHolds DEF Repairing
<1>5. CASE Recovering
  BY <1>5, NativeResumeHolds, reconcileActiveHarnessLivenessHolds, retryWaitingForHarnessHolds,
     RestartHolds, ReplayReservedResumeHolds, ReconcileHolds, ReconcileDeadSessionHolds DEF Recovering
<1>6. CASE RunBaseline \/ StopPendingAttempt \/ AgentReports \/ AgentTampers
  BY <1>6, RunBaselineHolds, StopPendingAttemptHolds, AgentReportsHolds, AgentTampersHolds
<1>7. CASE Failing
  BY <1>7, rollbackLaunchHolds, retainLaunchHolds, rollbackCheckRepairHolds, RefusedResumeHolds,
     AgentStopsHolds, agentInvocationExpiredHolds, CrashHolds DEF Failing
<1>8. CASE Commands
  BY <1>8, AnswerHolds, ResumeHolds, RetryHolds, RepeatReportHolds, CancelHolds DEF Commands
<1> QED
  BY <1>1, <1>2, <1>3, <1>4, <1>5, <1>6, <1>7, <1>8 DEF Next, Coordinate

\* Every reachable state satisfies the inductive invariant: where a step of the
\* coordinator finds the run, its invocation and its worker, and what every
\* counter has paid for (progression.go, harness_start.go, repair.go, recovery.go).
THEOREM ProgressionInvariant == Spec => []ProgressionInv
<1>1. Init => ProgressionInv
  BY InitHolds
<1>2. ProgressionInv /\ [Next]_vars => ProgressionInv'
  BY NextHolds, StutterHolds
<1> QED
  BY <1>1, <1>2, PTL DEF Spec

\* The run row, its invocation row and the coordinator's operation keep their
\* types (internal/store/store.go, progression.go).
THEOREM ProgressionTypes == Spec => []TypeOK
<1>1. ProgressionInv => TypeOK
  BY DEF ProgressionInv
<1> QED
  BY <1>1, ProgressionInvariant, PTL

\* No edit of a test between its red run and the draft pull request is
\* delivered: the checkpoint protects what the red run saw, the delivery's check
\* compares it with the worktree, and nobody works on the worktree after it
\* (draft_pr.go:119, test_stage.go:671, command.go:978).
THEOREM DeliveredTests == Spec => []DeliveredTestsAreProtected
<1>1. ProgressionInv => DeliveredTestsAreProtected
  BY DEF ProgressionInv, ShapeInv, DeliveryInv, DeliveredTestsAreProtected
<1> QED
  BY <1>1, ProgressionInvariant, PTL

\* Whatever stops, is lost or is disputed, the coordinator resumes a session once
\* by itself, repairs a failing check within the packet's budget and a repair per
\* stop, and begins at most the packet's revisions and one per stop
\* (recovery.go, repair.go:667, report_acceptance.go:309).
THEOREM BoundedWork == Spec => []AutomaticWorkIsBounded
<1>1. ASSUME ProgressionInv PROVE AutomaticWorkIsBounded
  <2>1. ResumedOnce
    BY <1>1 DEF ProgressionInv, CountInv, ResumesInv, ResumedOnce
  <2>2. RepairsAreCounted
    <3>1. /\ run.attempts <= packet.repairs
          /\ runs.repairs <= run.attempts + faults + 1
          /\ RepairOpen \/ runs.repairs <= run.attempts + faults
      BY <1>1 DEF ProgressionInv, CountInv, AttemptsInv, RepairsInv
    <3>2. CASE RepairOpen
      BY <1>1, <3>1, <3>2, NumbersAre DEF RepairsAreCounted, RepairOpen
    <3>3. CASE ~RepairOpen
      BY <1>1, <3>1, <3>3, NumbersAre DEF RepairsAreCounted, RepairOpen
    <3> QED
      BY <3>2, <3>3
  <2>3. RevisionsWithinBudget
    BY <1>1, NumbersAre DEF ProgressionInv, CountInv, RevisionsInv, RevisionsWithinBudget
  <2> QED
    BY <2>1, <2>2, <2>3 DEF AutomaticWorkIsBounded
<1> QED
  BY <1>1, ProgressionInvariant, PTL

=============================================================================
