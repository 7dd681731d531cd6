--------------------------- MODULE PlanPublication ---------------------------
(***************************************************************************)
(* The publication of one approved plan (internal/publication) as the      *)
(* coordinator runs it: session commands from the durable inbox            *)
(* (internal/sessioncommand), the publication ledger, the receipts and the *)
(* session of the operational store (internal/store), and the tracker,     *)
(* whose answers may be lost, late or incomplete.                          *)
(*                                                                         *)
(* One command that calls the tracker runs at a time per session: job.     *)
(* Each store transaction and each tracker call of it is one action.  A    *)
(* cancel is applied inline beside it, and the process may stop between    *)
(* any two of them; the command then stays in the inbox and runs again.    *)
(*                                                                         *)
(* Every write to the session carries the revision that was read.  Beside  *)
(* the running command only the cancel writes the session, and it changes  *)
(* the state, so a revision conflict is a state that differs from the one  *)
(* that was read (job.saw).  The running command is also the only writer   *)
(* of the ledger, so its copy in memory is the stored ledger.              *)
(***************************************************************************)
EXTENDS Naturals, Sequences, FiniteSets

CONSTANTS
  Plans,          \* the ledgers of the plans that may be approved
  MaxStarts,      \* how often the coordinator starts one command
  BoundedLookup,  \* whether the correlation lookup reads only newer items
  MaxRequests,    \* bound on the commands people submit
  MaxInterrupts   \* bound on process stops and store failures

ItemKind == "create_item"
LinkKind == "create_relationship"

Operation == [kind : {ItemKind}, node : Nat]
             \cup [kind : {LinkKind}, from : Nat, to : Nat]

\* A ledger creates every item once, and links only items created before.
IsLedgerPlan(p) ==
  /\ p \in Seq(Operation) /\ Len(p) > 0
  /\ \A i, j \in DOMAIN p :
       (p[i].kind = ItemKind /\ p[j].kind = ItemKind /\ p[i].node = p[j].node)
         => i = j
  /\ \A j \in DOMAIN p : p[j].kind = LinkKind =>
       \E f, t \in 1..(j - 1) :
         /\ p[f].kind = ItemKind /\ p[f].node = p[j].from
         /\ p[t].kind = ItemKind /\ p[t].node = p[j].to
         /\ t < f

ASSUME PlansAssumption == \A p \in Plans : IsLedgerPlan(p)
ASSUME BoundsAssumption == /\ MaxStarts \in Nat
                           /\ MaxRequests \in Nat
                           /\ MaxInterrupts \in Nat
ASSUME LookupAssumption == BoundedLookup \in BOOLEAN

VARIABLES
  session,     \* the session's lifecycle state
  drifted,     \* the rendering no longer matches what the approval binds
  plan,        \* the operations of the approval, in execution order
  ledger,      \* the stored ledger rows, or NoLedger before it is planned
  receipts,    \* the stored publication receipts
  inbox,       \* the durable command inbox, in acceptance order
  job,         \* the command that runs, or NoJob
  items,       \* the tracker: how many items carry an operation's correlation
  late,        \* creates that answered "unknown" and may still be applied
  links,       \* the tracker: relationships between item identities
  interrupts,  \* how often the process stopped or the store failed
  misjudged,   \* creates a person called absent although they were not
  writesAfterCancel  \* history: writes reserved although already cancelled

store == <<session, ledger, receipts, inbox>>
tracker == <<items, late, links>>
vars == <<store, drifted, plan, job, tracker, interrupts, misjudged,
          writesAfterCancel>>

-----------------------------------------------------------------------------
(* Rows *)

SessionStates == {"approved", "publishing", "publication_incomplete",
                  "published", "cancelled"}
OperationStates == {"pending", "attempted", "failed", "ambiguous", "succeeded"}
\* Mutant: a create interrupted by a stop does not count as unknown.
AmbiguousOnly == {"ambiguous"}
Unresolved == {"attempted", "ambiguous"}

Steps == DOMAIN plan
IsItem(i) == plan[i].kind = ItemKind

\* ext is the recorded identity of a created item, 0 when there is none.
Row == [state : OperationStates, ext : Nat]
NewRow(state, ext) == [state |-> state, ext |-> ext]
NoLedger == <<>>
Planned == ledger # NoLedger

\* A receipt lists what the ledger shows as created.
Receipt == [id : Nat, outcome : {"published", "incomplete"},
            lists : SUBSET Nat]

Succeeded(l) == {i \in DOMAIN l : l[i].state = "succeeded"}

\* Mutant: relationships do not count for the outcome.
ReceiptFromItems(id) ==
  [id |-> id,
   outcome |-> IF /\ Planned
                  /\ {i \in Steps : IsItem(i)} \subseteq Succeeded(ledger)
                 THEN "published" ELSE "incomplete",
   lists |-> Succeeded(ledger)]

\* The ledger alone decides the outcome of a receipt.
ReceiptFromLedger(id) ==
  [id |-> id,
   outcome |-> IF Planned /\ Succeeded(ledger) = Steps
                 THEN "published" ELSE "incomplete",
   lists |-> Succeeded(ledger)]

HasReceipt(id) == \E r \in receipts : r.id = id

\* A cancelled session has evidence that no receipt lists yet.
LacksCancelledReceipt ==
  Planned /\ \A r \in receipts : r.lists # Succeeded(ledger)

\* about is the operation a reconciliation is about and ext the item it
\* adopts, 0 to confirm that there is none.
Command == [kind : {"publish", "reconcile"}, about : Nat, ext : Nat,
            state : {"accepted", "applying", "completed"}, attempts : Nat]
Pending(r) == inbox[r].state # "completed"

Stages == {"idle", "publish", "start", "plan", "next", "find", "reserve",
           "create", "record", "finish", "receipt", "settle", "reconcile",
           "lookup", "resolve", "complete"}

\* result is the row to record; failed, the pass met a store failure;
\* settling, Interrupt runs for a command that ended without success.
Job == [req : Nat, at : Stages, op : Nat, saw : SessionStates, result : Row,
        failed : BOOLEAN, settling : BOOLEAN]
NoJob == [req |-> 0, at |-> "idle", op |-> 0, saw |-> "approved",
          result |-> NewRow("pending", 0), failed |-> FALSE,
          settling |-> FALSE]

At(stage) == job.at = stage
Running == inbox[job.req]
Goto(stage) == job' = [NoJob EXCEPT !.req = job.req, !.at = stage,
                                    !.failed = job.failed,
                                    !.settling = job.settling]
\* The command stays applying and a later pass resumes it.
Abort == job' = NoJob

TypeOK ==
  /\ session \in SessionStates
  /\ drifted \in BOOLEAN
  /\ plan \in Plans
  /\ ledger = NoLedger \/ ledger \in [Steps -> Row]
  /\ receipts \subseteq Receipt
  /\ inbox \in Seq(Command) /\ Len(inbox) <= MaxRequests
  /\ job \in Job
  /\ job.at # "idle" => job.req \in DOMAIN inbox
  /\ items \in [Steps -> Nat]
  /\ late \subseteq Steps
  /\ links \subseteq Steps \X Nat \X Nat
  /\ interrupts \in 0..MaxInterrupts
  /\ misjudged \subseteq Steps
  /\ writesAfterCancel \in Nat

-----------------------------------------------------------------------------
(* Writes of the store *)

\* A succeeded row and a recorded identity are final.
SettledChange(i, row) ==
  \/ ledger[i].ext # 0 /\ row.ext # ledger[i].ext
  \/ ledger[i].state = "succeeded" /\ row.state # "succeeded"

RecordOperation(i, row) ==
  /\ ~SettledChange(i, row)
  /\ ledger' = [ledger EXCEPT ![i] = row]

\* A write at the revision that was read, refused when another writer moved
\* the session.
Unmoved == session = job.saw

-----------------------------------------------------------------------------
(* The inbox and its dispatcher *)

Submit(kind, about, ext) ==
  /\ Len(inbox) < MaxRequests
  /\ inbox' = Append(inbox, [kind |-> kind, about |-> about, ext |-> ext,
                             state |-> "accepted", attempts |-> 0])
  /\ UNCHANGED <<session, ledger, receipts, drifted, plan, job, tracker,
                 interrupts, misjudged, writesAfterCancel>>

SubmitPublish == Submit("publish", 0, 0)

\* The plan page offers a reconciliation for each create of unknown outcome.
SubmitReconcile ==
  /\ Planned
  /\ session \in {"publication_incomplete", "cancelled"}
  /\ \E i \in Steps :
       /\ IsItem(i) /\ ledger[i].state \in Unresolved
       /\ \E ext \in 0..items[i] : Submit("reconcile", i, ext)

\* BeginIdeationCommand counts the attempt; one attempt more than MaxStarts
\* ends the command without its handler.
Claim(r) ==
  /\ At("idle") /\ Pending(r)
  /\ LET tries == inbox[r].attempts + 1
         publishes == inbox[r].kind = "publish"
         spent == tries > MaxStarts
     IN /\ inbox' = [inbox EXCEPT ![r].state = "applying",
                       ![r].attempts = IF spent THEN @ ELSE tries]
        /\ job' = [NoJob EXCEPT !.req = r,
                     !.at = IF spent
                              THEN IF publishes THEN "settle" ELSE "complete"
                              ELSE IF publishes THEN "publish"
                                                ELSE "reconcile"]
  /\ UNCHANGED <<session, ledger, receipts, drifted, plan, tracker,
                 interrupts, misjudged, writesAfterCancel>>

\* A pass takes the commands in inbox order, so a later one starts only after
\* every pending earlier one was started and ended without an outcome.
ClaimSome ==
  \E r \in DOMAIN inbox :
    /\ \A q \in 1..(r - 1) : Pending(q) => inbox[q].attempts > 0
    /\ Claim(r)

Complete ==
  /\ At("complete")
  /\ inbox' = [inbox EXCEPT ![job.req].state = "completed"]
  /\ job' = NoJob
  /\ UNCHANGED <<session, ledger, receipts, drifted, plan, tracker,
                 interrupts, misjudged, writesAfterCancel>>

\* The first attempt of a resumed command recorded its result already.
SettledReconciliation ==
  /\ Running.attempts > 1
  /\ \/ session = "cancelled" /\ HasReceipt(job.req)
     \/ /\ session = "publication_incomplete"
        /\ IF Running.ext = 0
             THEN ledger[Running.about].state = "failed"
             ELSE ledger[Running.about] = NewRow("succeeded", Running.ext)

\* A command decided on an older page of the session is refused; a resumed
\* publication is not, because its first attempt already moved the session.
StalePage ==
  /\ \/ At("publish") /\ Running.attempts = 1
     \/ At("reconcile") /\ ~SettledReconciliation
  /\ Goto(IF At("publish") THEN "settle" ELSE "complete")
  /\ UNCHANGED <<store, drifted, plan, tracker, interrupts, misjudged,
                 writesAfterCancel>>

\* The cancel reads and writes the session in one inline command.
Cancel ==
  /\ session \in {"approved", "publishing", "publication_incomplete"}
  /\ session' = "cancelled"
  /\ UNCHANGED <<ledger, receipts, inbox, drifted, plan, job, tracker,
                 interrupts, misjudged, writesAfterCancel>>

-----------------------------------------------------------------------------
(* Publish *)

\* The preconditions, read from one history: a stored receipt of the attempt
\* ends it, a cancelled session may still lack its receipt, the state must
\* allow publication and the fresh rendering must match the approval.
PublishStage ==
  IF HasReceipt(job.req) THEN "complete"
  ELSE IF session = "cancelled" /\ LacksCancelledReceipt THEN "finish"
  ELSE IF session \notin {"approved", "publishing", "publication_incomplete"}
          \/ drifted THEN "settle"
  ELSE IF session = "publishing" THEN "plan" ELSE "start"

Publish ==
  /\ At("publish")
  /\ job' = [job EXCEPT !.at = PublishStage, !.saw = session]
  /\ UNCHANGED <<store, drifted, plan, tracker, interrupts, misjudged,
                 writesAfterCancel>>

StartPublication ==
  /\ At("start")
  /\ IF Unmoved
       THEN session' = "publishing" /\ Goto("plan")
       ELSE Goto("settle") /\ UNCHANGED session
  /\ UNCHANGED <<ledger, receipts, inbox, drifted, plan, tracker, interrupts,
                 misjudged, writesAfterCancel>>

\* Mutant: the ledger plans only the items.
StartItemLedger ==
  /\ At("plan")
  /\ ledger' = IF Planned THEN ledger
               ELSE [i \in {k \in Steps : IsItem(k)} |-> NewRow("pending", 0)]
  /\ Goto("next")
  /\ UNCHANGED <<session, receipts, inbox, drifted, plan, tracker, interrupts,
                 misjudged, writesAfterCancel>>

\* The ledger is planned once; a retry gets the stored rows.
StartPublicationLedger ==
  /\ At("plan")
  /\ ledger' = IF Planned THEN ledger
               ELSE [i \in Steps |-> NewRow("pending", 0)]
  /\ Goto("next")
  /\ UNCHANGED <<session, receipts, inbox, drifted, plan, tracker, interrupts,
                 misjudged, writesAfterCancel>>

Unfinished == {i \in Steps : ledger[i].state # "succeeded"}
\* Mutant: a retry goes on behind the operation that stopped the last pass.
NextUntried(i) ==
  LET untried == {k \in Unfinished : ledger[k].state = "pending"}
      left == IF untried = {} THEN Unfinished ELSE untried
  IN i \in left /\ \A k \in left : i <= k
NextUp(i) == i \in Unfinished /\ \A k \in Unfinished : i <= k

\* Mutant: the session is not read again before an operation.
NextOperationUnchecked ==
  /\ At("next")
  /\ \/ Unfinished = {} /\ Goto("finish")
     \/ \E i \in Steps : /\ NextUp(i)
                         /\ job' = [job EXCEPT !.at = "find", !.op = i]
  /\ UNCHANGED <<store, drifted, plan, tracker, interrupts, misjudged,
                 writesAfterCancel>>

\* The next operation of the pass, unless the session was cancelled.
NextOperation ==
  /\ At("next")
  /\ \/ (Unfinished = {} \/ session = "cancelled") /\ Goto("finish")
     \/ /\ session # "cancelled"
        /\ \E i \in Steps : /\ NextUp(i)
                            /\ job' = [job EXCEPT !.at = "find", !.op = i]
  /\ UNCHANGED <<store, drifted, plan, tracker, interrupts, misjudged,
                 writesAfterCancel>>

Record(state, ext) ==
  job' = [job EXCEPT !.at = "record", !.result = NewRow(state, ext)]

\* What a correlation lookup may find; a bounded one may miss older items.
Found(i) == IF BoundedLookup THEN SUBSET (1..items[i]) ELSE {1..items[i]}

FindPlanItems ==
  /\ At("find") /\ IsItem(job.op)
  /\ \E found \in Found(job.op) :
       CASE Cardinality(found) = 1 ->
              \E ext \in found : Record("succeeded", ext)
         [] Cardinality(found) > 1 -> Record("ambiguous", ledger[job.op].ext)
         [] found = {} /\ ledger[job.op].state \in Unresolved ->
              Record("ambiguous", ledger[job.op].ext)
         [] OTHER -> job' = [job EXCEPT !.at = "reserve"]
  /\ UNCHANGED <<store, drifted, plan, tracker, interrupts, misjudged,
                 writesAfterCancel>>

\* The recorded identity of the item of a node, 0 when it is not recorded.
Ref(node) ==
  LET made == {i \in Succeeded(ledger) : IsItem(i) /\ plan[i].node = node}
  IN IF made = {} THEN 0 ELSE ledger[CHOOSE i \in made : TRUE].ext

FromRef(i) == Ref(plan[i].from)
ToRef(i) == Ref(plan[i].to)
LinkOf(i) == <<i, FromRef(i), ToRef(i)>>

FindPlanRelationship ==
  /\ At("find") /\ ~IsItem(job.op)
  /\ IF FromRef(job.op) = 0 \/ ToRef(job.op) = 0 THEN Goto("finish")
     ELSE IF LinkOf(job.op) \in links THEN Record("succeeded", 0)
     ELSE job' = [job EXCEPT !.at = "reserve"]
  /\ UNCHANGED <<store, drifted, plan, tracker, interrupts, misjudged,
                 writesAfterCancel>>

\* A lookup fails, or the coordinator stops the pass before an operation.
PassStops ==
  /\ At("find") \/ At("next")
  /\ Goto("finish")
  /\ UNCHANGED <<store, drifted, plan, tracker, interrupts, misjudged,
                 writesAfterCancel>>

\* Mutant: the write is sent before its attempt is recorded.
ReserveLate ==
  /\ At("reserve")
  /\ job' = [job EXCEPT !.at = "create"]
  /\ UNCHANGED <<store, drifted, plan, tracker, interrupts, misjudged,
                 writesAfterCancel>>

\* The attempt is recorded before its write is sent.
Reserve ==
  /\ At("reserve")
  /\ RecordOperation(job.op, NewRow("attempted", ledger[job.op].ext))
  /\ job' = [job EXCEPT !.at = "create"]
  /\ writesAfterCancel' = IF session = "cancelled" THEN writesAfterCancel + 1
                                                   ELSE writesAfterCancel
  /\ UNCHANGED <<session, receipts, inbox, drifted, plan, tracker, interrupts,
                 misjudged>>

\* What a create may do to the tracker.
ApplyCreate ==
  IF IsItem(job.op)
    THEN /\ items' = [items EXCEPT ![job.op] = @ + 1]
         /\ UNCHANGED <<late, links>>
    ELSE /\ links' = links \cup {LinkOf(job.op)}
         /\ UNCHANGED <<items, late>>

DelayCreate ==
  /\ IsItem(job.op)
  /\ late' = late \cup {job.op}
  /\ UNCHANGED <<items, links>>

CreateSucceeds ==
  /\ At("create")
  /\ ApplyCreate
  /\ Record("succeeded", IF IsItem(job.op) THEN items[job.op] + 1 ELSE 0)
  /\ UNCHANGED <<store, drifted, plan, interrupts, misjudged,
                 writesAfterCancel>>

\* Only an error that proves that nothing changed is a failure.
CreateNotApplied ==
  /\ At("create")
  /\ Record("failed", ledger[job.op].ext)
  /\ UNCHANGED <<store, drifted, plan, tracker, interrupts, misjudged,
                 writesAfterCancel>>

CreateUnknown ==
  /\ At("create")
  /\ ApplyCreate \/ DelayCreate \/ UNCHANGED tracker
  /\ Record("ambiguous", ledger[job.op].ext)
  /\ UNCHANGED <<store, drifted, plan, interrupts, misjudged,
                 writesAfterCancel>>

\* A create that timed out is applied after all.
Deliver ==
  /\ \E i \in late : /\ items' = [items EXCEPT ![i] = @ + 1]
                     /\ late' = late \ {i}
  /\ UNCHANGED <<store, drifted, plan, job, links, interrupts, misjudged,
                 writesAfterCancel>>

RecordResult ==
  /\ At("record")
  /\ RecordOperation(job.op, job.result)
  /\ Goto(IF job.result.state = "succeeded" THEN "next" ELSE "finish")
  /\ UNCHANGED <<session, receipts, inbox, drifted, plan, tracker, interrupts,
                 misjudged, writesAfterCancel>>

\* A store failure inside the pass stops it, but the receipt is still tried.
PassStoreFails ==
  /\ At("next") \/ At("reserve") \/ At("record")
  /\ interrupts < MaxInterrupts
  /\ interrupts' = interrupts + 1
  /\ job' = [NoJob EXCEPT !.req = job.req, !.at = "finish", !.failed = TRUE]
  /\ UNCHANGED <<store, drifted, plan, tracker, misjudged, writesAfterCancel>>

-----------------------------------------------------------------------------
(* The receipt of an attempt *)

Finish ==
  /\ At("finish")
  /\ job' = [job EXCEPT !.at = "receipt", !.saw = session]
  /\ UNCHANGED <<store, drifted, plan, tracker, interrupts, misjudged,
                 writesAfterCancel>>

SessionAfter(receipt) ==
  IF receipt.outcome = "published" THEN "published"
                                   ELSE "publication_incomplete"

\* After the receipt a pass without store failure ends its command, and so
\* does Interrupt; otherwise the command stays applying.
RecordReceipt ==
  /\ At("receipt") /\ job.saw # "cancelled"
  /\ IF Unmoved /\ ~HasReceipt(job.req)
       THEN LET receipt == ReceiptFromLedger(job.req)
            IN /\ receipts' = receipts \cup {receipt}
               /\ session' = SessionAfter(receipt)
               /\ IF job.failed THEN Abort ELSE Goto("complete")
       ELSE /\ IF job.failed \/ job.settling THEN Abort ELSE Goto("settle")
            /\ UNCHANGED <<session, receipts>>
  /\ UNCHANGED <<ledger, inbox, drifted, plan, tracker, interrupts, misjudged,
                 writesAfterCancel>>

\* A cancelled session stays cancelled; its attempt records what exists.
FinishCancelled ==
  /\ At("receipt") /\ job.saw = "cancelled"
  /\ receipts' = IF Planned /\ ~HasReceipt(job.req)
                   THEN receipts \cup
                        {[ReceiptFromLedger(job.req)
                            EXCEPT !.outcome = "incomplete"]}
                   ELSE receipts
  /\ IF job.failed \/ job.settling THEN Abort ELSE Goto("settle")
  /\ UNCHANGED <<session, ledger, inbox, drifted, plan, tracker, interrupts,
                 misjudged, writesAfterCancel>>

\* Mutant: the command completes without settling its publication.
CompleteUnsettled ==
  /\ At("settle")
  /\ Goto("complete")
  /\ UNCHANGED <<store, drifted, plan, tracker, interrupts, misjudged,
                 writesAfterCancel>>

\* A publishing command that ended without success leaves no session
\* publishing: Interrupt finishes the attempt from the ledger.
SettlePublication ==
  /\ At("settle")
  /\ IF session = "publishing"
       THEN job' = [job EXCEPT !.at = "finish", !.settling = TRUE]
       ELSE Goto("complete")
  /\ UNCHANGED <<store, drifted, plan, tracker, interrupts, misjudged,
                 writesAfterCancel>>

-----------------------------------------------------------------------------
(* Reconcile *)

MayReconcile ==
  /\ session \in {"publication_incomplete", "cancelled"}
  /\ ledger[Running.about].state \in Unresolved

Reconcile ==
  /\ At("reconcile")
  /\ job' = [job EXCEPT
               !.at = IF ~SettledReconciliation /\ MayReconcile
                        THEN "lookup" ELSE "complete",
               !.op = Running.about,
               !.saw = session]
  /\ UNCHANGED <<store, drifted, plan, tracker, interrupts, misjudged,
                 writesAfterCancel>>

\* A choice that the fresh lookup contradicts is refused, and so is every
\* choice when the lookup fails.
LookupCandidates ==
  /\ At("lookup")
  /\ \/ \E found \in Found(job.op) :
          IF Running.ext = 0
            THEN IF found = {} THEN
                   job' = [job EXCEPT !.at = "resolve",
                             !.result = NewRow("failed", ledger[job.op].ext)]
                 ELSE Goto("complete")
            ELSE IF Running.ext \in found THEN
                   job' = [job EXCEPT !.at = "resolve",
                             !.result = NewRow("succeeded", Running.ext)]
                 ELSE Goto("complete")
     \/ Goto("complete")
  /\ UNCHANGED <<store, drifted, plan, tracker, interrupts, misjudged,
                 writesAfterCancel>>

\* An incomplete publication writes only the ledger row; a cancelled session
\* records the row and an incomplete receipt in one transaction.
RecordReconciliation ==
  /\ At("resolve")
  /\ RecordOperation(job.op, job.result)
  /\ receipts' = IF job.saw = "cancelled"
                   THEN receipts \cup
                        {[id |-> job.req, outcome |-> "incomplete",
                          lists |-> Succeeded(ledger')]}
                   ELSE receipts
  /\ misjudged' = IF job.result.state = "failed"
                     /\ (items[job.op] > 0 \/ job.op \in late)
                    THEN misjudged \cup {job.op} ELSE misjudged
  /\ Goto("complete")
  /\ UNCHANGED <<session, inbox, drifted, plan, tracker, interrupts,
                 writesAfterCancel>>

-----------------------------------------------------------------------------
(* The environment and the specification *)

\* The process stops, or a store call outside the pass fails: the command
\* stays applying.  A create that was being sent may have reached the tracker.
Interrupt ==
  /\ ~At("idle")
  /\ interrupts < MaxInterrupts
  /\ interrupts' = interrupts + 1
  /\ Abort
  /\ UNCHANGED tracker \/ (At("create") /\ (ApplyCreate \/ DelayCreate))
  /\ UNCHANGED <<store, drifted, plan, misjudged, writesAfterCancel>>

\* The tracker configuration changes, or is restored.
Drift ==
  /\ drifted' = ~drifted
  /\ UNCHANGED <<store, plan, job, tracker, interrupts, misjudged,
                 writesAfterCancel>>

Init ==
  /\ session = "approved"
  /\ drifted = FALSE
  /\ plan \in Plans
  /\ ledger = NoLedger
  /\ receipts = {}
  /\ inbox = <<>>
  /\ job = NoJob
  /\ items = [i \in Steps |-> 0]
  /\ late = {}
  /\ links = {}
  /\ interrupts = 0
  /\ misjudged = {}
  /\ writesAfterCancel = 0

JobStep ==
  \/ Complete \/ StalePage \/ Publish \/ StartPublication
  \/ StartPublicationLedger \/ NextOperation \/ FindPlanItems
  \/ FindPlanRelationship \/ PassStops \/ Reserve \/ CreateSucceeds
  \/ CreateNotApplied \/ CreateUnknown \/ RecordResult \/ Finish
  \/ RecordReceipt \/ FinishCancelled \/ SettlePublication \/ Reconcile
  \/ LookupCandidates \/ RecordReconciliation

Next ==
  \/ SubmitPublish \/ SubmitReconcile \/ Cancel
  \/ ClaimSome \/ JobStep
  \/ PassStoreFails \/ Interrupt
  \/ Deliver \/ Drift

\* The inbox is drained every second, and a claimed command runs on unless
\* the process stops.  Nothing is promised about people, about lost creates
\* or about which of several pending commands a pass takes.
Fairness == WF_vars(ClaimSome) /\ WF_vars(JobStep)

Spec == Init /\ [][Next]_vars /\ Fairness

-----------------------------------------------------------------------------
(* Properties *)

Made(i) == items[i] + (IF i \in late THEN 1 ELSE 0)

\* No item is created twice, whatever is lost, late or interrupted and even
\* when a lookup misses the item, unless a person confirmed an absence that
\* was none (createItem stops on every unknown outcome).
CreatedOnce == \A i \in Steps \ misjudged : Made(i) <= 1

\* No created item is forgotten: until a person decides otherwise, its row
\* says that it exists or may exist, so a later lookup can still adopt it
\* (reserve records the attempt before the write is sent).
NothingForgotten ==
  \A i \in Steps \ misjudged : Made(i) > 0 =>
    Planned /\ ledger[i].state \in {"attempted", "ambiguous", "succeeded"}

\* An item is created only after the items it needs are recorded with their
\* identities, and a relationship only ever joins two recorded items.
NeedsComeFirst ==
  /\ \A j \in Steps : ~IsItem(j) =>
       \A f \in Steps : (IsItem(f) /\ plan[f].node = plan[j].from
                         /\ Made(f) > 0) => ToRef(j) # 0
  /\ \A l \in links : l[2] = FromRef(l[1]) /\ l[2] # 0
                      /\ l[3] = ToRef(l[1]) /\ l[3] # 0

\* A published session is published completely: every recorded item and
\* relationship is in the tracker, and a receipt lists all of them.
PublishedIsComplete ==
  session = "published" =>
    /\ Planned
    /\ \A i \in Steps :
         /\ ledger[i].state = "succeeded"
         /\ IF IsItem(i) THEN ledger[i].ext \in 1..items[i]
                         ELSE LinkOf(i) \in links
    /\ \E r \in receipts : r.outcome = "published" /\ r.lists = Steps

\* Cancelling stops before the next write: beside the one create that was
\* already on its way when the session was cancelled, none is reserved.
CancelStopsWrites == writesAfterCancel <= 1

\* A session is publishing only while a publishing command is still to end,
\* so a person is never left with a publication nobody continues or settles.
PublishingHasOwner ==
  session = "publishing" =>
    \E r \in DOMAIN inbox : inbox[r].kind = "publish" /\ Pending(r)

\* A publication never stays in progress for ever: it completes, becomes
\* incomplete, or is cancelled (settlePublication).
PublishingEnds == (session = "publishing") ~> (session # "publishing")

=============================================================================
