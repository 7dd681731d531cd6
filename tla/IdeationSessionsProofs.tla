----------------------- MODULE IdeationSessionsProofs -----------------------
(***************************************************************************)
(* Theorems about an ideation session, for every number of commands,       *)
(* invocations, attempts, faults and stops: types; one role at work where  *)
(* one was asked for; an approval binds what was reviewed; a closed        *)
(* session is frozen; no role process is left behind, and no cleanup takes *)
(* the worker of an active one.                                            *)
(***************************************************************************)
EXTENDS IdeationSessions, TLAPS, FiniteSetTheorems, WellFoundedInduction

-----------------------------------------------------------------------------
(* Who holds commandMu, and what the operation under it is about *)

Launching == {"snapshot", "insert", "worker", "process", "reveal", "record"}
Looking   == {"look", "inspect", "recheck", "adopt", "accept"}
Ending    == {"release", "releasing", "closing"}
Cleaning  == {"stop", "clean", "dirty", "mark"}

\* The operation belongs to the thread that began it and waits for it.
Holder ==
  /\ task.by = "none" <=> task = NoTask
  /\ task.at = "free" => task.by = "none"
  /\ task.at = "held" => task = Between /\ poll.at = "next"
  /\ task.by = "poll" <=> poll.at # "idle"
  /\ poll.at = "next" => task = Between
  /\ poll.at = "idle" => poll = NoPass
  /\ task.by = "loop" => loop.at \in {"role", "stop"}
  /\ task.at \in Launching => task.by = "loop" /\ loop.at = "role"
  /\ task.at \in Looking => task.by = "poll"

\* The invocation it is about.
About ==
  /\ task.at = "insert" => task.inv \in Ids \ Rows
  /\ task.at \in (Launching \ {"snapshot", "insert"}) \cup Looking \cup Ending => task.inv \in Active
  /\ task.at \in Cleaning => task.inv \in Rows \ Active
  /\ task.at = "closing" => invs[task.inv].rev < sess.rev
  /\ task.at \in Ending => task.status \in Ends

\* What a pass still has to do.
PassKnows ==
  /\ poll.todo \subseteq Rows \ Active
  /\ poll.act # 0 /\ task.inv # poll.act => poll.act \in Active
  /\ poll.at = "busy" => \/ task.inv = poll.act /\ poll.todo = {}
                         \/ task.inv \in poll.todo /\ task.at \in Cleaning
  /\ poll.todo # {} \/ poll.at = "busy" => Active \subseteq {poll.act}
  /\ task.by = "loop" /\ task.at \in Cleaning => Active = {}

\* Every row names a role, an active one is not yet released, and only one is
\* active (store.go StartSessionInvocation).
RolesKnown == \A v \in Rows : invs[v].role \in Roles
Unended    == \A v \in Active : ~invs[v].released
OneActive  == \A v, w \in Active : v = w

\* session_roles.go commandMu: what the operation under the lock knows stays
\* true until it writes it, whatever the command loop and the tracker command do.
HoldInv == Holder /\ About /\ PassKnows /\ RolesKnown /\ Unended /\ OneActive

-----------------------------------------------------------------------------
(* What revisions pin *)

\* An invocation is pinned to the revision that its start made, or older.
RowsPinned ==
  \A v \in Rows : /\ invs[v].rev <= sess.rev
                  /\ invs[v].rev = sess.rev => sess.state = "role_active"

\* What approve and startPublication read before they write: either the row has
\* moved on since, or it is as they saw it (handlers.go approve, publish.go).
WorkPinned ==
  /\ bg.at # "idle" => bg.cmd \in DOMAIN inbox
  /\ bg.at = "approve" => /\ bg.saw <= sess.rev
                          /\ bg.saw = sess.rev => sess.state = "draft_review"
  /\ bg.at = "start" => /\ bg.saw <= sess.rev
                        /\ bg.saw = sess.rev => /\ sess.state \in {"approved", "incomplete"}
                                                /\ sess.approval # 0

\* A session that does not exist has no revision.
Uncreated == sess.state = "none" => sess.rev = 0

\* Every write is guarded by the revision that its reader saw.
PinInv == RowsPinned /\ WorkPinned /\ Uncreated

-----------------------------------------------------------------------------
(* What starts a role *)

\* handlers.go startedRole: a row was inserted for the command.
Started(i) == \E v \in Rows : invs[v].trigger = i

\* Only a command that was begun is a trigger, and one that the loop takes up
\* for the first time, or launches a role for, has started none.
TriggerInv ==
  /\ \A v \in Rows : invs[v].trigger # 0 =>
       invs[v].trigger \in DOMAIN inbox /\ inbox[invs[v].trigger].attempts >= 1
  /\ loop.at # "idle" => loop.cmd \in DOMAIN inbox /\ inbox[loop.cmd].attempts >= 1
  /\ loop.at = "begun" /\ inbox[loop.cmd].attempts = 1 => ~Started(loop.cmd)
  /\ loop.at = "role" /\ (task.by # "loop" \/ task.at \in {"snapshot", "insert"}) => ~Started(loop.cmd)

-----------------------------------------------------------------------------
(* What still runs *)

\* A worker that is taken for stopped serves nobody, or an active invocation.
Cleaned ==
  task.at \in {"clean", "mark"} =>
    \/ box[Mine(task.inv)] = 0
    \/ \E w \in Active : invs[w].role = invs[task.inv].role

\* session_roles.go releaseResources, retryResourceRelease: what a cleanup has
\* found stopped stays stopped until the row is marked.
LiveInv == NoOrphanProcess /\ Cleaned

\* The inductive invariant: every part of it is needed to keep another one.
SessionInv == /\ TypeOK /\ HoldInv /\ PinInv /\ TriggerInv
              /\ OneRoleAtWork /\ ApprovalBindsReviewed /\ LiveInv

-----------------------------------------------------------------------------
(* The table of the lifecycle *)

LEMMA RuleIs ==
  ASSUME NEW F, NEW e, NEW n, NEW t \in Rule(F, e, n)
  PROVE  t.from \in F /\ t.on = e /\ t.to = n
BY DEF Rule

\* Where each event leads, and from where it is allowed.
Leads(t) ==
  /\ t.on = "turn_accepted" => t.from = "awaiting_user" /\ t.to = "awaiting_user"
  /\ t.on = "edited" =>
       \/ t.from = "awaiting_user" /\ t.to = "awaiting_user"
       \/ t.from \in {"draft_review", "approved"} /\ t.to = "draft_review"
  /\ t.on = "role_awaits_user" => t.from = "role_active" /\ t.to = "awaiting_user"
  /\ t.on \in {"plan_drafted", "draft_kept"} => t.from = "role_active" /\ t.to = "draft_review"
  /\ t.on = "approved" => t.from = "draft_review" /\ t.to = "approved"
  /\ t.on = "defer" => t.to = "deferred"
  /\ t.on = "investigation_needed" => t.to = "investigation"
  /\ t.on = "resumed" => t.to = "awaiting_user"
  /\ t.on = "review_resumed" => t.to = "draft_review"
  /\ t.on = "approval_resumed" => t.from = "deferred" /\ t.to = "approved"
  /\ t.on = "publication_started" =>
       t.from \in {"approved", "publishing", "incomplete"} /\ t.to = "publishing"
  /\ t.on = "publication_incomplete" => t.from = "publishing" /\ t.to = "incomplete"
  /\ t.on = "publication_completed" => t.from = "publishing" /\ t.to = "published"
  /\ t.on = "no_build" => t.to = "no_build"
  /\ t.on = "cancel" => t.to = "cancelled"
  /\ t.on = "reconciled" => t.from = "cancelled" /\ t.to = "cancelled"
  /\ t.from # "none" /\ t.to # "none" /\ (t.on # "role_started" => t.to # "role_active")

LEMMA TableLeads ==
  ASSUME NEW t \in transitions
  PROVE  Leads(t)
<1>1. PICK F, e, n : t \in Rule(F, e, n)
                     /\ \/ e = "turn_accepted" /\ F = {"awaiting_user"} /\ n = "awaiting_user"
                        \/ e = "edited" /\ F = {"awaiting_user"} /\ n = "awaiting_user"
                        \/ e = "edited" /\ F = {"draft_review", "approved"} /\ n = "draft_review"
                        \/ e = "role_started" /\ F = {"awaiting_user", "draft_review"} /\ n = "role_active"
                        \/ e = "role_awaits_user" /\ F = {"role_active"} /\ n = "awaiting_user"
                        \/ e = "plan_drafted" /\ F = {"role_active"} /\ n = "draft_review"
                        \/ e = "draft_kept" /\ F = {"role_active"} /\ n = "draft_review"
                        \/ e = "approved" /\ F = {"draft_review"} /\ n = "approved"
                        \/ e = "defer" /\ F = {"awaiting_user", "draft_review", "approved"} /\ n = "deferred"
                        \/ e = "investigation_needed" /\ F = {"awaiting_user", "draft_review"}
                           /\ n = "investigation"
                        \/ e = "resumed" /\ F = {"deferred", "investigation"} /\ n = "awaiting_user"
                        \/ e = "review_resumed" /\ F = {"deferred"} /\ n = "draft_review"
                        \/ e = "approval_resumed" /\ F = {"deferred"} /\ n = "approved"
                        \/ e = "publication_started" /\ F = {"approved", "publishing", "incomplete"}
                           /\ n = "publishing"
                        \/ e = "publication_incomplete" /\ F = {"publishing"} /\ n = "incomplete"
                        \/ e = "publication_completed" /\ F = {"publishing"} /\ n = "published"
                        \/ e = "no_build" /\ F = {"awaiting_user", "role_active", "draft_review",
                                                  "approved", "deferred", "investigation"}
                           /\ n = "no_build"
                        \/ e = "cancel" /\ F = {"awaiting_user", "role_active", "draft_review", "approved",
                                                "publishing", "incomplete", "deferred", "investigation"}
                           /\ n = "cancelled"
                        \/ e = "reconciled" /\ F = {"cancelled"} /\ n = "cancelled"
  BY SMTT(60) DEF transitions
<1>2. t.from \in F /\ t.on = e /\ t.to = n
  BY <1>1, RuleIs
<1> QED
  BY <1>1, <1>2 DEF Leads

\* What a step of the table leaves.
LEMMA StepLeads ==
  ASSUME NEW s, NEW e, Allowed(s, e)
  PROVE  \E t \in transitions : /\ t.from = s /\ t.on = e /\ t.to = Next1(s, e)
                                /\ Leads(t) /\ t.to \in States
<1>1. PICK u \in transitions : u.from = s /\ u.on = e
  BY DEF Allowed
<1> DEFINE t == CHOOSE w \in transitions : w.from = s /\ w.on = e
<1>2. t \in transitions /\ t.from = s /\ t.on = e
  BY <1>1
<1>3. Next1(s, e) = t.to
  BY DEF Next1
<1>4. Leads(t)
  BY <1>2, TableLeads
<1>5. t.to \in States
  BY <1>2 DEF States
<1> QED
  BY <1>2, <1>3, <1>4, <1>5

\* The steps the code takes without asking the table.
LEMMA AlwaysAllowed ==
  /\ Allowed("role_active", "role_awaits_user") /\ Allowed("role_active", "plan_drafted")
  /\ Allowed("role_active", "draft_kept") /\ Allowed("draft_review", "approved")
  /\ Allowed("approved", "publication_started") /\ Allowed("incomplete", "publication_started")
  /\ Allowed("publishing", "publication_incomplete") /\ Allowed("publishing", "publication_completed")
  /\ Allowed("cancelled", "reconciled")
<1> DEFINE T(f, e, n) == [from |-> f, on |-> e, to |-> n]
<1>1. ASSUME NEW f, NEW e, NEW n, T(f, e, n) \in transitions PROVE Allowed(f, e)
  BY <1>1 DEF Allowed
<1>2. ASSUME NEW F, NEW f \in F, NEW e, NEW n PROVE T(f, e, n) \in Rule(F, e, n)
  BY DEF Rule
<1>3. /\ Rule({"role_active"}, "role_awaits_user", "awaiting_user") \subseteq transitions
      /\ Rule({"role_active"}, "plan_drafted", "draft_review") \subseteq transitions
      /\ Rule({"role_active"}, "draft_kept", "draft_review") \subseteq transitions
  BY DEF transitions
<1>4. /\ Rule({"draft_review"}, "approved", "approved") \subseteq transitions
      /\ Rule({"approved", "publishing", "incomplete"}, "publication_started", "publishing") \subseteq transitions
      /\ Rule({"cancelled"}, "reconciled", "cancelled") \subseteq transitions
  BY DEF transitions
<1>5. /\ Rule({"publishing"}, "publication_incomplete", "incomplete") \subseteq transitions
      /\ Rule({"publishing"}, "publication_completed", "published") \subseteq transitions
  BY DEF transitions
<1> HIDE DEF T
<1>6. /\ T("role_active", "role_awaits_user", "awaiting_user") \in transitions
      /\ T("role_active", "plan_drafted", "draft_review") \in transitions
      /\ T("role_active", "draft_kept", "draft_review") \in transitions
  BY <1>2, <1>3
<1>7. /\ T("draft_review", "approved", "approved") \in transitions
      /\ T("approved", "publication_started", "publishing") \in transitions
      /\ T("incomplete", "publication_started", "publishing") \in transitions
      /\ T("cancelled", "reconciled", "cancelled") \in transitions
  BY <1>2, <1>4
<1>8. /\ T("publishing", "publication_incomplete", "incomplete") \in transitions
      /\ T("publishing", "publication_completed", "published") \in transitions
  BY <1>2, <1>5
<1> QED
  BY <1>1, <1>6, <1>7, <1>8

\* The states of a session, by name.
LEMMA NamedStates ==
  /\ {"none", "awaiting_user", "role_active", "draft_review", "approved", "deferred", "publishing",
      "incomplete", "published", "cancelled"} \subseteq States
<1> DEFINE T(f, e, n) == [from |-> f, on |-> e, to |-> n]
<1>1. ASSUME NEW f, NEW e, Allowed(f, e) PROVE f \in States
  BY <1>1 DEF Allowed, States
<1>2. {"role_active", "draft_review", "approved", "incomplete", "publishing", "cancelled"} \subseteq States
  BY <1>1, AlwaysAllowed
<1>3. {T("deferred", "resumed", "awaiting_user"),
       T("publishing", "publication_completed", "published")} \subseteq transitions
  <2>1. /\ Rule({"deferred", "investigation"}, "resumed", "awaiting_user") \subseteq transitions
        /\ Rule({"publishing"}, "publication_completed", "published") \subseteq transitions
    BY DEF transitions
  <2> QED
    BY <2>1 DEF Rule
<1>4. {"deferred", "awaiting_user", "published"} \subseteq States
  BY <1>3 DEF States
<1> QED
  BY <1>2, <1>4 DEF States

-----------------------------------------------------------------------------
(* Data *)

LEMMA LeastNumber ==
  ASSUME NEW T \in SUBSET Nat, T # {}
  PROVE  \E x \in T : \A y \in T : x <= y
<1> DEFINE I == {0..n : n \in T}
<1>1. I \subseteq FiniteSubsetsOf(Nat)
  <2> SUFFICES ASSUME NEW n \in T PROVE 0..n \in FiniteSubsetsOf(Nat)
    OBVIOUS
  <2>1. IsFiniteSet(0..n)
    BY FS_Interval
  <2> QED
    BY <2>1 DEF FiniteSubsetsOf
<1>2. I # {}
  OBVIOUS
<1>3. PICK x \in I : \A y \in I : ~(<<y, x>> \in StrictSubsetOrdering(Nat))
  <2> HIDE DEF I
  <2> QED
    BY <1>1, <1>2, FS_StrictSubsetOrderingWellFounded, WFMin
<1>4. PICK m \in T : x = 0..m
  BY <1>3
<1>5. ASSUME NEW y \in T, ~(m <= y) PROVE FALSE
  <2>1. 0..y \in SUBSET Nat /\ 0..m \in SUBSET Nat /\ 0..y \subseteq 0..m
    BY <1>5
  <2>2. m \in 0..m /\ m \notin 0..y
    BY <1>5
  <2>3. <<0..y, 0..m>> \in StrictSubsetOrdering(Nat)
    BY <2>1, <2>2 DEF StrictSubsetOrdering
  <2> QED
    BY <1>3, <1>4, <2>3
<1> QED
  BY <1>5

LEMMA LeastIs ==
  ASSUME NEW S \in SUBSET Ids, S # {}
  PROVE  Least(S) \in S
<1>1. S \in SUBSET Nat
  BY SessionAssumption DEF Ids
<1>2. \E v \in S : \A w \in S : v <= w
  BY <1>1, LeastNumber
<1> QED
  BY <1>2 DEF Least

LEMMA GreatestNumber ==
  ASSUME NEW S \in SUBSET Ids, S # {}
  PROVE  \E v \in S : \A w \in S : w <= v
<1>1. MaxIds \in Nat /\ \A v \in S : v \in 1..MaxIds
  BY SessionAssumption DEF Ids
<1> DEFINE T == {MaxIds - v : v \in S}
<1>2. T \in SUBSET Nat /\ T # {}
  BY <1>1
<1>3. PICK x \in T : \A y \in T : x <= y
  BY <1>2, LeastNumber
<1>4. PICK v \in S : x = MaxIds - v
  OBVIOUS
<1>5. ASSUME NEW w \in S PROVE w <= v
  <2>1. MaxIds - w \in T
    OBVIOUS
  <2>2. MaxIds - v <= MaxIds - w
    BY <1>3, <1>4, <2>1
  <2> QED
    BY <1>1, <2>2
<1> QED
  BY <1>5

LEMMA ResumableIs ==
  ASSUME NEW role
  PROVE  resumableInvocation(role) \in 0..MaxIds
<1> DEFINE mine == {v \in Rows : /\ invs[v].role = role
                                 /\ invs[v].lost \/ (invs[v].status = "accepted" /\ invs[v].native # 0)}
           last == CHOOSE v \in mine : \A w \in mine : w <= v
<1>1. mine \in SUBSET Ids
  BY DEF Rows
<1>2. mine # {} => last \in mine
  BY <1>1, GreatestNumber
<1>3. resumableInvocation(role) \in {0} \cup (IF mine = {} THEN {} ELSE {last})
  BY DEF resumableInvocation
<1> HIDE DEF mine, last
<1>4. Ids \subseteq 0..MaxIds /\ 0 \in 0..MaxIds
  BY SessionAssumption DEF Ids
<1> QED
  BY <1>1, <1>2, <1>3, <1>4

LEMMA SeqExcept ==
  ASSUME NEW S, NEW s \in Seq(S), NEW i, NEW x, i \in DOMAIN s => x \in S
  PROVE  /\ [s EXCEPT ![i] = x] \in Seq(S)
         /\ Len([s EXCEPT ![i] = x]) = Len(s) /\ DOMAIN [s EXCEPT ![i] = x] = DOMAIN s
         /\ \A j \in DOMAIN s : [s EXCEPT ![i] = x][j] = IF j = i THEN x ELSE s[j]
<1> DEFINE t == [s EXCEPT ![i] = x]
<1>1. DOMAIN s = 1..Len(s) /\ Len(s) \in Nat /\ \A j \in DOMAIN s : s[j] \in S
  OBVIOUS
<1>2. DOMAIN t = 1..Len(s) /\ \A j \in DOMAIN s : t[j] = IF j = i THEN x ELSE s[j]
  BY <1>1
<1>3. t \in [1..Len(s) -> S]
  BY <1>1, <1>2
<1>4. t \in Seq(S)
  BY <1>1, <1>3
<1>5. Len(t) = Len(s)
  BY <1>1, <1>2, <1>4
<1> QED
  BY <1>1, <1>2, <1>4, <1>5

LEMMA SeqAppend ==
  ASSUME NEW S, NEW s \in Seq(S), NEW x \in S
  PROVE  /\ Append(s, x) \in Seq(S) /\ Len(Append(s, x)) = Len(s) + 1
         /\ DOMAIN s \subseteq DOMAIN Append(s, x)
         /\ DOMAIN Append(s, x) = DOMAIN s \cup {Len(s) + 1}
         /\ \A j \in DOMAIN s : Append(s, x)[j] = s[j]
         /\ Append(s, x)[Len(s) + 1] = x
OBVIOUS

-----------------------------------------------------------------------------
(* What is written *)

\* Commands are only added, and what they ask for never changes.
Extends(box1, box2) ==
  /\ Len(box1) <= Len(box2) /\ DOMAIN box1 \subseteq DOMAIN box2
  /\ \A j \in DOMAIN box1 : /\ box2[j].kind = box1[j].kind
                            /\ box1[j].attempts <= box2[j].attempts

InboxType == inbox \in Seq(CommandType) /\ Len(inbox) <= MaxRequests

LEMMA InboxDomain ==
  ASSUME InboxType
  PROVE  DOMAIN inbox = 1..Len(inbox) /\ DOMAIN inbox \subseteq Requests /\ Len(inbox) \in Nat
         /\ \A i \in DOMAIN inbox : inbox[i] \in CommandType
BY SessionAssumption DEF InboxType, Requests

LEMMA CompletedIs ==
  ASSUME InboxType, NEW i, NEW outcome \in Outcomes
  PROVE  /\ Completed(i, outcome) \in Seq(CommandType)
         /\ Len(Completed(i, outcome)) = Len(inbox)
         /\ DOMAIN Completed(i, outcome) = DOMAIN inbox
         /\ Extends(inbox, Completed(i, outcome))
         /\ \A j \in DOMAIN inbox : Completed(i, outcome)[j].attempts = inbox[j].attempts
<1> DEFINE x == [inbox[i] EXCEPT !.outcome = outcome]
           new == [inbox EXCEPT ![i] = x]
<1>1. i \in DOMAIN inbox => x \in CommandType /\ x.kind = inbox[i].kind /\ x.attempts = inbox[i].attempts
  BY InboxDomain DEF CommandType
<1>2. /\ new \in Seq(CommandType) /\ Len(new) = Len(inbox) /\ DOMAIN new = DOMAIN inbox
      /\ \A j \in DOMAIN inbox : new[j] = IF j = i THEN x ELSE inbox[j]
  BY <1>1, SeqExcept DEF InboxType
<1>3. \A j \in DOMAIN inbox : inbox[j].attempts \in Nat
  BY InboxDomain DEF CommandType
<1>4. Completed(i, outcome) \in {new, inbox}
  BY DEF Completed
<1>5. ASSUME NEW b \in {new, inbox}
      PROVE  /\ b \in Seq(CommandType) /\ Len(b) = Len(inbox) /\ DOMAIN b = DOMAIN inbox
             /\ \A j \in DOMAIN inbox : b[j].kind = inbox[j].kind /\ b[j].attempts = inbox[j].attempts
  <2> HIDE DEF x, new
  <2> QED
    BY <1>1, <1>2, <1>5 DEF InboxType
<1> QED
  <2> DEFINE c == Completed(i, outcome)
  <2>1. /\ c \in Seq(CommandType) /\ Len(c) = Len(inbox) /\ DOMAIN c = DOMAIN inbox
        /\ \A j \in DOMAIN inbox : c[j].kind = inbox[j].kind /\ c[j].attempts = inbox[j].attempts
    BY <1>4, <1>5
  <2> HIDE DEF c
  <2>2. Extends(inbox, c)
    BY <1>3, <2>1, InboxDomain DEF Extends
  <2> QED
    BY <2>1, <2>2 DEF c

LEMMA BegunIs ==
  ASSUME InboxType, NEW i \in DOMAIN inbox
  PROVE  /\ Begun(i) \in Seq(CommandType)
         /\ Len(Begun(i)) = Len(inbox) /\ DOMAIN Begun(i) = DOMAIN inbox
         /\ Extends(inbox, Begun(i))
         /\ \A j \in DOMAIN inbox \ {i} : Begun(i)[j].attempts = inbox[j].attempts
         /\ Begun(i)[i].attempts = inbox[i].attempts + 1 /\ inbox[i].attempts \in Nat
<1> DEFINE x == [inbox[i] EXCEPT !.attempts = @ + 1]
           new == [inbox EXCEPT ![i] = x]
<1>1. /\ x \in CommandType /\ x.kind = inbox[i].kind /\ x.attempts = inbox[i].attempts + 1
      /\ inbox[i].attempts \in Nat
  BY InboxDomain DEF CommandType
<1>2. /\ new \in Seq(CommandType) /\ Len(new) = Len(inbox) /\ DOMAIN new = DOMAIN inbox
      /\ \A j \in DOMAIN inbox : new[j] = IF j = i THEN x ELSE inbox[j]
  BY <1>1, SeqExcept DEF InboxType
<1>3. \A j \in DOMAIN inbox : inbox[j].attempts \in Nat
  BY InboxDomain DEF CommandType
<1>4. Begun(i) = new
  BY DEF Begun
<1> HIDE DEF x, new
<1> QED
  BY <1>1, <1>2, <1>3, <1>4, InboxDomain DEF Extends

LEMMA SessionIs ==
  ASSUME NEW s \in SessionType
  PROVE  /\ s.state \in States /\ s.rev \in Nat /\ s.brief \in Nat /\ s.ledger \in BOOLEAN
         /\ s.approval \in 0..MaxRequests
BY DEF SessionType

\* The row s moved, revised and approved.
Moved(s, n, r)   == [s EXCEPT !.state = n, !.rev = r]
Revised(s, b, a) == [s EXCEPT !.brief = b, !.approval = a]
Rebound(s, a)    == [s EXCEPT !.approval = a]

LEMMA SessionMoved ==
  ASSUME NEW s \in SessionType, NEW n \in States, NEW r \in Nat,
         NEW t, t = Moved(s, n, r)
  PROVE  /\ t \in SessionType /\ t.state = n /\ t.rev = r
         /\ t.brief = s.brief /\ t.approval = s.approval /\ t.ledger = s.ledger
<1>1. t \in SessionType
  BY DEF SessionType, Moved, Revised, Rebound
<1>2. t.state = n /\ t.rev = r /\ t.brief = s.brief
  BY DEF SessionType, Moved, Revised, Rebound
<1>3. t.approval = s.approval /\ t.ledger = s.ledger
  BY DEF SessionType, Moved, Revised, Rebound
<1> QED
  BY <1>1, <1>2, <1>3

LEMMA SessionRevised ==
  ASSUME NEW s \in SessionType, NEW b \in Nat, NEW a \in 0..MaxRequests,
         NEW t, t = Revised(s, b, a)
  PROVE  /\ t \in SessionType /\ t.brief = b /\ t.approval = a
         /\ t.state = s.state /\ t.rev = s.rev /\ t.ledger = s.ledger
<1>1. t \in SessionType
  BY DEF SessionType, Moved, Revised, Rebound
<1>2. t.brief = b /\ t.approval = a /\ t.state = s.state
  BY DEF SessionType, Moved, Revised, Rebound
<1>3. t.rev = s.rev /\ t.ledger = s.ledger
  BY DEF SessionType, Moved, Revised, Rebound
<1> QED
  BY <1>1, <1>2, <1>3

LEMMA SessionApproved ==
  ASSUME NEW s \in SessionType, NEW a \in 0..MaxRequests,
         NEW t, t = Rebound(s, a)
  PROVE  /\ t \in SessionType /\ t.approval = a /\ t.brief = s.brief
         /\ t.state = s.state /\ t.rev = s.rev /\ t.ledger = s.ledger
<1>1. t \in SessionType
  BY DEF SessionType, Moved, Revised, Rebound
<1>2. t.approval = a /\ t.brief = s.brief /\ t.state = s.state
  BY DEF SessionType, Moved, Revised, Rebound
<1>3. t.rev = s.rev /\ t.ledger = s.ledger
  BY DEF SessionType, Moved, Revised, Rebound
<1> QED
  BY <1>1, <1>2, <1>3

LEMMA WrittenIs ==
  ASSUME sess \in SessionType, NEW event, Allowed(sess.state, event)
  PROVE  /\ Written(event) \in SessionType /\ Written(event).rev = sess.rev + 1
         /\ Written(event).state = Next1(sess.state, event)
         /\ Written(event).brief = sess.brief /\ Written(event).approval = sess.approval
         /\ Written(event).ledger = sess.ledger
<1>1. PICK n : n = Next1(sess.state, event) /\ n \in States
  BY StepLeads
<1>2. PICK r : r = sess.rev + 1 /\ r \in Nat
  BY SessionIs
<1>3. Written(event) = Moved(sess, n, r)
  BY <1>1, <1>2 DEF Written, Moved
<1> QED
  BY <1>1, <1>2, <1>3, SessionMoved

\* A row of the session that another brief or plan revision leaves.
LEMMA RevisedIs ==
  ASSUME NEW s \in SessionType
  PROVE  /\ insertBriefRevision(s) \in SessionType /\ insertPlanRevision(s) \in SessionType
         /\ insertBriefRevision(s).state = s.state /\ insertBriefRevision(s).rev = s.rev
         /\ insertBriefRevision(s).approval = 0 /\ insertPlanRevision(s).approval = 0
         /\ insertPlanRevision(s).state = s.state /\ insertPlanRevision(s).rev = s.rev
         /\ insertPlanRevision(s).brief = s.brief
<1>1. PICK b : b = s.brief + 1 /\ b \in Nat
  BY SessionIs
<1>2. 0 \in 0..MaxRequests
  BY SessionAssumption
<1>3. insertBriefRevision(s) = Revised(s, b, 0)
  BY <1>1 DEF insertBriefRevision, Revised
<1>4. insertPlanRevision(s) = Rebound(s, 0)
  BY DEF insertPlanRevision, Rebound
<1>5. /\ insertBriefRevision(s) \in SessionType /\ insertBriefRevision(s).approval = 0
      /\ insertBriefRevision(s).state = s.state /\ insertBriefRevision(s).rev = s.rev
  BY <1>1, <1>2, <1>3, SessionRevised
<1> QED
  BY <1>2, <1>4, <1>5, SessionApproved

-----------------------------------------------------------------------------
(* Types *)

TextTypes   == /\ plans \in Seq(Nat) /\ turns \in Seq(TurnType)
               /\ approvals \subseteq [id : Requests, plan : Nat] /\ receipts \subseteq Requests
HostTypes   == /\ invs \in [Ids -> RowType] /\ snaps \subseteq Ids /\ box \in [Roles -> Ids \cup {0}]
               /\ proc \in [Ids -> ProcessType]
               /\ report \in [Ids -> {"none", "content", "words", "bad"}]
ThreadTypes == loop \in LoopType /\ bg \in WorkType /\ poll \in PassType /\ task \in TaskType
BoundTypes  == faults \in Nat /\ stops \in Nat

LEMMA TypesAre ==
  TypeOK <=> /\ sess \in SessionType /\ TextTypes /\ InboxType
             /\ HostTypes /\ ThreadTypes /\ BoundTypes
BY DEF TypeOK, TextTypes, InboxType, HostTypes, ThreadTypes, BoundTypes

\* The row that a launch inserts.
NewRow == [NoInv EXCEPT !.role = RoleOf(loop.cmd), !.trigger = loop.cmd, !.rev = sess.rev + 1,
                        !.brief = sess.brief, !.status = "active", !.from = task.from]

\* No step takes back a command.  Every step that changes the session row
\* advances its revision, and only a launch leaves it to a role.
Inserts == task.at = "insert" /\ MayInsert /\ invs' = [invs EXCEPT ![task.inv] = NewRow]
SessionGrows ==
  \/ sess' = sess
  \/ /\ sess.rev < sess'.rev /\ sess'.state # "none"
     /\ sess'.state = "role_active" => Inserts
Advances     == TypeOK' /\ Extends(inbox, inbox') /\ SessionGrows

LEMMA Steady ==
  ASSUME TypeOK, UNCHANGED sess
  PROVE  sess' \in SessionType /\ SessionGrows
BY TypesAre DEF SessionGrows

LEMMA SteadyText ==
  ASSUME TypeOK, UNCHANGED content
  PROVE  TextTypes'
BY TypesAre DEF TextTypes, content

LEMMA SteadyInbox ==
  ASSUME TypeOK, UNCHANGED inbox
  PROVE  InboxType' /\ Extends(inbox, inbox')
<1>1. InboxType
  BY TypesAre
<1>2. \A j \in DOMAIN inbox : inbox[j].attempts \in Nat
  BY <1>1, InboxDomain DEF CommandType
<1>3. Len(inbox) \in Nat
  BY <1>1, InboxDomain
<1> QED
  BY <1>1, <1>2, <1>3 DEF InboxType, Extends

LEMMA SteadyHost ==
  ASSUME TypeOK, UNCHANGED <<invs, snaps, box, proc, report>>
  PROVE  HostTypes'
BY TypesAre DEF HostTypes

LEMMA SteadyBounds ==
  ASSUME TypeOK, UNCHANGED bounds
  PROVE  BoundTypes'
BY TypesAre DEF BoundTypes, bounds

LEMMA AdvancesFrom ==
  ASSUME sess' \in SessionType, TextTypes', InboxType', HostTypes', ThreadTypes', BoundTypes',
         Extends(inbox, inbox'), SessionGrows
  PROVE  Advances
BY TypesAre DEF Advances, TypeOK, TextTypes, InboxType, HostTypes, ThreadTypes, BoundTypes

-----------------------------------------------------------------------------
(* Records of the threads *)

LEMMA TaskOf ==
  ASSUME NEW t \in TaskType, NEW by \in {"none", "loop", "poll"}, NEW a \in Stages
  PROVE  LET u == [t EXCEPT !.by = by, !.at = a]
         IN u \in TaskType /\ u.by = by /\ u.at = a /\ u.inv = t.inv
BY DEF TaskType

LEMMA NoTaskIs ==
  /\ NoTask \in TaskType /\ Between \in TaskType /\ NoTask # Between
  /\ NoTask.by = "none" /\ NoTask.at = "free" /\ NoTask.inv = 0
  /\ Between.by = "poll" /\ Between.at = "held" /\ Between.inv = 0
<1>1. NoTask \in TaskType /\ NoTask.by = "none" /\ NoTask.at = "free" /\ NoTask.inv = 0
  BY SessionAssumption DEF NoTask, TaskType, Stages
<1>2. "held" \in Stages
  BY DEF Stages
<1>3. Between \in TaskType /\ Between.by = "poll" /\ Between.at = "held" /\ Between.inv = 0
  BY <1>1, <1>2, TaskOf DEF Between
<1> QED
  BY <1>1, <1>3

\* The operation goes to another stage.
AtStage(a)        == [task EXCEPT !.at = a]
AtStageOf(a, v)   == [task EXCEPT !.at = a, !.inv = v]
Concluding(a, s)  == [task EXCEPT !.at = a, !.status = s]
Failed(lost)      == [task EXCEPT !.at = "release", !.status = "failed", !.lost = lost]

LEMMA TaskGoes ==
  ASSUME task \in TaskType, NEW a \in Stages
  PROVE  /\ AtStage(a) \in TaskType /\ AtStage(a).at = a /\ AtStage(a).by = task.by
         /\ AtStage(a).inv = task.inv /\ AtStage(a).status = task.status
BY DEF TaskType, AtStage

LEMMA TaskTakes ==
  ASSUME task \in TaskType, NEW a \in Stages, NEW v \in 0..MaxIds
  PROVE  /\ AtStageOf(a, v) \in TaskType /\ AtStageOf(a, v).at = a
         /\ AtStageOf(a, v).by = task.by /\ AtStageOf(a, v).inv = v
         /\ AtStageOf(a, v).saw = task.saw
BY DEF TaskType, AtStageOf

LEMMA TaskConcludes ==
  ASSUME task \in TaskType, NEW a \in Stages, NEW s \in Ends
  PROVE  /\ Concluding(a, s) \in TaskType /\ Concluding(a, s).at = a
         /\ Concluding(a, s).by = task.by /\ Concluding(a, s).inv = task.inv
         /\ Concluding(a, s).status = s
BY DEF TaskType, Concluding

LEMMA TaskFails ==
  ASSUME task \in TaskType, NEW lost \in BOOLEAN
  PROVE  /\ Failed(lost) \in TaskType /\ Failed(lost).at = "release" /\ Failed(lost).by = task.by
         /\ Failed(lost).inv = task.inv /\ Failed(lost).status = "failed"
BY DEF TaskType, Failed, Stages, Ends

\* What begins an operation.
LaunchOf(saw, from)     == [NoTask EXCEPT !.by = "loop", !.at = "snapshot", !.saw = saw, !.from = from]
CancelOf(v)             == [NoTask EXCEPT !.by = "loop", !.at = "release", !.status = "cancelled", !.inv = v]
PassOver(a, v)          == [NoTask EXCEPT !.by = "poll", !.at = a, !.inv = v]
PassEnding(a, v, s)     == [NoTask EXCEPT !.by = "poll", !.at = a, !.inv = v, !.status = s]

LEMMA LaunchIs ==
  ASSUME NEW saw \in Nat, NEW v \in 0..MaxIds
  PROVE  /\ LaunchOf(saw, v) \in TaskType /\ LaunchOf(saw, v).by = "loop"
         /\ LaunchOf(saw, v).at = "snapshot" /\ LaunchOf(saw, v).inv = 0
         /\ LaunchOf(saw, v).saw = saw
<1>1. PICK t : t = NoTask /\ t \in TaskType /\ t.inv = 0
  BY NoTaskIs
<1>2. LaunchOf(saw, v) = [t EXCEPT !.by = "loop", !.at = "snapshot", !.saw = saw, !.from = v]
  BY <1>1 DEF LaunchOf
<1>3. "snapshot" \in Stages
  BY DEF Stages
<1> HIDE DEF Stages
<1> QED
  BY <1>1, <1>2, <1>3 DEF TaskType

LEMMA CancelIs ==
  ASSUME NEW v \in 0..MaxIds
  PROVE  /\ CancelOf(v) \in TaskType /\ CancelOf(v).by = "loop" /\ CancelOf(v).at = "release"
         /\ CancelOf(v).inv = v /\ CancelOf(v).status = "cancelled"
<1>1. PICK t : t = NoTask /\ t \in TaskType
  BY NoTaskIs
<1>2. CancelOf(v) = [t EXCEPT !.by = "loop", !.at = "release", !.status = "cancelled", !.inv = v]
  BY <1>1 DEF CancelOf
<1>3. "release" \in Stages
  BY DEF Stages
<1> QED
  BY <1>1, <1>2, <1>3 DEF TaskType, Ends

LEMMA PassBegins ==
  ASSUME NEW a \in Stages, NEW v \in 0..MaxIds, NEW s \in Ends \cup {"none", "active"}
  PROVE  /\ PassOver(a, v) \in TaskType /\ PassOver(a, v).by = "poll" /\ PassOver(a, v).at = a
         /\ PassOver(a, v).inv = v
         /\ PassEnding(a, v, s) \in TaskType /\ PassEnding(a, v, s).by = "poll"
         /\ PassEnding(a, v, s).at = a /\ PassEnding(a, v, s).inv = v
         /\ PassEnding(a, v, s).status = s
<1>1. PICK t : t = NoTask /\ t \in TaskType
  BY NoTaskIs
<1>2. PassOver(a, v) = [t EXCEPT !.by = "poll", !.at = a, !.inv = v]
  BY <1>1 DEF PassOver
<1>3. PassEnding(a, v, s) = [t EXCEPT !.by = "poll", !.at = a, !.inv = v, !.status = s]
  BY <1>1 DEF PassEnding
<1>4. PassOver(a, v) \in TaskType /\ PassOver(a, v).by = "poll" /\ PassOver(a, v).at = a
      /\ PassOver(a, v).inv = v
  BY <1>1, <1>2 DEF TaskType
<1>5. PassEnding(a, v, s) \in TaskType /\ PassEnding(a, v, s).by = "poll"
      /\ PassEnding(a, v, s).at = a /\ PassEnding(a, v, s).inv = v /\ PassEnding(a, v, s).status = s
  BY <1>1, <1>3 DEF TaskType
<1> QED
  BY <1>4, <1>5

\* The command loop at another place.
LoopAt(a)      == [loop EXCEPT !.at = a]
LoopEnds(a, o) == [loop EXCEPT !.at = a, !.outcome = o]
LoopBegins(i)  == [Idle EXCEPT !.at = "begun", !.cmd = i]

LEMMA IdleIs ==
  Idle \in LoopType /\ Idle.at = "idle"
BY SessionAssumption DEF LoopType, Idle, Outcomes

LEMMA LoopGoes ==
  ASSUME loop \in LoopType, NEW a \in {"idle", "begun", "role", "stop", "ended"}, NEW o \in Outcomes
  PROVE  /\ LoopAt(a) \in LoopType /\ LoopAt(a).at = a /\ LoopAt(a).cmd = loop.cmd
         /\ LoopEnds(a, o) \in LoopType /\ LoopEnds(a, o).at = a /\ LoopEnds(a, o).cmd = loop.cmd
<1>1. LoopAt(a) \in LoopType /\ LoopAt(a).at = a /\ LoopAt(a).cmd = loop.cmd
  BY DEF LoopType, LoopAt
<1>2. LoopEnds(a, o) \in LoopType /\ LoopEnds(a, o).at = a /\ LoopEnds(a, o).cmd = loop.cmd
  BY DEF LoopType, LoopEnds
<1> QED
  BY <1>1, <1>2

LEMMA LoopTakes ==
  ASSUME NEW i \in 0..MaxRequests
  PROVE  LoopBegins(i) \in LoopType /\ LoopBegins(i).at = "begun" /\ LoopBegins(i).cmd = i
<1>1. PICK l : l = Idle /\ l \in LoopType
  BY IdleIs
<1>2. LoopBegins(i) = [l EXCEPT !.at = "begun", !.cmd = i]
  BY <1>1 DEF LoopBegins
<1> QED
  BY <1>1, <1>2 DEF LoopType

\* The tracker command at another place.
Works == {"idle", "begun", "approve", "publish", "start", "execute", "settle", "ended"}
WorkAt(a)        == [bg EXCEPT !.at = a]
WorkEndsAt(a, o) == [bg EXCEPT !.at = a, !.outcome = o]
WorkSawAt(a, r)  == [bg EXCEPT !.at = a, !.saw = r]
WorkBegins(i)    == [NoWork EXCEPT !.at = "begun", !.cmd = i]
WorkSpent(i)     == [NoWork EXCEPT !.at = "settle", !.cmd = i, !.outcome = "failed"]

LEMMA NoWorkIs ==
  NoWork \in WorkType /\ NoWork.at = "idle"
BY SessionAssumption DEF WorkType, NoWork, Outcomes

LEMMA WorkGoes ==
  ASSUME bg \in WorkType, NEW a \in Works, NEW o \in Outcomes, NEW r \in Nat
  PROVE  /\ WorkAt(a) \in WorkType /\ WorkAt(a).at = a /\ WorkAt(a).cmd = bg.cmd
         /\ WorkEndsAt(a, o) \in WorkType /\ WorkEndsAt(a, o).at = a /\ WorkEndsAt(a, o).cmd = bg.cmd
         /\ WorkSawAt(a, r) \in WorkType /\ WorkSawAt(a, r).at = a /\ WorkSawAt(a, r).cmd = bg.cmd
         /\ WorkSawAt(a, r).saw = r
<1>1. WorkAt(a) \in WorkType /\ WorkAt(a).at = a /\ WorkAt(a).cmd = bg.cmd
  BY DEF WorkType, WorkAt, Works
<1>2. WorkEndsAt(a, o) \in WorkType /\ WorkEndsAt(a, o).at = a /\ WorkEndsAt(a, o).cmd = bg.cmd
  BY DEF WorkType, WorkEndsAt, Works
<1>3. WorkSawAt(a, r) \in WorkType /\ WorkSawAt(a, r).at = a /\ WorkSawAt(a, r).cmd = bg.cmd
      /\ WorkSawAt(a, r).saw = r
  BY DEF WorkType, WorkSawAt, Works
<1> QED
  BY <1>1, <1>2, <1>3

LEMMA WorkTakes ==
  ASSUME NEW i \in 0..MaxRequests
  PROVE  /\ WorkBegins(i) \in WorkType /\ WorkBegins(i).at = "begun" /\ WorkBegins(i).cmd = i
         /\ WorkSpent(i) \in WorkType /\ WorkSpent(i).at = "settle" /\ WorkSpent(i).cmd = i
<1>1. PICK w : w = NoWork /\ w \in WorkType
  BY NoWorkIs
<1>2. WorkBegins(i) = [w EXCEPT !.at = "begun", !.cmd = i]
  BY <1>1 DEF WorkBegins
<1>3. WorkSpent(i) = [w EXCEPT !.at = "settle", !.cmd = i, !.outcome = "failed"]
  BY <1>1 DEF WorkSpent
<1>4. WorkBegins(i) \in WorkType /\ WorkBegins(i).at = "begun" /\ WorkBegins(i).cmd = i
  BY <1>1, <1>2 DEF WorkType
<1>5. WorkSpent(i) \in WorkType /\ WorkSpent(i).at = "settle" /\ WorkSpent(i).cmd = i
  BY <1>1, <1>3 DEF WorkType, Outcomes
<1> QED
  BY <1>4, <1>5

-----------------------------------------------------------------------------
(* Rows of the invocations *)

WithNative(v, n)     == [invs EXCEPT ![v].native = n]
WithEnd(v, s, l)     == [invs EXCEPT ![v].status = s, ![v].lost = l]
WithStatus(v, s)     == [invs EXCEPT ![v].status = s]
WithRelease(v)       == [invs EXCEPT ![v].released = TRUE]

\* Rows that agree in what the session is about.
SameRow(r, s) == /\ r.role = s.role /\ r.trigger = s.trigger /\ r.rev = s.rev

LEMMA RowNative ==
  ASSUME invs \in [Ids -> RowType], NEW v \in Ids, NEW n \in Nat
  PROVE  /\ WithNative(v, n) \in [Ids -> RowType]
         /\ \A w \in Ids : /\ SameRow(WithNative(v, n)[w], invs[w])
                           /\ WithNative(v, n)[w].status = invs[w].status
                           /\ WithNative(v, n)[w].released = invs[w].released
<1>0. PICK x : x = invs[v] /\ x \in RowType
  OBVIOUS
<1>1. PICK r : r = [x EXCEPT !.native = n]
  OBVIOUS
<1>a. r \in RowType
  BY <1>0, <1>1 DEF RowType
<1>2. SameRow(r, invs[v]) /\ r.status = invs[v].status /\ r.released = invs[v].released
  BY <1>0, <1>1 DEF SameRow, RowType
<1>3. WithNative(v, n) = [invs EXCEPT ![v] = r]
  BY <1>0, <1>1 DEF WithNative
<1> QED
  BY <1>0, <1>1, <1>a, <1>2, <1>3 DEF SameRow

LEMMA RowEnd ==
  ASSUME invs \in [Ids -> RowType], NEW v \in Ids, NEW s \in Ends, NEW l \in BOOLEAN
  PROVE  /\ WithEnd(v, s, l) \in [Ids -> RowType] /\ WithEnd(v, s, l)[v].status = s
         /\ \A w \in Ids : /\ SameRow(WithEnd(v, s, l)[w], invs[w])
                           /\ w # v => WithEnd(v, s, l)[w].status = invs[w].status
                           /\ WithEnd(v, s, l)[w].released = invs[w].released
<1>0. PICK x : x = invs[v] /\ x \in RowType
  OBVIOUS
<1>1. PICK r : r = [x EXCEPT !.status = s, !.lost = l]
  OBVIOUS
<1>a. r \in RowType
  BY <1>0, <1>1 DEF RowType
<1>2. SameRow(r, invs[v]) /\ r.status = s /\ r.released = invs[v].released
  BY <1>0, <1>1 DEF SameRow, RowType
<1>3. WithEnd(v, s, l) = [invs EXCEPT ![v] = r]
  BY <1>0, <1>1 DEF WithEnd
<1> QED
  BY <1>0, <1>1, <1>a, <1>2, <1>3 DEF SameRow

LEMMA RowStatus ==
  ASSUME invs \in [Ids -> RowType], NEW v \in Ids, NEW s \in Ends
  PROVE  /\ WithStatus(v, s) \in [Ids -> RowType] /\ WithStatus(v, s)[v].status = s
         /\ \A w \in Ids : /\ SameRow(WithStatus(v, s)[w], invs[w])
                           /\ w # v => WithStatus(v, s)[w].status = invs[w].status
                           /\ WithStatus(v, s)[w].released = invs[w].released
<1>0. PICK x : x = invs[v] /\ x \in RowType
  OBVIOUS
<1>1. PICK r : r = [x EXCEPT !.status = s]
  OBVIOUS
<1>a. r \in RowType
  BY <1>0, <1>1 DEF RowType
<1>2. SameRow(r, invs[v]) /\ r.status = s /\ r.released = invs[v].released
  BY <1>0, <1>1 DEF SameRow, RowType
<1>3. WithStatus(v, s) = [invs EXCEPT ![v] = r]
  BY <1>0, <1>1 DEF WithStatus
<1> QED
  BY <1>0, <1>1, <1>a, <1>2, <1>3 DEF SameRow

LEMMA RowRelease ==
  ASSUME invs \in [Ids -> RowType], NEW v \in Ids
  PROVE  /\ WithRelease(v) \in [Ids -> RowType]
         /\ \A w \in Ids : /\ SameRow(WithRelease(v)[w], invs[w])
                           /\ WithRelease(v)[w].status = invs[w].status
                           /\ w # v => WithRelease(v)[w].released = invs[w].released
<1>0. PICK x : x = invs[v] /\ x \in RowType
  OBVIOUS
<1>1. PICK r : r = [x EXCEPT !.released = TRUE]
  OBVIOUS
<1>a. r \in RowType
  BY <1>0, <1>1 DEF RowType
<1>2. SameRow(r, invs[v]) /\ r.status = invs[v].status
  BY <1>0, <1>1 DEF SameRow, RowType
<1>3. WithRelease(v) = [invs EXCEPT ![v] = r]
  BY <1>0, <1>1 DEF WithRelease
<1> QED
  BY <1>0, <1>1, <1>a, <1>2, <1>3 DEF SameRow

LEMMA NewRowIs ==
  ASSUME sess \in SessionType, loop \in LoopType, task \in TaskType
  PROVE  /\ NewRow \in RowType /\ NewRow.role \in Roles /\ NewRow.trigger = loop.cmd
         /\ NewRow.rev = sess.rev + 1 /\ NewRow.status = "active" /\ NewRow.released = FALSE
<1>1. PICK r : r = RoleOf(loop.cmd) /\ r \in Roles
  BY DEF RoleOf, Roles
<1>2. PICK n : n = sess.rev + 1 /\ n \in Nat
  BY SessionIs
<1>0. NoInv \in RowType /\ NoInv.released = FALSE
  BY SessionAssumption DEF NoInv, RowType
<1>3. PICK x : x = NoInv /\ x \in RowType /\ x.released = FALSE
  BY <1>0
<1>4. PICK b, c, f : /\ b = sess.brief /\ c = loop.cmd /\ f = task.from
                     /\ b \in Nat /\ c \in 0..MaxRequests /\ f \in 0..MaxIds
  BY SessionIs DEF LoopType, TaskType
<1>5. NewRow = [x EXCEPT !.role = r, !.trigger = c, !.rev = n, !.brief = b, !.status = "active",
                         !.from = f]
  BY <1>1, <1>2, <1>3, <1>4 DEF NewRow
<1>6. NewRow \in RowType
  BY <1>1, <1>2, <1>3, <1>4, <1>5 DEF RowType
<1> QED
  BY <1>1, <1>2, <1>3, <1>4, <1>5, <1>6 DEF RowType

LEMMA RowFields ==
  ASSUME invs \in [Ids -> RowType], NEW v \in Ids
  PROVE  /\ invs[v].rev \in Nat /\ invs[v].brief \in Nat /\ invs[v].native \in Nat
         /\ invs[v].from \in 0..MaxIds /\ invs[v].released \in BOOLEAN /\ invs[v].lost \in BOOLEAN
         /\ invs[v].status \in Ends \cup {"none", "active"} /\ invs[v].trigger \in 0..MaxRequests
         /\ invs[v].role \in Roles \cup {"none"}
BY DEF RowType

-----------------------------------------------------------------------------
(* Types under the commands of the inbox *)

LEMMA AdvanceSubmit ==
  ASSUME TypeOK, NEW kind \in Kinds, Submit(kind)
  PROVE  Advances
<1> DEFINE c == [kind |-> kind, expected |-> sess.rev, attempts |-> 0, outcome |-> "none"]
<1>1. UNCHANGED sess /\ UNCHANGED content /\ UNCHANGED <<invs, snaps, box, proc, report>>
      /\ UNCHANGED <<loop, bg, poll, task>> /\ UNCHANGED bounds
  BY DEF Submit, host
<1>2. InboxType /\ sess.rev \in Nat
  BY TypesAre, SessionIs
<1>3. c \in CommandType
  BY <1>2, SessionAssumption DEF CommandType, Outcomes
<1>4. inbox' = Append(inbox, c) /\ Len(inbox) < MaxRequests
  BY DEF Submit
<1> HIDE DEF c
<1>5. InboxType'
  BY <1>2, <1>3, <1>4, SeqAppend, SessionAssumption DEF InboxType
<1>6. \A j \in DOMAIN inbox : inbox[j].attempts \in Nat
  BY <1>2, InboxDomain DEF CommandType
<1>7. Extends(inbox, inbox')
  BY <1>2, <1>3, <1>4, <1>6, SeqAppend, InboxDomain DEF InboxType, Extends
<1>8. ThreadTypes'
  BY <1>1, TypesAre DEF ThreadTypes
<1> QED
  BY <1>1, <1>5, <1>7, <1>8, Steady, SteadyText, SteadyHost, SteadyBounds, AdvancesFrom

\* A step of the command loop leaves the rest alone.
LoopOnly == UNCHANGED <<invs, snaps, box, proc, report, bg, poll, task, bounds>>

LEMMA AdvanceLoop ==
  ASSUME TypeOK, LoopOnly, sess' \in SessionType, SessionGrows, TextTypes', InboxType',
         Extends(inbox, inbox'), loop' \in LoopType
  PROVE  Advances
<1>1. UNCHANGED <<invs, snaps, box, proc, report>> /\ UNCHANGED <<bg, poll, task>> /\ UNCHANGED bounds
  BY DEF LoopOnly
<1>2. ThreadTypes'
  BY <1>1, TypesAre DEF ThreadTypes
<1> QED
  BY <1>1, <1>2, SteadyHost, SteadyBounds, AdvancesFrom

LEMMA CompletesInbox ==
  ASSUME TypeOK, NEW i, NEW outcome \in Outcomes, inbox' = Completed(i, outcome)
  PROVE  InboxType' /\ Extends(inbox, inbox')
BY TypesAre, CompletedIs DEF InboxType

LEMMA BeginsInbox ==
  ASSUME TypeOK, NEW i \in DOMAIN inbox, inbox' = Begun(i)
  PROVE  InboxType' /\ Extends(inbox, inbox')
BY TypesAre, BegunIs DEF InboxType

LEMMA AdvanceAnswer ==
  ASSUME TypeOK, NEW outcome \in Outcomes, Answer(outcome)
  PROVE  Advances /\ LoopOnly /\ UNCHANGED <<sess, plans, turns, approvals>> /\ loop' = Idle
         /\ inbox' = Completed(loop.cmd, outcome)
<1>1. LoopOnly /\ UNCHANGED sess /\ UNCHANGED content /\ loop' = Idle
      /\ inbox' = Completed(loop.cmd, outcome)
  BY DEF Answer, LoopOnly, host
<1>2. InboxType' /\ Extends(inbox, inbox')
  BY <1>1, CompletesInbox
<1>3. Advances
  BY <1>1, <1>2, IdleIs, Steady, SteadyText, AdvanceLoop
<1> QED
  BY <1>1, <1>3 DEF content

LEMMA AdvanceBegin ==
  ASSUME TypeOK, NEW i \in Requests, Begin(i)
  PROVE  Advances /\ LoopOnly
<1>1. LoopOnly /\ UNCHANGED sess /\ UNCHANGED content
  BY DEF Begin, LoopOnly, host
<1>2. i \in DOMAIN inbox
  BY DEF Begin, Pending
<1>3. /\ InboxType' /\ Extends(inbox, inbox') /\ loop' \in LoopType
  <2>1. CASE Spent(i)
    <3>1. inbox' = Completed(i, "failed") /\ UNCHANGED loop
      BY <2>1 DEF Begin
    <3>2. loop' \in LoopType /\ "failed" \in Outcomes
      BY <3>1, TypesAre DEF ThreadTypes, Outcomes
    <3> QED
      BY <3>1, <3>2, CompletesInbox
  <2>2. CASE ~Spent(i)
    <3>1. inbox' = Begun(i) /\ loop' = LoopBegins(i)
      BY <2>2 DEF Begin, LoopBegins
    <3>2. i \in 0..MaxRequests
      BY SessionAssumption DEF Requests
    <3> QED
      BY <1>2, <3>1, <3>2, BeginsInbox, LoopTakes
  <2> QED
    BY <2>1, <2>2
<1> QED
  BY <1>1, <1>3, Steady, SteadyText, AdvanceLoop

LEMMA WrittenGrows ==
  ASSUME TypeOK, NEW event, Allowed(sess.state, event), event # "role_started",
         sess' \in SessionType, sess'.rev = Written(event).rev, sess'.state = Written(event).state
  PROVE  SessionGrows
<1>1. sess \in SessionType /\ sess.rev \in Nat
  BY TypesAre, SessionIs
<1>2. sess'.rev = sess.rev + 1 /\ sess'.state = Next1(sess.state, event)
  BY <1>1, WrittenIs
<1>3. sess'.state # "none" /\ sess'.state # "role_active"
  BY <1>2, StepLeads DEF Leads
<1> QED
  BY <1>1, <1>2, <1>3 DEF SessionGrows

\* The session row that a guarded write leaves, and with another brief or plan.
LEMMA WritesSession ==
  ASSUME TypeOK, NEW event, Allowed(sess.state, event), event # "role_started",
         sess' \in {Written(event), insertBriefRevision(Written(event)),
                    insertPlanRevision(Written(event))}
  PROVE  /\ sess' \in SessionType /\ SessionGrows
         /\ sess'.state = Next1(sess.state, event) /\ sess'.rev = sess.rev + 1
<1>1. sess \in SessionType
  BY TypesAre
<1>2. PICK s : s = Written(event) /\ s \in SessionType
  BY <1>1, WrittenIs
<1>3. sess' \in SessionType /\ sess'.rev = Written(event).rev /\ sess'.state = Written(event).state
  BY <1>2, RevisedIs
<1> QED
  BY <1>1, <1>3, WrittenGrows, WrittenIs

LEMMA AdvanceCreate ==
  ASSUME TypeOK, Uncreated, createSession
  PROVE  Advances /\ LoopOnly
<1>1. CASE ~Exists
  <2>1. /\ LoopOnly /\ UNCHANGED content /\ UNCHANGED inbox
        /\ sess' = Moved(sess, "awaiting_user", 1) /\ loop' = LoopEnds("ended", "applied")
    BY <1>1 DEF createSession, LoopOnly, host, Moved, LoopEnds
  <2>2. sess \in SessionType /\ loop \in LoopType /\ "awaiting_user" \in States /\ 1 \in Nat
    BY TypesAre, NamedStates DEF ThreadTypes
  <2>3. sess' \in SessionType /\ sess'.state = "awaiting_user" /\ sess'.rev = 1
    BY <2>1, <2>2, SessionMoved
  <2>4. SessionGrows
    BY <1>1, <2>3 DEF SessionGrows, Uncreated, Exists
  <2>5. loop' \in LoopType
    BY <2>1, <2>2, LoopGoes DEF Outcomes
  <2> QED
    BY <2>1, <2>3, <2>4, <2>5, SteadyText, SteadyInbox, AdvanceLoop
<1>2. CASE Exists
  <2>1. PICK o \in Outcomes : Answer(o)
    BY <1>2 DEF createSession, Outcomes
  <2> QED
    BY <2>1, AdvanceAnswer
<1> QED
  BY <1>1, <1>2

LEMMA AdvanceRefuse ==
  ASSUME TypeOK, RefuseContent
  PROVE  Advances /\ LoopOnly
<1>1. Answer("refused") /\ "refused" \in Outcomes
  BY DEF RefuseContent, Outcomes
<1> QED
  BY <1>1, AdvanceAnswer

\* The loop goes on to start the role, without a write.
LEMMA AdvanceToRole ==
  ASSUME TypeOK, loop' = LoopAt("role"), UNCHANGED <<store, host, bg, poll, task, bounds>>
  PROVE  Advances /\ LoopOnly
<1>1. /\ LoopOnly /\ UNCHANGED sess /\ UNCHANGED content /\ UNCHANGED inbox
  BY DEF LoopOnly, store, host
<1>2. loop' \in LoopType
  BY TypesAre, LoopGoes DEF ThreadTypes, Outcomes
<1> QED
  BY <1>1, <1>2, Steady, SteadyText, SteadyInbox, AdvanceLoop

\* submitTurn either answers, or goes on, or stores the turn first.
LEMMA TurnSplit ==
  ASSUME submitTurn
  PROVE  \/ \E o \in Outcomes : Answer(o)
         \/ loop' = LoopAt("role") /\ UNCHANGED <<store, host, bg, poll, task, bounds>>
            /\ ~startedRole(loop.cmd)
         \/ /\ Allowed(sess.state, "turn_accepted") /\ sess' = Written("turn_accepted")
            /\ turns' = Append(turns, Turn("user", loop.cmd)) /\ loop' = LoopAt("role")
            /\ UNCHANGED <<plans, approvals, receipts, inbox, invs, host, bg, poll, task, bounds>>
            /\ ~startedRole(loop.cmd)
BY DEF submitTurn, LoopAt, Outcomes

LEMMA AdvanceTurn ==
  ASSUME TypeOK, submitTurn
  PROVE  Advances /\ LoopOnly
<1>1. CASE \E o \in Outcomes : Answer(o)
  BY <1>1, AdvanceAnswer
<1>2. CASE loop' = LoopAt("role") /\ UNCHANGED <<store, host, bg, poll, task, bounds>>
  BY <1>2, AdvanceToRole
<1>3. CASE /\ Allowed(sess.state, "turn_accepted") /\ sess' = Written("turn_accepted")
           /\ turns' = Append(turns, Turn("user", loop.cmd)) /\ loop' = LoopAt("role")
           /\ UNCHANGED <<plans, approvals, receipts, inbox, invs, host, bg, poll, task, bounds>>
  <2>1. LoopOnly /\ UNCHANGED inbox /\ UNCHANGED <<plans, approvals, receipts>>
    BY <1>3 DEF LoopOnly, host
  <2>2. sess' \in SessionType /\ SessionGrows
    BY <1>3, WritesSession
  <2>3. loop \in LoopType /\ turns \in Seq(TurnType) /\ loop.cmd \in Nat
    BY TypesAre, SessionAssumption DEF ThreadTypes, TextTypes, LoopType
  <2>4. Turn("user", loop.cmd) \in TurnType
    BY <2>3 DEF Turn, TurnType
  <2>5. turns' \in Seq(TurnType)
    BY <1>3, <2>3, <2>4, SeqAppend
  <2>6. TextTypes'
    BY <2>1, <2>5, TypesAre DEF TextTypes
  <2>7. loop' \in LoopType
    BY <1>3, <2>3, LoopGoes DEF Outcomes
  <2> QED
    BY <2>1, <2>2, <2>6, <2>7, SteadyInbox, AdvanceLoop
<1> QED
  BY <1>1, <1>2, <1>3, TurnSplit

LEMMA PlanningSplit ==
  ASSUME startPlanning
  PROVE  \/ \E o \in Outcomes : Answer(o)
         \/ loop' = LoopAt("role") /\ UNCHANGED <<store, host, bg, poll, task, bounds>>
            /\ ~startedRole(loop.cmd)
BY DEF startPlanning, LoopAt, Outcomes

LEMMA AdvancePlanning ==
  ASSUME TypeOK, startPlanning
  PROVE  Advances /\ LoopOnly
BY PlanningSplit, AdvanceAnswer, AdvanceToRole

LEMMA BriefSplit ==
  ASSUME editBrief
  PROVE  \/ \E o \in Outcomes : Answer(o)
         \/ /\ Allowed(sess.state, "edited") /\ sess' = insertBriefRevision(Written("edited"))
            /\ inbox' = Completed(loop.cmd, "applied") /\ loop' = Idle
            /\ UNCHANGED content /\ UNCHANGED <<invs, host, bg, poll, task, bounds>>
BY DEF editBrief, Outcomes

LEMMA AdvanceBrief ==
  ASSUME TypeOK, editBrief
  PROVE  Advances /\ LoopOnly
<1>1. CASE \E o \in Outcomes : Answer(o)
  BY <1>1, AdvanceAnswer
<1>2. CASE /\ Allowed(sess.state, "edited") /\ sess' = insertBriefRevision(Written("edited"))
           /\ inbox' = Completed(loop.cmd, "applied") /\ loop' = Idle
           /\ UNCHANGED content /\ UNCHANGED <<invs, host, bg, poll, task, bounds>>
  <2>1. LoopOnly /\ UNCHANGED content
    BY <1>2 DEF LoopOnly, host
  <2>2. sess' \in SessionType /\ SessionGrows
    BY <1>2, WritesSession
  <2>3. InboxType' /\ Extends(inbox, inbox')
    BY <1>2, CompletesInbox DEF Outcomes
  <2> QED
    BY <1>2, <2>1, <2>2, <2>3, IdleIs, SteadyText, AdvanceLoop
<1> QED
  BY <1>1, <1>2, BriefSplit

LEMMA DraftSplit ==
  ASSUME editDraft
  PROVE  \/ \E o \in Outcomes : Answer(o)
         \/ /\ Allowed(sess.state, "edited") /\ sess' = insertPlanRevision(Written("edited"))
            /\ SourceIsCurrent /\ plans' = Append(plans, plans[Len(plans)])
            /\ inbox' = Completed(loop.cmd, "applied") /\ loop' = Idle
            /\ UNCHANGED <<turns, approvals, receipts, invs, host, bg, poll, task, bounds>>
BY DEF editDraft, Outcomes

LEMMA AdvanceDraft ==
  ASSUME TypeOK, editDraft
  PROVE  Advances /\ LoopOnly
<1>1. CASE \E o \in Outcomes : Answer(o)
  BY <1>1, AdvanceAnswer
<1>2. CASE /\ Allowed(sess.state, "edited") /\ sess' = insertPlanRevision(Written("edited"))
           /\ SourceIsCurrent /\ plans' = Append(plans, plans[Len(plans)])
           /\ inbox' = Completed(loop.cmd, "applied") /\ loop' = Idle
           /\ UNCHANGED <<turns, approvals, receipts, invs, host, bg, poll, task, bounds>>
  <2>1. LoopOnly /\ UNCHANGED <<turns, approvals, receipts>>
    BY <1>2 DEF LoopOnly, host
  <2>2. sess' \in SessionType /\ SessionGrows
    BY <1>2, WritesSession
  <2>3. InboxType' /\ Extends(inbox, inbox')
    BY <1>2, CompletesInbox DEF Outcomes
  <2>4. plans \in Seq(Nat) /\ plans[Len(plans)] \in Nat
    BY <1>2, TypesAre DEF TextTypes, SourceIsCurrent
  <2>5. plans' \in Seq(Nat)
    BY <1>2, <2>4, SeqAppend
  <2>6. TextTypes'
    BY <2>1, <2>5, TypesAre DEF TextTypes
  <2> QED
    BY <1>2, <2>1, <2>2, <2>3, <2>6, IdleIs, AdvanceLoop
<1> QED
  BY <1>1, <1>2, DraftSplit

LEMMA TransitionSplit ==
  ASSUME Transition
  PROVE  \/ \E o \in Outcomes : Answer(o)
         \/ \E event \in MoveKinds \cup {"resumed", "approval_resumed", "review_resumed"} :
              /\ Allowed(sess.state, event) /\ sess' = Written(event)
              /\ event = "approval_resumed" => sess.approval # 0
              /\ event # "resume"
              /\ inbox' = Completed(loop.cmd, "applied")
              /\ loop' = IF sess.state = "role_active" THEN LoopAt("stop") ELSE Idle
              /\ UNCHANGED content /\ UNCHANGED <<invs, host, bg, poll, task, bounds>>
<1>1. CASE ~(\E o \in Outcomes : Answer(o))
  <2>1. PICK event : event = eventOf(Kind(loop.cmd))
    OBVIOUS
  <2>2. Kind(loop.cmd) \in MoveKinds
    BY DEF Transition, Handling
  <2>3. /\ event \in MoveKinds \cup {"resumed", "approval_resumed", "review_resumed"}
        /\ event = "approval_resumed" => sess.approval # 0
        /\ event # "resume"
    BY <2>1, <2>2 DEF eventOf, resumeEvent, MoveKinds
  <2>4. /\ Allowed(sess.state, event) /\ Commit(event)
        /\ loop' = IF sess.state = "role_active" THEN LoopAt("stop") ELSE Idle
        /\ UNCHANGED <<content, invs, host, bg, poll, task, bounds>>
    BY <1>1, <2>1 DEF Transition, LoopAt, Outcomes
  <2> QED
    BY <2>3, <2>4 DEF Commit
<1> QED
  BY <1>1

LEMMA AdvanceTransition ==
  ASSUME TypeOK, Transition
  PROVE  Advances /\ LoopOnly
<1>1. CASE \E o \in Outcomes : Answer(o)
  BY <1>1, AdvanceAnswer
<1>2. ASSUME NEW event \in MoveKinds \cup {"resumed", "approval_resumed", "review_resumed"},
             Allowed(sess.state, event), sess' = Written(event),
             inbox' = Completed(loop.cmd, "applied"),
             loop' = IF sess.state = "role_active" THEN LoopAt("stop") ELSE Idle,
             UNCHANGED content, UNCHANGED <<invs, host, bg, poll, task, bounds>>
      PROVE  Advances /\ LoopOnly
  <2>1. LoopOnly /\ UNCHANGED content
    BY <1>2 DEF LoopOnly, host
  <2>2. event # "role_started"
    BY DEF MoveKinds
  <2>3. sess' \in SessionType /\ SessionGrows
    BY <1>2, <2>2, WritesSession
  <2>4. InboxType' /\ Extends(inbox, inbox')
    BY <1>2, CompletesInbox DEF Outcomes
  <2>5. loop' \in LoopType
    BY <1>2, TypesAre, IdleIs, LoopGoes DEF ThreadTypes, Outcomes
  <2> QED
    BY <2>1, <2>3, <2>4, <2>5, SteadyText, AdvanceLoop
<1> QED
  BY <1>1, <1>2, TransitionSplit

LEMMA AdvanceRecord ==
  ASSUME TypeOK, RecordOutcome
  PROVE  Advances /\ LoopOnly
<1>1. /\ LoopOnly /\ UNCHANGED sess /\ UNCHANGED content
      /\ inbox' = Completed(loop.cmd, loop.outcome) /\ loop' = Idle
  BY DEF RecordOutcome, LoopOnly, host
<1>2. loop.outcome \in Outcomes
  BY TypesAre DEF ThreadTypes, LoopType
<1> QED
  BY <1>1, <1>2, CompletesInbox, IdleIs, Steady, SteadyText, AdvanceLoop

-----------------------------------------------------------------------------
(* Types under the operations of commandMu *)

LEMMA ReturnIs ==
  ASSUME TypeOK, NEW outcome \in Outcomes, Return(outcome)
  PROVE  /\ loop' \in LoopType /\ poll' \in PassType /\ task' \in TaskType
         /\ task.by = "poll" =>
              /\ task' = Between /\ loop' = loop /\ poll'.at = "next"
              /\ poll'.todo = poll.todo \ {task.inv}
              /\ poll'.act = IF poll.act = task.inv THEN 0 ELSE poll.act
         /\ task.by # "poll" =>
              /\ task' = NoTask /\ poll' = poll
              /\ loop' = Idle \/ (loop'.at = "ended" /\ loop'.cmd = loop.cmd)
<1>1. loop \in LoopType /\ poll \in PassType /\ "applied" \in Outcomes
  BY TypesAre DEF ThreadTypes, Outcomes
<1>2. CASE task.by = "poll"
  <2>1. PICK a : a = (IF poll.act = task.inv THEN 0 ELSE poll.act) /\ a \in 0..MaxIds
    BY <1>1, SessionAssumption DEF PassType
  <2>2. PICK d : d = poll.todo \ {task.inv} /\ d \in SUBSET Ids
    BY <1>1 DEF PassType
  <2>3. /\ task' = Between /\ loop' = loop
        /\ poll' = [poll EXCEPT !.todo = d, !.at = "next", !.act = a]
    BY <1>2, <2>1, <2>2 DEF Return
  <2>4. poll' \in PassType /\ poll'.at = "next" /\ poll'.todo = d /\ poll'.act = a
    BY <1>1, <2>1, <2>2, <2>3 DEF PassType
  <2> QED
    BY <1>1, <1>2, <2>1, <2>2, <2>3, <2>4, NoTaskIs
<1>3. CASE task.by # "poll"
  <2>1. PICK o \in Outcomes : o = IF Kind(loop.cmd) = "submit_turn" THEN "applied" ELSE outcome
    BY <1>1
  <2>2. /\ task' = NoTask /\ poll' = poll
        /\ loop' = Idle \/ loop' = LoopEnds("ended", o)
    BY <1>3, <2>1 DEF Return, LoopEnds
  <2> QED
    BY <1>1, <1>3, <2>2, NoTaskIs, IdleIs, LoopGoes
<1> QED
  BY <1>2, <1>3

LEMMA FaultBounds ==
  ASSUME TypeOK, MayFail, UNCHANGED stops
  PROVE  BoundTypes'
BY TypesAre DEF MayFail, BoundTypes

\* Steps that touch neither the session nor its commands.
StoreSteady == UNCHANGED <<sess, content, inbox>>

LEMMA AdvanceSteady ==
  ASSUME TypeOK, StoreSteady, HostTypes', ThreadTypes', BoundTypes'
  PROVE  Advances
<1>1. UNCHANGED sess /\ UNCHANGED content /\ UNCHANGED inbox
  BY DEF StoreSteady
<1> QED
  BY <1>1, Steady, SteadyText, SteadyInbox, AdvancesFrom

LEMMA ThreadsFrom ==
  ASSUME TypeOK, UNCHANGED bg, loop' \in LoopType, poll' \in PassType, task' \in TaskType
  PROVE  ThreadTypes'
BY TypesAre DEF ThreadTypes

LEMMA ThreadsAre ==
  ASSUME TypeOK
  PROVE  /\ loop \in LoopType /\ bg \in WorkType /\ poll \in PassType /\ task \in TaskType
         /\ task.inv \in 0..MaxIds /\ poll.act \in 0..MaxIds /\ poll.todo \subseteq Ids
BY TypesAre DEF ThreadTypes, TaskType, PassType

LEMMA StartRoleSplit ==
  ASSUME StartRole, TypeOK
  PROVE  /\ loop.at = "role" /\ task.at = "free"
         /\ UNCHANGED <<store, host, bg, poll, bounds>>
         /\ \/ /\ \E from \in 0..MaxIds : task' = LaunchOf(sess.rev, from)
               /\ UNCHANGED loop
            \/ /\ \E o \in Outcomes : loop' = LoopEnds("ended", o)
               /\ UNCHANGED task
<1>1. PICK from \in 0..MaxIds :
        from = IF RoleOf(loop.cmd) = "ideation" THEN resumableInvocation("ideation") ELSE 0
  BY ResumableIs, SessionAssumption
<1>2. CASE Startable(loop.cmd)
  <2>1. task' = LaunchOf(sess.rev, from) /\ UNCHANGED loop
    BY <1>1, <1>2 DEF StartRole, LaunchOf
  <2> QED
    BY <2>1 DEF StartRole
<1>3. CASE ~Startable(loop.cmd)
  <2>1. UNCHANGED task /\ \E o \in Outcomes : loop' = LoopEnds("ended", o)
    BY <1>3 DEF StartRole, LoopEnds, Outcomes
  <2> QED
    BY <2>1 DEF StartRole
<1> QED
  BY <1>2, <1>3

LEMMA AdvanceStartRole ==
  ASSUME TypeOK, StartRole
  PROVE  Advances
<1>1. StoreSteady /\ UNCHANGED <<invs, snaps, box, proc, report>> /\ UNCHANGED <<bg, poll>>
      /\ UNCHANGED bounds
  BY StartRoleSplit DEF store, host, StoreSteady
<1>2. sess.rev \in Nat
  BY TypesAre, SessionIs
<1>3. loop' \in LoopType /\ task' \in TaskType /\ poll' \in PassType
  BY <1>1, <1>2, ThreadsAre, StartRoleSplit, LaunchIs, LoopGoes
<1> QED
  BY <1>1, <1>3, ThreadsFrom, SteadyHost, SteadyBounds, AdvanceSteady

LEMMA CancelRoleSplit ==
  ASSUME CancelRole
  PROVE  /\ loop.at = "stop" /\ task.at = "free"
         /\ UNCHANGED <<store, host, bg, poll, bounds>>
         /\ \/ Active = {} /\ loop' = Idle /\ UNCHANGED task
            \/ \E v \in Active : task' = CancelOf(v) /\ UNCHANGED loop
BY DEF CancelRole, CancelOf

LEMMA IdsAre ==
  Ids \subseteq 0..MaxIds /\ Ids \subseteq Nat /\ 0 \notin Ids /\ 0 \in 0..MaxIds
  /\ Rows \subseteq Ids /\ Active \subseteq Rows
BY SessionAssumption DEF Ids, Rows, Active

LEMMA AdvanceCancelRole ==
  ASSUME TypeOK, CancelRole
  PROVE  Advances
<1>1. StoreSteady /\ UNCHANGED <<invs, snaps, box, proc, report>> /\ UNCHANGED <<bg, poll>>
      /\ UNCHANGED bounds
  BY CancelRoleSplit DEF store, host, StoreSteady
<1>2. loop' \in LoopType /\ task' \in TaskType /\ poll' \in PassType
  BY <1>1, ThreadsAre, CancelRoleSplit, CancelIs, IdleIs, IdsAre
<1> QED
  BY <1>1, <1>2, ThreadsFrom, SteadyHost, SteadyBounds, AdvanceSteady

LEMMA SnapshotSplit ==
  ASSUME CreateContextSnapshot
  PROVE  /\ task.at = "snapshot" /\ UNCHANGED <<store, box, proc, report, bg>>
         /\ \/ /\ \E v \in Ids \ Rows : task' = AtStageOf("insert", v) /\ snaps' = snaps \cup {v}
               /\ UNCHANGED <<loop, poll, bounds>>
            \/ Return("refused") /\ MayFail /\ UNCHANGED <<snaps, stops>>
<1>1. CASE Unused # {} /\ task' = AtStageOf("insert", Least(Unused))
           /\ snaps' = snaps \cup {Least(Unused)} /\ UNCHANGED <<loop, poll, bounds>>
  <2>1. Least(Unused) \in Ids \ Rows
    BY <1>1, LeastIs DEF Unused
  <2> QED
    BY <1>1, <2>1 DEF CreateContextSnapshot, Working
<1> QED
  BY <1>1 DEF CreateContextSnapshot, Working, AtStageOf, Least

LEMMA AdvanceSnapshot ==
  ASSUME TypeOK, CreateContextSnapshot
  PROVE  Advances
<1>1. StoreSteady /\ UNCHANGED <<invs, box, proc, report, bg>>
  BY SnapshotSplit DEF store, StoreSteady
<1>2. snaps' \subseteq Ids
  BY SnapshotSplit, TypesAre DEF HostTypes
<1>3. HostTypes'
  BY <1>1, <1>2, TypesAre DEF HostTypes
<1>4. BoundTypes'
  BY SnapshotSplit, SteadyBounds, FaultBounds
<1>5. loop' \in LoopType /\ poll' \in PassType /\ task' \in TaskType
  BY SnapshotSplit, ThreadsAre, ReturnIs, TaskTakes, IdsAre DEF Outcomes, Stages
<1> QED
  BY <1>1, <1>3, <1>4, <1>5, ThreadsFrom, AdvanceSteady

LEMMA InsertSplit ==
  ASSUME StartSessionInvocation
  PROVE  /\ task.at = "insert" /\ UNCHANGED <<content, inbox, box, proc, report, bg>>
         /\ \/ /\ MayInsert /\ invs' = [invs EXCEPT ![task.inv] = NewRow]
               /\ sess' = Moved(sess, "role_active", sess.rev + 1)
               /\ task' = AtStage("worker") /\ UNCHANGED <<snaps, loop, poll, bounds>>
            \/ /\ snaps' = snaps \ {task.inv} /\ UNCHANGED <<sess, invs>>
               /\ \/ Return("conflict") /\ UNCHANGED bounds
                  \/ Return("transient") /\ MayFail /\ UNCHANGED stops
BY DEF StartSessionInvocation, Working, NewRow, Go, AtStage, Moved

LEMMA AdvanceInsert ==
  ASSUME TypeOK, StartSessionInvocation
  PROVE  Advances
<1>1. UNCHANGED content /\ UNCHANGED inbox /\ UNCHANGED <<box, proc, report, bg>>
  BY InsertSplit
<1>2. TextTypes' /\ InboxType' /\ Extends(inbox, inbox')
  BY <1>1, SteadyText, SteadyInbox
<1>3. CASE /\ MayInsert /\ invs' = [invs EXCEPT ![task.inv] = NewRow]
           /\ sess' = Moved(sess, "role_active", sess.rev + 1)
           /\ task' = AtStage("worker") /\ UNCHANGED <<snaps, loop, poll, bounds>>
  <2>1. sess \in SessionType /\ sess.rev \in Nat /\ sess.rev + 1 \in Nat
    BY TypesAre, SessionIs
  <2>a. "role_active" \in States
    BY NamedStates
  <2>2. sess' \in SessionType /\ sess'.rev = sess.rev + 1 /\ sess'.state = "role_active"
    BY <1>3, <2>1, <2>a, SessionMoved
  <2>3. task.at = "insert"
    BY InsertSplit
  <2>4. SessionGrows
    BY <1>3, <2>1, <2>2, <2>3 DEF SessionGrows, Inserts
  <2>5. NewRow \in RowType
    BY <2>1, ThreadsAre, NewRowIs
  <2>6. invs' \in [Ids -> RowType]
    BY <1>3, <2>5, TypesAre DEF HostTypes
  <2>7. HostTypes'
    BY <1>1, <1>3, <2>6, TypesAre DEF HostTypes
  <2>8. ThreadTypes'
    BY <1>1, <1>3, ThreadsAre, TaskGoes, ThreadsFrom DEF Stages
  <2> QED
    BY <1>2, <1>3, <2>2, <2>4, <2>7, <2>8, SteadyBounds, AdvancesFrom
<1>4. CASE /\ snaps' = snaps \ {task.inv} /\ UNCHANGED <<sess, invs>>
           /\ \/ Return("conflict") /\ UNCHANGED bounds
              \/ Return("transient") /\ MayFail /\ UNCHANGED stops
  <2>1. HostTypes'
    BY <1>1, <1>4, TypesAre DEF HostTypes
  <2>2. BoundTypes'
    BY <1>4, SteadyBounds, FaultBounds
  <2>3. loop' \in LoopType /\ poll' \in PassType /\ task' \in TaskType
    BY <1>4, ReturnIs DEF Outcomes
  <2> QED
    BY <1>1, <1>2, <1>4, <2>1, <2>2, <2>3, ThreadsFrom, Steady, AdvancesFrom
<1> QED
  BY <1>3, <1>4, InsertSplit

-----------------------------------------------------------------------------
(* What a launch and the end of an invocation do to threads *)

\* The operation goes on at another stage of the same invocation.
GoesOn ==
  /\ UNCHANGED <<loop, poll>>
  /\ task' \in TaskType /\ task'.by = task.by /\ task'.inv = task.inv

LEMMA GoIs ==
  ASSUME TypeOK, NEW a \in Stages, Go(a), UNCHANGED <<loop, poll>>
  PROVE  GoesOn /\ task'.at = a /\ task'.status = task.status
<1>1. task' = AtStage(a)
  BY DEF Go, AtStage
<1> QED
  BY <1>1, ThreadsAre, TaskGoes DEF GoesOn

LEMMA FailingIs ==
  ASSUME TypeOK, NEW lost \in BOOLEAN, Failing(lost), UNCHANGED <<loop, poll>>
  PROVE  GoesOn /\ task'.at = "release" /\ task'.status = "failed"
<1>1. task' = Failed(lost)
  BY DEF Failing, Failed
<1> QED
  BY <1>1, ThreadsAre, TaskFails DEF GoesOn

LEMMA KilledIs ==
  ASSUME TypeOK, NEW role
  PROVE  /\ Killed(role) \in [Ids -> ProcessType]
         /\ \A v \in Ids : /\ Killed(role)[v].at = "running" => proc[v].at = "running"
                           /\ v \in Rows /\ Mine(v) = role => Killed(role)[v].at # "running"
<1>1. \A v \in Ids : [proc[v] EXCEPT !.at = "exited"] \in ProcessType
  BY TypesAre DEF HostTypes, ProcessType
<1>2. \A v \in Ids : [proc[v] EXCEPT !.at = "exited"].at = "exited"
  BY TypesAre DEF HostTypes, ProcessType
<1>3. \A v \in Ids : proc[v] \in ProcessType
  BY TypesAre DEF HostTypes
<1>4. \A v \in Ids : Killed(role)[v] = IF v \in Rows /\ Mine(v) = role /\ proc[v].at = "running"
                                       THEN [proc[v] EXCEPT !.at = "exited"] ELSE proc[v]
  BY DEF Killed
<1>5. Killed(role) \in [Ids -> ProcessType]
  BY <1>1, <1>3 DEF Killed
<1> QED
  BY <1>2, <1>4, <1>5

\* Steps of an operation that goes on or returns, and what else they may change.
LEMMA AdvanceTask ==
  ASSUME TypeOK, StoreSteady, HostTypes', BoundTypes', UNCHANGED bg,
         GoesOn \/ (loop' \in LoopType /\ poll' \in PassType /\ task' \in TaskType)
  PROVE  Advances
<1>1. ThreadTypes'
  BY ThreadsAre, ThreadsFrom DEF GoesOn
<1> QED
  BY <1>1, AdvanceSteady

LEMMA WorkerSplit ==
  ASSUME StartWorker, TypeOK
  PROVE  /\ task.at = "worker" /\ UNCHANGED <<store, snaps, report, loop, bg, poll>> /\ GoesOn
         /\ \/ /\ box' = [box EXCEPT ![Mine(task.inv)] = task.inv] /\ proc' = Killed(Mine(task.inv))
               /\ task'.at = "process" /\ UNCHANGED bounds
            \/ /\ MayFail /\ task'.at = "release" /\ task'.status = "failed"
               /\ UNCHANGED <<box, proc, stops>>
<1>1. task.at = "worker" /\ UNCHANGED <<store, snaps, report, loop, bg, poll>>
  BY DEF StartWorker, Working
<1>2. CASE /\ box' = [box EXCEPT ![Mine(task.inv)] = task.inv] /\ proc' = Killed(Mine(task.inv))
           /\ Go("process") /\ UNCHANGED bounds
  BY <1>1, <1>2, GoIs DEF Stages
<1>3. CASE MayFail /\ Failing(FALSE) /\ UNCHANGED <<box, proc, stops>>
  BY <1>1, <1>3, FailingIs
<1> QED
  BY <1>2, <1>3 DEF StartWorker

LEMMA AdvanceWorker ==
  ASSUME TypeOK, StartWorker
  PROVE  Advances
<1>1. StoreSteady /\ UNCHANGED <<invs, snaps, report>> /\ UNCHANGED bg /\ GoesOn
  BY WorkerSplit DEF store, StoreSteady
<1>2. box' \in [Roles -> Ids \cup {0}] /\ proc' \in [Ids -> ProcessType]
  <2>1. task.inv \in Ids \cup {0}
    BY ThreadsAre, SessionAssumption DEF Ids
  <2> QED
    BY <2>1, WorkerSplit, KilledIs, TypesAre DEF HostTypes
<1>3. HostTypes'
  BY <1>1, <1>2, TypesAre DEF HostTypes
<1>4. BoundTypes'
  BY WorkerSplit, SteadyBounds, FaultBounds
<1> QED
  BY <1>1, <1>3, <1>4, AdvanceTask

\* A process starts, reveals its session, or ends.
LEMMA ProcessGoes ==
  ASSUME TypeOK, NEW v \in Ids, NEW a \in {"none", "running", "exited"}
  PROVE  /\ [proc EXCEPT ![v].at = a] \in [Ids -> ProcessType]
         /\ [proc EXCEPT ![v].at = a][v].at = a
         /\ \A w \in Ids : w # v => [proc EXCEPT ![v].at = a][w] = proc[w]
<1>1. PICK x : x = proc[v] /\ x \in ProcessType
  BY TypesAre DEF HostTypes
<1>2. [x EXCEPT !.at = a] \in ProcessType /\ [x EXCEPT !.at = a].at = a
  BY <1>1 DEF ProcessType
<1>3. proc \in [Ids -> ProcessType]
  BY TypesAre DEF HostTypes
<1> QED
  BY <1>1, <1>2, <1>3

LEMMA ProcessReveals ==
  ASSUME TypeOK, NEW v \in Ids, NEW n \in Nat
  PROVE  /\ [proc EXCEPT ![v].native = n] \in [Ids -> ProcessType]
         /\ \A w \in Ids : [proc EXCEPT ![v].native = n][w].at = proc[w].at
<1>1. PICK x : x = proc[v] /\ x \in ProcessType
  BY TypesAre DEF HostTypes
<1>2. [x EXCEPT !.native = n] \in ProcessType /\ [x EXCEPT !.native = n].at = x.at
  BY <1>1 DEF ProcessType
<1>3. proc \in [Ids -> ProcessType]
  BY TypesAre DEF HostTypes
<1> QED
  BY <1>1, <1>2, <1>3

LEMMA HeadlessSplit ==
  ASSUME StartHeadless, TypeOK
  PROVE  /\ task.at = "process" /\ UNCHANGED <<store, snaps, box, report, loop, bg, poll>> /\ GoesOn
         /\ \/ /\ box[Mine(task.inv)] = task.inv /\ proc' = [proc EXCEPT ![task.inv].at = "running"]
               /\ task'.at = "reveal" /\ UNCHANGED bounds
            \/ /\ task'.at = "release" /\ task'.status = "failed" /\ UNCHANGED proc
               /\ UNCHANGED bounds \/ (MayFail /\ UNCHANGED stops)
<1>1. task.at = "process" /\ UNCHANGED <<store, snaps, box, report, loop, bg, poll>>
  BY DEF StartHeadless, Working
<1>2. CASE /\ box[Mine(task.inv)] = task.inv /\ proc' = [proc EXCEPT ![task.inv].at = "running"]
           /\ Go("reveal") /\ UNCHANGED bounds
  BY <1>1, <1>2, GoIs DEF Stages
<1>3. CASE Failing(FALSE) /\ UNCHANGED proc /\ (UNCHANGED bounds \/ (MayFail /\ UNCHANGED stops))
  BY <1>1, <1>3, FailingIs
<1> QED
  BY <1>2, <1>3 DEF StartHeadless

LEMMA AdvanceHeadless ==
  ASSUME TypeOK, HoldInv, StartHeadless
  PROVE  Advances
<1>1. StoreSteady /\ UNCHANGED <<invs, snaps, box, report>> /\ UNCHANGED bg /\ GoesOn
  BY HeadlessSplit DEF store, StoreSteady
<1>2. task.inv \in Ids
  BY HeadlessSplit, IdsAre DEF HoldInv, About, Launching
<1>3. proc' \in [Ids -> ProcessType]
  <2>1. PICK v \in Ids : v = task.inv
    BY <1>2
  <2>2. [proc EXCEPT ![v].at = "running"] \in [Ids -> ProcessType]
    BY ProcessGoes
  <2>3. proc' = proc \/ proc' = [proc EXCEPT ![v].at = "running"]
    BY <2>1, HeadlessSplit
  <2> QED
    BY <2>2, <2>3, TypesAre DEF HostTypes
<1>4. HostTypes'
  BY <1>1, <1>3, TypesAre DEF HostTypes
<1>5. BoundTypes'
  BY HeadlessSplit, SteadyBounds, FaultBounds
<1> QED
  BY <1>1, <1>4, <1>5, AdvanceTask

LEMMA AwaitSplit ==
  ASSUME AwaitNativeSession, TypeOK
  PROVE  /\ task.at = "reveal" /\ UNCHANGED <<store, host, loop, bg, poll, bounds>> /\ GoesOn
         /\ task'.at = "record" \/ (task'.at = "release" /\ task'.status = "failed")
<1>1. task.at = "reveal" /\ UNCHANGED <<store, host, loop, bg, poll, bounds>>
  BY DEF AwaitNativeSession, Working
<1>2. CASE Go("record")
  BY <1>1, <1>2, GoIs DEF Stages
<1>3. CASE \E lost \in BOOLEAN : Failing(lost)
  BY <1>1, <1>3, FailingIs
<1>4. Go("record") \/ Failing(FALSE) \/ Failing(invs[task.inv].from # 0)
  BY DEF AwaitNativeSession
<1> QED
  BY <1>2, <1>3, <1>4

LEMMA AdvanceAwait ==
  ASSUME TypeOK, AwaitNativeSession
  PROVE  Advances
<1>1. StoreSteady /\ UNCHANGED <<invs, snaps, box, proc, report>> /\ UNCHANGED bg /\ GoesOn
      /\ UNCHANGED bounds
  BY AwaitSplit DEF store, host, StoreSteady
<1> QED
  BY <1>1, SteadyHost, SteadyBounds, AdvanceTask

LEMMA NativeSplit ==
  ASSUME RecordNativeSession
  PROVE  /\ task.at = "record" /\ UNCHANGED <<sess, content, inbox, host, bg>>
         /\ \/ /\ invs' = WithNative(task.inv, proc[task.inv].native)
               /\ Return("applied") /\ UNCHANGED bounds
            \/ MayFail /\ Return("transient") /\ UNCHANGED <<invs, stops>>
BY DEF RecordNativeSession, Working, WithNative

LEMMA AdvanceNative ==
  ASSUME TypeOK, HoldInv, RecordNativeSession
  PROVE  Advances
<1>1. StoreSteady /\ UNCHANGED <<snaps, box, proc, report>> /\ UNCHANGED bg
  BY NativeSplit DEF host, StoreSteady
<1>2. task.inv \in Ids
  BY NativeSplit, IdsAre DEF HoldInv, About, Launching
<1>3. proc[task.inv].native \in Nat
  BY <1>2, TypesAre DEF HostTypes, ProcessType
<1>4. invs' \in [Ids -> RowType]
  BY <1>2, <1>3, NativeSplit, RowNative, TypesAre DEF HostTypes
<1>5. HostTypes'
  BY <1>1, <1>4, TypesAre DEF HostTypes
<1>6. BoundTypes'
  BY NativeSplit, SteadyBounds, FaultBounds
<1>7. loop' \in LoopType /\ poll' \in PassType /\ task' \in TaskType
  BY NativeSplit, ReturnIs DEF Outcomes
<1> QED
  BY <1>1, <1>5, <1>6, <1>7, AdvanceTask

-----------------------------------------------------------------------------
(* Types at the end of an invocation *)

LEMMA ReleaseReadSplit ==
  ASSUME ReleaseRead, TypeOK
  PROVE  /\ task.at = "release" /\ UNCHANGED <<store, host, loop, bg, poll, bounds>> /\ GoesOn
         /\ task'.status = task.status
         /\ \/ Waits(task.inv) /\ task'.at = "releasing"
            \/ ~Waits(task.inv) /\ task'.at = "closing"
<1>1. task.at = "release" /\ UNCHANGED <<store, host, loop, bg, poll, bounds>>
  BY DEF ReleaseRead, Working
<1>2. PICK a \in Stages : Go(a) /\ a = IF Waits(task.inv) THEN "releasing" ELSE "closing"
  BY DEF ReleaseRead, Stages
<1> QED
  BY <1>1, <1>2, GoIs

LEMMA AdvanceReleaseRead ==
  ASSUME TypeOK, ReleaseRead
  PROVE  Advances
<1>1. StoreSteady /\ UNCHANGED <<invs, snaps, box, proc, report>> /\ UNCHANGED bg /\ GoesOn
      /\ UNCHANGED bounds
  BY ReleaseReadSplit DEF store, host, StoreSteady
<1> QED
  BY <1>1, SteadyHost, SteadyBounds, AdvanceTask

LEMMA ReleaseSplit ==
  ASSUME ReleaseSessionInvocation
  PROVE  /\ task.at = "releasing" /\ UNCHANGED <<content, inbox, host, bg>>
         /\ \/ /\ Waits(task.inv) /\ invs' = WithEnd(task.inv, task.status, task.lost)
               /\ sess' = Written(releaseEvent(task.inv))
               /\ Go("stop") /\ UNCHANGED <<loop, poll, bounds>>
            \/ /\ UNCHANGED <<sess, invs>>
               /\ \/ Return("conflict") /\ UNCHANGED bounds
                  \/ Return("transient") /\ MayFail /\ UNCHANGED stops
BY DEF ReleaseSessionInvocation, Working, Ended, WithEnd

LEMMA TaskFields ==
  ASSUME TypeOK
  PROVE  task.lost \in BOOLEAN /\ task.saw \in Nat /\ task.from \in 0..MaxIds
BY ThreadsAre DEF TaskType

\* The event that releases a role is one the table has for an active role.
LEMMA ReleaseEventIs ==
  ASSUME NEW v
  PROVE  /\ releaseEvent(v) \in {"draft_kept", "role_awaits_user"}
         /\ Allowed("role_active", releaseEvent(v)) /\ releaseEvent(v) # "role_started"
BY AlwaysAllowed DEF releaseEvent

LEMMA AdvanceRelease ==
  ASSUME TypeOK, HoldInv, ReleaseSessionInvocation
  PROVE  Advances
<1>1. UNCHANGED content /\ UNCHANGED inbox /\ UNCHANGED <<snaps, box, proc, report>> /\ UNCHANGED bg
  BY ReleaseSplit DEF host
<1>2. TextTypes' /\ InboxType' /\ Extends(inbox, inbox')
  BY <1>1, SteadyText, SteadyInbox
<1>3. CASE /\ Waits(task.inv) /\ invs' = WithEnd(task.inv, task.status, task.lost)
           /\ sess' = Written(releaseEvent(task.inv))
           /\ Go("stop") /\ UNCHANGED <<loop, poll, bounds>>
  <2>1. task.inv \in Ids /\ task.status \in Ends
    BY ReleaseSplit, IdsAre DEF HoldInv, About, Ending
  <2>2. invs' \in [Ids -> RowType]
    BY <1>3, <2>1, RowEnd, TaskFields, TypesAre DEF HostTypes
  <2>3. HostTypes'
    BY <1>1, <2>2, TypesAre DEF HostTypes
  <2>4. sess.state = "role_active"
    BY <1>3 DEF Waits
  <2>5. PICK e : e = releaseEvent(task.inv) /\ Allowed(sess.state, e) /\ e # "role_started"
    BY <2>4, ReleaseEventIs
  <2>6. sess' \in SessionType /\ SessionGrows
    BY <1>3, <2>5, WritesSession
  <2>7. GoesOn
    BY <1>3, GoIs DEF Stages
  <2>8. ThreadTypes'
    BY <1>1, <2>7, ThreadsAre, ThreadsFrom DEF GoesOn
  <2> QED
    BY <1>2, <1>3, <2>3, <2>6, <2>8, SteadyBounds, AdvancesFrom
<1>4. CASE /\ UNCHANGED <<sess, invs>>
           /\ \/ Return("conflict") /\ UNCHANGED bounds
              \/ Return("transient") /\ MayFail /\ UNCHANGED stops
  <2>1. HostTypes'
    BY <1>1, <1>4, TypesAre DEF HostTypes
  <2>2. BoundTypes'
    BY <1>4, SteadyBounds, FaultBounds
  <2>3. loop' \in LoopType /\ poll' \in PassType /\ task' \in TaskType
    BY <1>4, ReturnIs DEF Outcomes
  <2> QED
    BY <1>1, <1>2, <1>4, <2>1, <2>2, <2>3, ThreadsFrom, Steady, AdvancesFrom
<1> QED
  BY <1>3, <1>4, ReleaseSplit

LEMMA CloseSplit ==
  ASSUME CloseSessionInvocation, TypeOK
  PROVE  /\ task.at = "closing" /\ UNCHANGED <<sess, content, inbox, host, bg, bounds>>
         /\ invs' = WithEnd(task.inv, task.status, task.lost)
         /\ GoesOn /\ task'.at = "stop"
<1>1. /\ task.at = "closing" /\ UNCHANGED <<sess, content, inbox, host, loop, bg, poll, bounds>>
      /\ invs' = WithEnd(task.inv, task.status, task.lost) /\ Go("stop")
  BY DEF CloseSessionInvocation, Working, Ended, WithEnd
<1> QED
  BY <1>1, GoIs DEF Stages

LEMMA AdvanceClose ==
  ASSUME TypeOK, HoldInv, CloseSessionInvocation
  PROVE  Advances
<1>1. StoreSteady /\ UNCHANGED <<snaps, box, proc, report>> /\ UNCHANGED bg /\ UNCHANGED bounds
  BY CloseSplit DEF host, StoreSteady
<1>2. task.inv \in Ids /\ task.status \in Ends
  BY CloseSplit, IdsAre DEF HoldInv, About, Ending
<1>3. invs' \in [Ids -> RowType]
  BY <1>2, CloseSplit, RowEnd, TaskFields, TypesAre DEF HostTypes
<1>4. HostTypes'
  BY <1>1, <1>3, TypesAre DEF HostTypes
<1> QED
  BY <1>1, <1>4, CloseSplit, SteadyBounds, AdvanceTask

LEMMA StopWorkerSplit ==
  ASSUME StopWorker, TypeOK
  PROVE  /\ task.at = "stop" /\ UNCHANGED <<store, snaps, report, loop, bg, poll>> /\ GoesOn
         /\ \/ ~ownsWorker /\ task'.at = "clean" /\ UNCHANGED <<box, proc, bounds>>
            \/ /\ ownsWorker /\ box' = [box EXCEPT ![Mine(task.inv)] = 0]
               /\ proc' = Killed(Mine(task.inv)) /\ task'.at = "clean" /\ UNCHANGED bounds
            \/ task'.at = "dirty" /\ MayFail /\ UNCHANGED <<box, proc, stops>>
<1>1. task.at = "stop" /\ UNCHANGED <<store, snaps, report, loop, bg, poll>>
  BY DEF StopWorker, Working
<1>2. ASSUME NEW a \in {"clean", "dirty"}, Go(a) PROVE GoesOn /\ task'.at = a
  BY <1>1, <1>2, GoIs DEF Stages
<1>3. CASE ~ownsWorker
  BY <1>1, <1>2, <1>3 DEF StopWorker
<1>4. CASE ownsWorker
  BY <1>1, <1>2, <1>4 DEF StopWorker
<1> QED
  BY <1>3, <1>4

LEMMA AdvanceStopWorker ==
  ASSUME TypeOK, StopWorker
  PROVE  Advances
<1>1. StoreSteady /\ UNCHANGED <<invs, snaps, report>> /\ UNCHANGED bg /\ GoesOn
  BY StopWorkerSplit DEF store, StoreSteady
<1>2. box' \in [Roles -> Ids \cup {0}] /\ proc' \in [Ids -> ProcessType]
  BY StopWorkerSplit, KilledIs, TypesAre DEF HostTypes
<1>3. HostTypes'
  BY <1>1, <1>2, TypesAre DEF HostTypes
<1>4. BoundTypes'
  BY StopWorkerSplit, SteadyBounds, FaultBounds
<1> QED
  BY <1>1, <1>3, <1>4, AdvanceTask

LEMMA RemoveSplit ==
  ASSUME RemoveContextSnapshot, TypeOK
  PROVE  /\ task.at \in {"clean", "dirty"} /\ UNCHANGED <<store, box, proc, report, bg>>
         /\ snaps' \in {snaps, snaps \ {task.inv}}
         /\ UNCHANGED bounds \/ (MayFail /\ UNCHANGED stops)
         /\ \/ task.at = "clean" /\ GoesOn /\ task'.at = "mark"
            \/ \E o \in Outcomes : Return(o)
<1>1. After \in Outcomes
  BY DEF After, Outcomes
<1>2. CASE task.at = "clean" /\ Go("mark") /\ UNCHANGED <<loop, poll>>
           /\ snaps' = snaps \ {task.inv} /\ UNCHANGED bounds
           /\ UNCHANGED <<store, box, proc, report, bg>>
  BY <1>2, GoIs DEF Stages
<1>3. CASE Return(After) /\ snaps' \in {snaps, snaps \ {task.inv}}
           /\ (UNCHANGED bounds \/ (MayFail /\ UNCHANGED stops))
  BY <1>1, <1>3 DEF RemoveContextSnapshot
<1> QED
  BY <1>2, <1>3 DEF RemoveContextSnapshot

LEMMA AdvanceRemove ==
  ASSUME TypeOK, RemoveContextSnapshot
  PROVE  Advances
<1>1. StoreSteady /\ UNCHANGED <<invs, box, proc, report>> /\ UNCHANGED bg
  BY RemoveSplit DEF store, StoreSteady
<1>2. HostTypes'
  BY <1>1, RemoveSplit, TypesAre DEF HostTypes
<1>3. BoundTypes'
  BY RemoveSplit, SteadyBounds, FaultBounds
<1>4. GoesOn \/ (loop' \in LoopType /\ poll' \in PassType /\ task' \in TaskType)
  BY RemoveSplit, ReturnIs
<1> QED
  BY <1>1, <1>2, <1>3, <1>4, AdvanceTask

LEMMA MarkSplit ==
  ASSUME MarkReleased
  PROVE  /\ task.at = "mark" /\ UNCHANGED <<sess, content, inbox, host, bg, bounds>>
         /\ invs' = WithRelease(task.inv) /\ \E o \in Outcomes : Return(o)
<1>1. After \in Outcomes
  BY DEF After, Outcomes
<1> QED
  BY <1>1 DEF MarkReleased, Working, WithRelease

LEMMA AdvanceMark ==
  ASSUME TypeOK, HoldInv, MarkReleased
  PROVE  Advances
<1>1. StoreSteady /\ UNCHANGED <<snaps, box, proc, report>> /\ UNCHANGED bg /\ UNCHANGED bounds
  BY MarkSplit DEF host, StoreSteady
<1>2. task.inv \in Ids
  BY MarkSplit, IdsAre DEF HoldInv, About, Cleaning
<1>3. invs' \in [Ids -> RowType]
  BY <1>2, MarkSplit, RowRelease, TypesAre DEF HostTypes
<1>4. HostTypes'
  BY <1>1, <1>3, TypesAre DEF HostTypes
<1>5. loop' \in LoopType /\ poll' \in PassType /\ task' \in TaskType
  BY MarkSplit, ReturnIs
<1> QED
  BY <1>1, <1>4, <1>5, SteadyBounds, AdvanceTask

-----------------------------------------------------------------------------
(* Types under the reconcile pass *)

LEMMA ReconcileSplit ==
  ASSUME Reconcile
  PROVE  /\ poll.at = "idle" /\ task.at = "free" /\ UNCHANGED <<store, host, loop, bg, bounds>>
         /\ task' = Between
         /\ \E a : /\ poll' = [at |-> "next", todo |-> Unreleased, act |-> a]
                   /\ a \in Active \/ (Active = {} /\ a = 0)
BY DEF Reconcile

LEMMA PassMade ==
  ASSUME NEW a \in 0..MaxIds, NEW todo \in SUBSET Ids
  PROVE  [at |-> "next", todo |-> todo, act |-> a] \in PassType
BY DEF PassType

LEMMA AdvanceReconcile ==
  ASSUME TypeOK, Reconcile
  PROVE  Advances
<1>1. StoreSteady /\ UNCHANGED <<invs, snaps, box, proc, report>> /\ UNCHANGED bg
      /\ UNCHANGED bounds /\ UNCHANGED loop
  BY ReconcileSplit DEF store, host, StoreSteady
<1>2. PICK a : /\ poll' = [at |-> "next", todo |-> Unreleased, act |-> a]
               /\ a \in Active \/ (Active = {} /\ a = 0)
  BY ReconcileSplit
<1>3. a \in 0..MaxIds /\ Unreleased \in SUBSET Ids
  BY <1>2, IdsAre DEF Unreleased
<1>4. poll' \in PassType /\ task' \in TaskType /\ loop' \in LoopType
  BY <1>1, <1>2, <1>3, PassMade, NoTaskIs, ThreadsAre, ReconcileSplit
<1> QED
  BY <1>1, <1>4, SteadyHost, SteadyBounds, AdvanceTask

\* The pass turns to an item.
Busy == [poll EXCEPT !.at = "busy"]

LEMMA BusyIs ==
  ASSUME TypeOK
  PROVE  Busy \in PassType /\ Busy.at = "busy" /\ Busy.todo = poll.todo /\ Busy.act = poll.act
BY ThreadsAre DEF Busy, PassType

LEMMA RetrySplit ==
  ASSUME retryResourceRelease, TypeOK
  PROVE  /\ Held /\ poll' = Busy /\ UNCHANGED <<store, host, loop, bg, bounds>>
         /\ \E v \in poll.todo : task' = PassEnding("stop", v, invs[v].status)
<1>1. Least(poll.todo) \in poll.todo
  BY ThreadsAre, LeastIs DEF retryResourceRelease
<1> QED
  BY <1>1 DEF retryResourceRelease, Busy, PassEnding

LEMMA AdvanceRetry ==
  ASSUME TypeOK, retryResourceRelease
  PROVE  Advances
<1>1. StoreSteady /\ UNCHANGED <<invs, snaps, box, proc, report>> /\ UNCHANGED bg
      /\ UNCHANGED bounds /\ UNCHANGED loop
  BY RetrySplit DEF store, host, StoreSteady
<1>2. PICK v \in poll.todo : task' = PassEnding("stop", v, invs[v].status)
  BY RetrySplit
<1>3. v \in Ids /\ v \in 0..MaxIds /\ invs \in [Ids -> RowType]
  BY ThreadsAre, IdsAre, TypesAre DEF HostTypes
<1>4. invs[v].status \in Ends \cup {"none", "active"}
  BY <1>3, RowFields
<1>5. task' \in TaskType
  BY <1>2, <1>3, <1>4, PassBegins DEF Stages
<1>6. poll' \in PassType /\ loop' \in LoopType
  BY <1>1, RetrySplit, BusyIs, ThreadsAre
<1> QED
  BY <1>1, <1>5, <1>6, SteadyHost, SteadyBounds, AdvanceTask

LEMMA NoPassIs ==
  NoPass \in PassType /\ NoPass.at = "idle" /\ NoPass.todo = {} /\ NoPass.act = 0
BY SessionAssumption DEF NoPass, PassType

LEMMA AdvanceEndPass ==
  ASSUME TypeOK, EndPass
  PROVE  Advances
<1>1. StoreSteady /\ UNCHANGED <<invs, snaps, box, proc, report>> /\ UNCHANGED bg
      /\ UNCHANGED bounds /\ UNCHANGED loop /\ poll' = NoPass /\ task' = NoTask
  BY DEF EndPass, store, host, StoreSteady
<1> QED
  BY <1>1, NoPassIs, NoTaskIs, ThreadsAre, SteadyHost, SteadyBounds, AdvanceTask

LEMMA ReadSplit ==
  ASSUME ReconcileRead
  PROVE  /\ Held /\ poll.todo = {} /\ poll.act # 0 /\ poll' = Busy
         /\ UNCHANGED <<store, host, loop, bg, bounds>>
         /\ \/ Waits(poll.act) /\ task' = PassOver("look", poll.act)
            \/ ~Waits(poll.act) /\ task' = PassEnding("closing", poll.act, "cancelled")
BY DEF ReconcileRead, Busy, PassOver, PassEnding

LEMMA AdvanceRead ==
  ASSUME TypeOK, ReconcileRead
  PROVE  Advances
<1>1. StoreSteady /\ UNCHANGED <<invs, snaps, box, proc, report>> /\ UNCHANGED bg
      /\ UNCHANGED bounds /\ UNCHANGED loop
  BY ReadSplit DEF store, host, StoreSteady
<1>2. {"look", "closing"} \subseteq Stages /\ "cancelled" \in Ends \cup {"none", "active"}
  BY DEF Stages, Ends
<1>3. task' \in TaskType
  BY <1>2, ReadSplit, ThreadsAre, PassBegins
<1>4. poll' \in PassType /\ loop' \in LoopType
  BY <1>1, ReadSplit, BusyIs, ThreadsAre
<1> QED
  BY <1>1, <1>3, <1>4, SteadyHost, SteadyBounds, AdvanceTask

LEMMA LookSplit ==
  ASSUME Look, TypeOK
  PROVE  /\ task.at = "look" /\ UNCHANGED <<store, host, loop, bg, poll, bounds>> /\ GoesOn
         /\ task'.at \in {"accept", "inspect"}
<1>1. task.at = "look" /\ UNCHANGED <<store, host, loop, bg, poll, bounds>>
  BY DEF Look, Working
<1>2. PICK a \in {"accept", "inspect"} : Go(a)
  BY DEF Look
<1> QED
  BY <1>1, <1>2, GoIs DEF Stages

LEMMA InspectSplit ==
  ASSUME Inspect, TypeOK
  PROVE  /\ task.at = "inspect" /\ UNCHANGED <<store, host, bg, bounds>>
         /\ \/ GoesOn /\ task'.at \in {"adopt", "recheck"}
            \/ GoesOn /\ task'.at = "release" /\ task'.status = "failed"
            \/ Return("applied")
<1>1. task.at = "inspect" /\ UNCHANGED <<store, host, bg, bounds>>
  BY DEF Inspect, Working
<1>2. \/ \E a \in {"adopt", "recheck"} : Go(a) /\ UNCHANGED <<loop, poll>>
      \/ Failing(FALSE) /\ UNCHANGED <<loop, poll>>
      \/ Return("applied")
  BY DEF Inspect
<1> QED
  BY <1>1, <1>2, GoIs, FailingIs DEF Stages

LEMMA RecheckSplit ==
  ASSUME Recheck, TypeOK
  PROVE  /\ task.at = "recheck" /\ UNCHANGED <<store, host, loop, bg, poll, bounds>> /\ GoesOn
         /\ task'.at = "accept" \/ (task'.at = "release" /\ task'.status = "failed")
<1>1. task.at = "recheck" /\ UNCHANGED <<store, host, loop, bg, poll, bounds>>
  BY DEF Recheck, Working
<1>2. Go("accept") \/ \E lost \in BOOLEAN : Failing(lost)
  BY DEF Recheck
<1> QED
  BY <1>1, <1>2, GoIs, FailingIs DEF Stages

LEMMA RejectSplit ==
  ASSUME reject, TypeOK
  PROVE  /\ task.at = "accept" /\ UNCHANGED <<store, host, loop, bg, poll, bounds>> /\ GoesOn
         /\ task'.at = "release" /\ task'.status = "rejected"
<1>1. task.at = "accept" /\ UNCHANGED <<store, host, loop, bg, poll, bounds>>
      /\ task' = Concluding("release", "rejected")
  BY DEF reject, Working, Concluding
<1> QED
  BY <1>1, ThreadsAre, TaskConcludes DEF GoesOn, Stages, Ends

\* The looks at a role that only move the operation.
LEMMA AdvanceLooks ==
  ASSUME TypeOK, Look \/ Inspect \/ Recheck \/ reject
  PROVE  Advances
<1>1. /\ StoreSteady /\ UNCHANGED <<invs, snaps, box, proc, report>> /\ UNCHANGED bg
      /\ UNCHANGED bounds /\ (GoesOn \/ Return("applied"))
  BY LookSplit, InspectSplit, RecheckSplit, RejectSplit DEF store, host, StoreSteady
<1>2. GoesOn \/ (loop' \in LoopType /\ poll' \in PassType /\ task' \in TaskType)
  BY <1>1, ReturnIs DEF Outcomes
<1> QED
  BY <1>1, <1>2, SteadyHost, SteadyBounds, AdvanceTask

LEMMA AdoptSplit ==
  ASSUME adoptNativeSession, TypeOK
  PROVE  /\ task.at = "adopt" /\ UNCHANGED <<sess, content, inbox, host, bg, bounds>>
         /\ \/ Return("applied") /\ invs' \in {invs, WithNative(task.inv, proc[task.inv].native)}
            \/ GoesOn /\ task'.at = "release" /\ task'.status = "failed" /\ UNCHANGED invs
<1>1. task.at = "adopt" /\ UNCHANGED <<sess, content, inbox, host, bg, bounds>>
  BY DEF adoptNativeSession, Working
<1>2. \/ Return("applied") /\ invs' \in {invs, WithNative(task.inv, proc[task.inv].native)}
      \/ Failing(FALSE) /\ UNCHANGED <<invs, loop, poll>>
  BY DEF adoptNativeSession, WithNative
<1> QED
  BY <1>1, <1>2, FailingIs

LEMMA AdvanceAdopt ==
  ASSUME TypeOK, HoldInv, adoptNativeSession
  PROVE  Advances
<1>1. StoreSteady /\ UNCHANGED <<snaps, box, proc, report>> /\ UNCHANGED bg /\ UNCHANGED bounds
  BY AdoptSplit DEF host, StoreSteady
<1>2. PICK v \in Ids : v = task.inv
  BY AdoptSplit, IdsAre DEF HoldInv, About, Looking
<1>3. proc[v].native \in Nat
  BY TypesAre DEF HostTypes, ProcessType
<1>4. WithNative(v, proc[v].native) \in [Ids -> RowType] /\ invs \in [Ids -> RowType]
  BY <1>3, RowNative, TypesAre DEF HostTypes
<1>5. invs' \in [Ids -> RowType]
  BY <1>2, <1>4, AdoptSplit
<1>6. HostTypes'
  BY <1>1, <1>5, TypesAre DEF HostTypes
<1>7. GoesOn \/ (loop' \in LoopType /\ poll' \in PassType /\ task' \in TaskType)
  BY AdoptSplit, ReturnIs DEF Outcomes
<1> QED
  BY <1>1, <1>6, <1>7, SteadyBounds, AdvanceTask

\* The rows that an accepted report leaves.
AcceptedSession(v) ==
  LET s == Moved(sess, Next1("role_active", resultEvent(v)), sess.rev + 1)
  IN IF report[v] = "content"
     THEN IF invs[v].role = "planning" THEN insertPlanRevision(s) ELSE insertBriefRevision(s)
     ELSE s

LEMMA AcceptSplit ==
  ASSUME AcceptSessionRoleResult
  PROVE  /\ task.at = "accept" /\ UNCHANGED <<approvals, receipts, inbox, host, bg>>
         /\ \/ /\ StillPinned(task.inv) /\ sess' = AcceptedSession(task.inv)
               /\ turns' = Append(turns, Turn("role", task.inv))
               /\ invs' = WithStatus(task.inv, "accepted")
               /\ plans' = IF report[task.inv] = "content" /\ invs[task.inv].role = "planning"
                           THEN Append(plans, invs[task.inv].brief) ELSE plans
               /\ task' = Concluding("stop", "accepted") /\ UNCHANGED <<loop, poll, bounds>>
            \/ /\ UNCHANGED <<sess, plans, turns, invs>>
               /\ \/ Return("conflict") /\ UNCHANGED bounds
                  \/ Return("transient") /\ MayFail /\ UNCHANGED stops
<1>1. task.at = "accept" /\ UNCHANGED <<approvals, receipts, inbox, host, bg>>
  BY DEF AcceptSessionRoleResult, Working
<1>2. CASE /\ UNCHANGED <<sess, plans, turns, invs>>
           /\ \/ Return("conflict") /\ UNCHANGED bounds
              \/ Return("transient") /\ MayFail /\ UNCHANGED stops
  BY <1>1, <1>2
<1>3. CASE /\ StillPinned(task.inv)
           /\ turns' = Append(turns, Turn("role", task.inv))
           /\ invs' = WithStatus(task.inv, "accepted")
           /\ IF report[task.inv] = "content" /\ invs[task.inv].role = "planning"
              THEN /\ plans' = Append(plans, invs[task.inv].brief)
                   /\ sess' = insertPlanRevision(
                        Moved(sess, Next1("role_active", resultEvent(task.inv)), sess.rev + 1))
              ELSE /\ UNCHANGED plans
                   /\ LET s == Moved(sess, Next1("role_active", resultEvent(task.inv)), sess.rev + 1)
                      IN sess' = IF report[task.inv] = "content" THEN insertBriefRevision(s) ELSE s
           /\ task' = Concluding("stop", "accepted") /\ UNCHANGED <<loop, poll, bounds>>
  <2>1. sess' = AcceptedSession(task.inv)
    BY <1>3 DEF AcceptedSession
  <2> QED
    BY <1>1, <1>3, <2>1
<1> QED
  BY <1>2, <1>3 DEF AcceptSessionRoleResult, Moved, Concluding, WithStatus

LEMMA ResultEventIs ==
  ASSUME NEW v
  PROVE  /\ Allowed("role_active", resultEvent(v))
         /\ resultEvent(v) \in {"plan_drafted", "role_awaits_user", "draft_kept"}
BY AlwaysAllowed DEF resultEvent, releaseEvent

LEMMA AcceptedIs ==
  ASSUME TypeOK, NEW v
  PROVE  /\ AcceptedSession(v) \in SessionType /\ AcceptedSession(v).rev = sess.rev + 1
         /\ AcceptedSession(v).state \in {"awaiting_user", "draft_review"}
         /\ report[v] = "content" => AcceptedSession(v).approval = 0
         /\ report[v] # "content" => /\ AcceptedSession(v).approval = sess.approval
                                     /\ AcceptedSession(v).brief = sess.brief
<1>1. PICK e, n : /\ e = resultEvent(v) /\ n = Next1("role_active", e)
                  /\ n \in States /\ n \in {"awaiting_user", "draft_review"}
  <2>1. PICK e : e = resultEvent(v) /\ Allowed("role_active", e)
                 /\ e \in {"plan_drafted", "role_awaits_user", "draft_kept"}
    BY ResultEventIs
  <2>2. PICK t \in transitions : /\ t.on = e /\ t.to = Next1("role_active", e)
                                 /\ Leads(t) /\ t.to \in States
    BY <2>1, StepLeads
  <2>3. t.to \in {"awaiting_user", "draft_review"}
    BY <2>1, <2>2 DEF Leads
  <2> QED
    BY <2>1, <2>2, <2>3
<1>2. sess \in SessionType /\ sess.rev + 1 \in Nat
  BY TypesAre, SessionIs
<1>3. PICK s : s = Moved(sess, n, sess.rev + 1)
  OBVIOUS
<1>4. s \in SessionType /\ s.state = n /\ s.rev = sess.rev + 1
      /\ s.approval = sess.approval /\ s.brief = sess.brief
  BY <1>1, <1>2, <1>3, SessionMoved
<1>5. AcceptedSession(v) = IF report[v] = "content"
                           THEN IF invs[v].role = "planning" THEN insertPlanRevision(s)
                                ELSE insertBriefRevision(s)
                           ELSE s
  BY <1>1, <1>3 DEF AcceptedSession
<1> QED
  BY <1>1, <1>4, <1>5, RevisedIs

LEMMA AdvanceAccept ==
  ASSUME TypeOK, HoldInv, AcceptSessionRoleResult
  PROVE  Advances
<1>1. UNCHANGED <<approvals, receipts>> /\ UNCHANGED inbox /\ UNCHANGED <<snaps, box, proc, report>>
      /\ UNCHANGED bg
  BY AcceptSplit DEF host
<1>2. InboxType' /\ Extends(inbox, inbox')
  BY <1>1, SteadyInbox
<1>3. CASE /\ sess' = AcceptedSession(task.inv)
           /\ turns' = Append(turns, Turn("role", task.inv))
           /\ invs' = WithStatus(task.inv, "accepted")
           /\ plans' = IF report[task.inv] = "content" /\ invs[task.inv].role = "planning"
                       THEN Append(plans, invs[task.inv].brief) ELSE plans
           /\ task' = Concluding("stop", "accepted") /\ UNCHANGED <<loop, poll, bounds>>
  <2>1. PICK v \in Ids : v = task.inv
    BY AcceptSplit, IdsAre DEF HoldInv, About, Looking
  <2>2. sess' \in SessionType /\ sess.rev < sess'.rev /\ sess'.state \in {"awaiting_user", "draft_review"}
    BY <1>3, AcceptedIs, TypesAre, SessionIs
  <2>3. SessionGrows
    BY <2>2 DEF SessionGrows
  <2>4. invs \in [Ids -> RowType] /\ turns \in Seq(TurnType) /\ plans \in Seq(Nat)
    BY TypesAre DEF HostTypes, TextTypes
  <2>5. WithStatus(v, "accepted") \in [Ids -> RowType]
    BY <2>4, RowStatus DEF Ends
  <2>6. HostTypes'
    BY <1>1, <1>3, <2>1, <2>5, TypesAre DEF HostTypes
  <2>7. Turn("role", v) \in TurnType
    BY IdsAre DEF Turn, TurnType
  <2>8. turns' \in Seq(TurnType)
    BY <1>3, <2>1, <2>4, <2>7, SeqAppend
  <2>9. invs[v].brief \in Nat
    BY <2>4, RowFields
  <2>10. plans' \in Seq(Nat)
    BY <1>3, <2>1, <2>4, <2>9, SeqAppend
  <2>11. TextTypes'
    BY <1>1, <2>8, <2>10, TypesAre DEF TextTypes
  <2>12. task' \in TaskType /\ loop' \in LoopType /\ poll' \in PassType
    BY <1>3, ThreadsAre, TaskConcludes DEF Stages, Ends
  <2> QED
    BY <1>1, <1>2, <1>3, <2>2, <2>3, <2>6, <2>11, <2>12, ThreadsFrom, SteadyBounds, AdvancesFrom
<1>4. CASE /\ UNCHANGED <<sess, plans, turns, invs>>
           /\ \/ Return("conflict") /\ UNCHANGED bounds
              \/ Return("transient") /\ MayFail /\ UNCHANGED stops
  <2>1. HostTypes'
    BY <1>1, <1>4, TypesAre DEF HostTypes
  <2>2. BoundTypes'
    BY <1>4, SteadyBounds, FaultBounds
  <2>3. loop' \in LoopType /\ poll' \in PassType /\ task' \in TaskType
    BY <1>4, ReturnIs DEF Outcomes
  <2>4. StoreSteady
    BY <1>1, <1>4 DEF StoreSteady, content
  <2> QED
    BY <1>1, <1>4, <2>1, <2>2, <2>3, <2>4, AdvanceTask
<1> QED
  BY <1>3, <1>4, AcceptSplit

-----------------------------------------------------------------------------
(* The tracker command beside the loop *)

\* The work goes on for its command, or ends, at a place that pins nothing.
WorkKept ==
  /\ bg' \in WorkType
  /\ \/ bg' = NoWork
     \/ bg.at # "idle" /\ bg'.cmd = bg.cmd /\ bg'.at \notin {"approve", "start"}

LEMMA WorkKeeps ==
  ASSUME TypeOK, WorkPinned, WorkKept, Extends(inbox, inbox')
  PROVE  WorkPinned'
BY NoWorkIs DEF WorkKept, WorkPinned, Extends

\* Whatever else happens, a revision that the work read and that is current
\* still finds the session as it was.
LEMMA WorkStays ==
  ASSUME TypeOK, WorkPinned, UNCHANGED bg, SessionGrows, sess' \in SessionType, Extends(inbox, inbox')
  PROVE  WorkPinned'
<1>1. sess.rev \in Nat /\ sess'.rev \in Nat /\ sess.rev <= sess'.rev
      /\ (sess'.rev = sess.rev => sess' = sess)
  BY TypesAre, SessionIs DEF SessionGrows
<1>2. bg.saw \in Nat
  BY ThreadsAre DEF WorkType
<1>3. bg.at # "idle" => bg.cmd \in DOMAIN inbox'
  BY DEF WorkPinned, Extends
<1>4. bg.at = "approve" => bg.saw <= sess'.rev /\ (bg.saw = sess'.rev => sess'.state = "draft_review")
  BY <1>1, <1>2 DEF WorkPinned
<1>5. bg.at = "start" => /\ bg.saw <= sess'.rev
                         /\ bg.saw = sess'.rev => /\ sess'.state \in {"approved", "incomplete"}
                                                  /\ sess'.approval # 0
  BY <1>1, <1>2 DEF WorkPinned
<1> QED
  BY <1>3, <1>4, <1>5 DEF WorkPinned

\* Two conclusions of every step of the work.
WorkStep == Advances /\ BesideBg /\ WorkPinned'

LEMMA AdvanceWork ==
  ASSUME TypeOK, BesideBg, sess' \in SessionType, SessionGrows, InboxType', Extends(inbox, inbox'),
         approvals' \subseteq [id : Requests, plan : Nat], receipts' \subseteq Requests,
         bg' \in WorkType, BoundTypes'
  PROVE  Advances
<1>1. UNCHANGED <<plans, turns>> /\ UNCHANGED <<invs, snaps, box, proc, report>>
      /\ UNCHANGED <<loop, poll, task>>
  BY DEF BesideBg, host
<1>2. TextTypes' /\ ThreadTypes'
  BY <1>1, TypesAre DEF TextTypes, ThreadTypes
<1> QED
  BY <1>1, <1>2, SteadyHost, AdvancesFrom

LEMMA AdvanceWorkSteady ==
  ASSUME TypeOK, BesideBg, UNCHANGED <<sess, approvals, receipts, inbox>>, bg' \in WorkType, BoundTypes'
  PROVE  Advances
<1>1. UNCHANGED sess /\ UNCHANGED inbox /\ UNCHANGED approvals /\ UNCHANGED receipts
  OBVIOUS
<1>2. approvals' \subseteq [id : Requests, plan : Nat] /\ receipts' \subseteq Requests
  BY <1>1, TypesAre DEF TextTypes
<1> QED
  BY <1>1, <1>2, Steady, SteadyInbox, AdvanceWork

LEMMA WorkEndsIs ==
  ASSUME TypeOK, bg.at # "idle", NEW o \in Outcomes, WorkEnds(o)
  PROVE  WorkKept
<1>1. PICK a \in {"ended", "settle"} : a = IF o = "applied" THEN "ended" ELSE "settle"
  OBVIOUS
<1>2. bg' = WorkEndsAt(a, o) /\ a \in Works
  BY <1>1 DEF WorkEnds, WorkEndsAt, Works
<1> QED
  BY <1>1, <1>2, ThreadsAre, WorkGoes DEF WorkKept

LEMMA WorkGoIs ==
  ASSUME TypeOK, bg.at # "idle", NEW a \in {"publish", "execute", "ended"}, WorkGo(a)
  PROVE  WorkKept
<1>1. bg' = WorkAt(a) /\ a \in Works /\ "none" \in Outcomes
  BY DEF WorkGo, WorkAt, Works, Outcomes
<1> QED
  BY <1>1, ThreadsAre, WorkGoes DEF WorkKept

LEMMA WorkSawIs ==
  ASSUME TypeOK, NEW a \in {"approve", "start", "execute"}, WorkSaw(a)
  PROVE  bg' \in WorkType /\ bg'.at = a /\ bg'.cmd = bg.cmd /\ bg'.saw = sess.rev
<1>1. bg' = WorkSawAt(a, sess.rev) /\ a \in Works /\ "none" \in Outcomes /\ sess.rev \in Nat
  BY TypesAre, SessionIs DEF WorkSaw, WorkSawAt, Works, Outcomes
<1> QED
  BY <1>1, ThreadsAre, WorkGoes

\* A step of the work that writes nothing.
LEMMA WorkQuiet ==
  ASSUME TypeOK, WorkPinned, BesideBg, UNCHANGED <<sess, approvals, receipts, inbox>>, WorkKept,
         BoundTypes'
  PROVE  WorkStep
<1>1. Advances
  BY AdvanceWorkSteady DEF WorkKept
<1>2. Extends(inbox, inbox')
  BY <1>1 DEF Advances
<1> QED
  BY <1>1, <1>2, WorkKeeps DEF WorkStep

LEMMA StepBeginTracker ==
  ASSUME TypeOK, WorkPinned, NEW i \in Requests, BeginTracker(i)
  PROVE  WorkStep
<1>1. i \in DOMAIN inbox /\ i \in 0..MaxRequests
  BY SessionAssumption DEF BeginTracker, Pending, Requests
<1>2. BesideBg /\ UNCHANGED sess /\ UNCHANGED approvals /\ UNCHANGED receipts /\ UNCHANGED bounds
  BY DEF BeginTracker
<1>3. approvals' \subseteq [id : Requests, plan : Nat] /\ receipts' \subseteq Requests
  BY <1>2, TypesAre DEF TextTypes
<1>4. /\ bg' \in WorkType /\ bg'.cmd = i /\ bg'.at \in {"settle", "begun"}
      /\ InboxType' /\ Extends(inbox, inbox')
  <2>1. CASE Spent(i)
    <3>1. UNCHANGED inbox /\ bg' = WorkSpent(i)
      BY <2>1 DEF BeginTracker, WorkSpent
    <3> QED
      BY <1>1, <3>1, SteadyInbox, WorkTakes
  <2>2. CASE ~Spent(i)
    <3>1. inbox' = Begun(i) /\ bg' = WorkBegins(i)
      BY <2>2 DEF BeginTracker, WorkBegins
    <3> QED
      BY <1>1, <3>1, BeginsInbox, WorkTakes
  <2> QED
    BY <2>1, <2>2
<1>5. Advances
  BY <1>2, <1>3, <1>4, Steady, SteadyBounds, AdvanceWork
<1>6. WorkPinned'
  BY <1>1, <1>4 DEF WorkPinned, Extends
<1> QED
  BY <1>2, <1>5, <1>6 DEF WorkStep

LEMMA StepApproveRead ==
  ASSUME TypeOK, WorkPinned, ApproveRead
  PROVE  WorkStep
<1>1. bg.at = "begun" /\ BesideBg /\ UNCHANGED <<sess, approvals, receipts, inbox>> /\ BoundTypes'
  BY SteadyBounds DEF ApproveRead
<1>2. CASE WorkGo("publish") \/ WorkEnds("conflict") \/ WorkEnds("refused")
  <2>1. WorkKept
    BY <1>1, <1>2, WorkGoIs, WorkEndsIs DEF Outcomes
  <2> QED
    BY <1>1, <2>1, WorkQuiet
<1>3. CASE Allowed(sess.state, "approved") /\ WorkSaw("approve")
  <2>1. bg' \in WorkType /\ bg'.at = "approve" /\ bg'.cmd = bg.cmd /\ bg'.saw = sess.rev
    BY <1>3, WorkSawIs
  <2>2. sess.state = "draft_review"
    BY <1>3, StepLeads DEF Leads
  <2>3. Advances
    BY <1>1, <2>1, AdvanceWorkSteady
  <2>4. sess' = sess /\ DOMAIN inbox' = DOMAIN inbox /\ sess.rev \in Nat
    BY <1>1, TypesAre, SessionIs
  <2>5. WorkPinned'
    BY <1>1, <2>1, <2>2, <2>4 DEF WorkPinned
  <2> QED
    BY <1>1, <2>3, <2>5 DEF WorkStep
<1> QED
  BY <1>2, <1>3 DEF ApproveRead

\* The row and the approval that approve stores.
ApprovedSession == Rebound(Written("approved"), bg.cmd)

LEMMA ApproveSplit ==
  ASSUME ApprovePlan
  PROVE  /\ bg.at = "approve" /\ BesideBg /\ UNCHANGED <<receipts, inbox>>
         /\ \/ /\ sess.rev = bg.saw /\ Approvable /\ sess' = ApprovedSession
               /\ approvals' = approvals \cup {[id |-> bg.cmd, plan |-> Len(plans)]}
               /\ WorkGo("publish") /\ UNCHANGED bounds
            \/ /\ UNCHANGED <<sess, approvals>>
               /\ \/ \E o \in Outcomes : WorkEnds(o) /\ UNCHANGED bounds
                  \/ bg' = NoWork /\ MayFail /\ UNCHANGED stops
BY DEF ApprovePlan, ApprovedSession, Rebound, Outcomes

LEMMA ApprovedIs ==
  ASSUME TypeOK, WorkPinned, bg.at = "approve", sess.rev = bg.saw
  PROVE  /\ ApprovedSession \in SessionType /\ ApprovedSession.rev = sess.rev + 1
         /\ ApprovedSession.state = "approved" /\ ApprovedSession.approval = bg.cmd
         /\ ApprovedSession.brief = sess.brief
         /\ sess.state = "draft_review" /\ bg.cmd \in Requests
<1>1. sess.state = "draft_review" /\ bg.cmd \in DOMAIN inbox
  BY DEF WorkPinned
<1>2. sess \in SessionType /\ Allowed(sess.state, "approved")
  BY <1>1, TypesAre, AlwaysAllowed
<1>3. Next1(sess.state, "approved") = "approved"
  BY <1>2, StepLeads DEF Leads
<1>4. PICK s : s = Written("approved") /\ s \in SessionType /\ s.rev = sess.rev + 1
               /\ s.state = "approved" /\ s.brief = sess.brief
  BY <1>2, <1>3, WrittenIs
<1>5. PICK c \in 0..MaxRequests : c = bg.cmd
  BY ThreadsAre DEF WorkType
<1>6. bg.cmd \in Requests
  BY <1>1, TypesAre, InboxDomain
<1> QED
  BY <1>1, <1>4, <1>5, <1>6, SessionApproved DEF ApprovedSession

LEMMA StepApprove ==
  ASSUME TypeOK, WorkPinned, ApprovePlan
  PROVE  WorkStep
<1>1. bg.at = "approve" /\ BesideBg /\ UNCHANGED receipts /\ UNCHANGED inbox
  BY ApproveSplit
<1>2. CASE /\ sess.rev = bg.saw /\ Approvable /\ sess' = ApprovedSession
           /\ approvals' = approvals \cup {[id |-> bg.cmd, plan |-> Len(plans)]}
           /\ WorkGo("publish") /\ UNCHANGED bounds
  <2>1. /\ sess' \in SessionType /\ sess'.rev = sess.rev + 1 /\ sess'.state = "approved"
        /\ bg.cmd \in Requests
    BY <1>1, <1>2, ApprovedIs
  <2>2. sess.rev \in Nat /\ Len(plans) \in Nat
    BY TypesAre, SessionIs DEF TextTypes
  <2>3. SessionGrows
    BY <2>1, <2>2 DEF SessionGrows
  <2>4. approvals' \subseteq [id : Requests, plan : Nat] /\ receipts' \subseteq Requests
    BY <1>1, <1>2, <2>1, <2>2, TypesAre DEF TextTypes
  <2>5. WorkKept
    BY <1>1, <1>2, WorkGoIs
  <2>6. Advances
    BY <1>1, <1>2, <2>1, <2>3, <2>4, <2>5, SteadyInbox, SteadyBounds, AdvanceWork DEF WorkKept
  <2> QED
    BY <1>1, <2>5, <2>6, WorkKeeps DEF WorkStep, Advances
<1>3. CASE /\ UNCHANGED <<sess, approvals>>
           /\ \/ \E o \in Outcomes : WorkEnds(o) /\ UNCHANGED bounds
              \/ bg' = NoWork /\ MayFail /\ UNCHANGED stops
  <2>1. WorkKept
    BY <1>1, <1>3, WorkEndsIs, NoWorkIs DEF WorkKept
  <2>2. BoundTypes'
    BY <1>3, SteadyBounds, FaultBounds
  <2> QED
    BY <1>1, <1>3, <2>1, <2>2, WorkQuiet
<1> QED
  BY <1>2, <1>3, ApproveSplit

LEMMA StepPublishBegin ==
  ASSUME TypeOK, WorkPinned, PublishBegin
  PROVE  WorkStep
<1>1. bg.at = "begun" /\ BesideBg /\ UNCHANGED <<sess, approvals, receipts, inbox>> /\ BoundTypes'
  BY SteadyBounds DEF PublishBegin
<1>2. WorkGo("publish") \/ WorkEnds("conflict")
  BY DEF PublishBegin
<1>3. WorkKept
  BY <1>1, <1>2, WorkGoIs, WorkEndsIs DEF Outcomes
<1> QED
  BY <1>1, <1>3, WorkQuiet

LEMMA WithoutIs ==
  ASSUME NEW o \in Outcomes, approvedWithoutPublication(o)
  PROVE  \E p \in Outcomes : WorkEnds(p)
BY DEF approvedWithoutPublication, Outcomes

LEMMA PublishReadSplit ==
  ASSUME PublishRead
  PROVE  /\ bg.at = "publish" /\ BesideBg /\ UNCHANGED <<sess, approvals, receipts, inbox, bounds>>
         /\ \/ \E o \in Outcomes : WorkEnds(o)
            \/ WorkGo("execute")
            \/ /\ sess.approval # 0 /\ Allowed(sess.state, "publication_started")
               /\ WorkSaw(IF sess.state = "publishing" THEN "execute" ELSE "start")
<1>1. "refused" \in Outcomes /\ "applied" \in Outcomes
  BY DEF Outcomes
<1> QED
  BY <1>1, WithoutIs DEF PublishRead

LEMMA StepPublishRead ==
  ASSUME TypeOK, WorkPinned, PublishRead
  PROVE  WorkStep
<1>1. bg.at = "publish" /\ BesideBg /\ UNCHANGED <<sess, approvals, receipts, inbox>> /\ BoundTypes'
  BY PublishReadSplit, SteadyBounds
<1>2. CASE (\E o \in Outcomes : WorkEnds(o)) \/ WorkGo("execute")
  <2>1. WorkKept
    BY <1>1, <1>2, WorkEndsIs, WorkGoIs
  <2> QED
    BY <1>1, <2>1, WorkQuiet
<1>3. CASE /\ sess.approval # 0 /\ Allowed(sess.state, "publication_started")
           /\ WorkSaw(IF sess.state = "publishing" THEN "execute" ELSE "start")
  <2>1. PICK a \in {"execute", "start"} : a = IF sess.state = "publishing" THEN "execute" ELSE "start"
    OBVIOUS
  <2>2. bg' \in WorkType /\ bg'.at = a /\ bg'.cmd = bg.cmd /\ bg'.saw = sess.rev
    BY <1>3, <2>1, WorkSawIs
  <2>3. sess.state \in {"approved", "publishing", "incomplete"}
    BY <1>3, StepLeads DEF Leads
  <2>4. Advances
    BY <1>1, <2>2, AdvanceWorkSteady
  <2>5. sess' = sess /\ DOMAIN inbox' = DOMAIN inbox /\ sess.rev \in Nat
    BY <1>1, TypesAre, SessionIs
  <2>6. WorkPinned'
    BY <1>1, <1>3, <2>1, <2>2, <2>3, <2>5 DEF WorkPinned
  <2> QED
    BY <1>1, <2>4, <2>6 DEF WorkStep
<1> QED
  BY <1>2, <1>3, PublishReadSplit

\* The row that starts a publication.
StartedSession == [Written("publication_started") EXCEPT !.ledger = TRUE]

LEMMA StartSplit ==
  ASSUME PublishStart
  PROVE  /\ bg.at = "start" /\ BesideBg /\ UNCHANGED <<approvals, receipts, inbox>>
         /\ \/ sess.rev = bg.saw /\ sess' = StartedSession /\ WorkGo("execute") /\ UNCHANGED bounds
            \/ /\ UNCHANGED sess
               /\ \/ \E o \in Outcomes : WorkEnds(o) /\ UNCHANGED bounds
                  \/ bg' = NoWork /\ MayFail /\ UNCHANGED stops
<1>1. "conflict" \in Outcomes
  BY DEF Outcomes
<1> QED
  BY <1>1, WithoutIs DEF PublishStart, StartedSession

LEMMA StartedIs ==
  ASSUME TypeOK, WorkPinned, bg.at = "start", sess.rev = bg.saw
  PROVE  /\ StartedSession \in SessionType /\ StartedSession.rev = sess.rev + 1
         /\ StartedSession.state = "publishing" /\ StartedSession.approval = sess.approval
         /\ StartedSession.brief = sess.brief /\ sess.approval # 0
         /\ sess.state \in {"approved", "incomplete"}
<1>1. sess.state \in {"approved", "incomplete"} /\ sess.approval # 0
  BY DEF WorkPinned
<1>2. sess \in SessionType /\ Allowed(sess.state, "publication_started")
  BY <1>1, TypesAre, AlwaysAllowed
<1>3. Next1(sess.state, "publication_started") = "publishing"
  BY <1>2, StepLeads DEF Leads
<1>4. PICK s : s = Written("publication_started") /\ s \in SessionType /\ s.rev = sess.rev + 1
               /\ s.state = "publishing" /\ s.brief = sess.brief /\ s.approval = sess.approval
  BY <1>2, <1>3, WrittenIs
<1>5. StartedSession = [s EXCEPT !.ledger = TRUE]
  BY <1>4 DEF StartedSession
<1> QED
  BY <1>1, <1>4, <1>5 DEF SessionType

\* A step of the work that writes the row, with or without a receipt.
LEMMA WorkWrites ==
  ASSUME TypeOK, WorkPinned, BesideBg, UNCHANGED <<approvals, inbox>>, WorkKept, UNCHANGED bounds,
         sess' \in SessionType, sess'.rev = sess.rev + 1, sess'.state # "none", sess'.state # "role_active",
         receipts' \subseteq Requests
  PROVE  WorkStep
<1>1. UNCHANGED approvals /\ UNCHANGED inbox
  OBVIOUS
<1>2. SessionGrows
  BY TypesAre, SessionIs DEF SessionGrows
<1>3. approvals' \subseteq [id : Requests, plan : Nat]
  BY <1>1, TypesAre DEF TextTypes
<1>4. Advances
  BY <1>1, <1>2, <1>3, SteadyInbox, SteadyBounds, AdvanceWork DEF WorkKept
<1> QED
  BY <1>4, WorkKeeps DEF WorkStep, Advances

LEMMA StepPublishStart ==
  ASSUME TypeOK, WorkPinned, PublishStart
  PROVE  WorkStep
<1>1. bg.at = "start" /\ BesideBg /\ UNCHANGED <<approvals, receipts, inbox>>
  BY StartSplit
<1>2. CASE sess.rev = bg.saw /\ sess' = StartedSession /\ WorkGo("execute") /\ UNCHANGED bounds
  <2>1. /\ sess' \in SessionType /\ sess'.rev = sess.rev + 1 /\ sess'.state = "publishing"
    BY <1>1, <1>2, StartedIs
  <2>2. WorkKept
    BY <1>1, <1>2, WorkGoIs
  <2>3. receipts' \subseteq Requests
    BY <1>1, TypesAre DEF TextTypes
  <2> QED
    BY <1>1, <1>2, <2>1, <2>2, <2>3, WorkWrites
<1>3. CASE /\ UNCHANGED sess
           /\ \/ \E o \in Outcomes : WorkEnds(o) /\ UNCHANGED bounds
              \/ bg' = NoWork /\ MayFail /\ UNCHANGED stops
  <2>1. WorkKept
    BY <1>1, <1>3, WorkEndsIs, NoWorkIs DEF WorkKept
  <2>2. BoundTypes'
    BY <1>3, SteadyBounds, FaultBounds
  <2> QED
    BY <1>1, <1>3, <2>1, <2>2, WorkQuiet
<1> QED
  BY <1>2, <1>3, StartSplit

\* What the end of a publication writes.
LEMMA FinishSplit ==
  ASSUME FinishPublication
  PROVE  /\ bg.at = "execute" /\ BesideBg /\ UNCHANGED <<approvals, inbox, bounds>>
         /\ \E o \in Outcomes : WorkEnds(o)
         /\ \/ /\ receipts' = receipts \cup {bg.cmd}
               /\ \E event \in {"publication_incomplete", "publication_completed", "reconciled"} :
                    /\ Allowed(sess.state, event) /\ sess' = Written(event)
                    /\ event = "reconciled" => sess.state = "cancelled"
                    /\ event # "reconciled" => sess.state = "publishing"
            \/ UNCHANGED <<sess, receipts>>
<1>1. {"applied", "refused", "conflict"} \subseteq Outcomes
  BY DEF Outcomes
<1> QED
  BY <1>1, AlwaysAllowed DEF FinishPublication

LEMMA StepFinish ==
  ASSUME TypeOK, WorkPinned, FinishPublication
  PROVE  WorkStep
<1>1. /\ bg.at = "execute" /\ BesideBg /\ UNCHANGED <<approvals, inbox>> /\ UNCHANGED bounds
      /\ \E o \in Outcomes : WorkEnds(o)
  BY FinishSplit
<1>2. WorkKept
  BY <1>1, WorkEndsIs
<1>3. CASE UNCHANGED <<sess, receipts>>
  BY <1>1, <1>2, <1>3, SteadyBounds, WorkQuiet
<1>4. ASSUME receipts' = receipts \cup {bg.cmd},
             NEW event \in {"publication_incomplete", "publication_completed", "reconciled"},
             Allowed(sess.state, event), sess' = Written(event)
      PROVE  WorkStep
  <2>1. bg.cmd \in Requests
    BY <1>1, TypesAre, InboxDomain DEF WorkPinned
  <2>2. receipts' \subseteq Requests
    BY <1>4, <2>1, TypesAre DEF TextTypes
  <2>3. event # "role_started"
    BY <1>4
  <2>4. sess' \in SessionType /\ sess'.rev = sess.rev + 1 /\ sess'.state = Next1(sess.state, event)
    BY <1>4, TypesAre, WrittenIs
  <2>5. Next1(sess.state, event) \notin {"none", "role_active"}
    BY <1>4, <2>3, StepLeads DEF Leads
  <2> QED
    BY <1>1, <1>2, <2>2, <2>4, <2>5, WorkWrites
<1> QED
  BY <1>3, <1>4, FinishSplit

LEMMA StepSettle ==
  ASSUME TypeOK, WorkPinned, Settle
  PROVE  WorkStep
<1>1. /\ bg.at = "settle" /\ BesideBg /\ UNCHANGED <<approvals, inbox>> /\ UNCHANGED bounds
      /\ WorkGo("ended")
  BY DEF Settle
<1>2. WorkKept
  BY <1>1, WorkGoIs
<1>3. CASE sess.state # "publishing"
  <2>1. UNCHANGED <<sess, receipts>>
    BY <1>3 DEF Settle
  <2> QED
    BY <1>1, <1>2, <2>1, SteadyBounds, WorkQuiet
<1>4. CASE sess.state = "publishing"
  <2>0. sess' = Written("publication_incomplete") /\ receipts' = receipts \cup {bg.cmd}
    BY <1>4 DEF Settle
  <2>1. bg.cmd \in Requests
    BY <1>1, TypesAre, InboxDomain DEF WorkPinned
  <2>2. receipts' \subseteq Requests
    BY <2>0, <2>1, TypesAre DEF TextTypes
  <2>3. Allowed(sess.state, "publication_incomplete")
    BY <1>4, AlwaysAllowed
  <2>4. sess' \in SessionType /\ sess'.rev = sess.rev + 1
        /\ sess'.state = Next1(sess.state, "publication_incomplete")
    BY <2>0, <2>3, TypesAre, WrittenIs
  <2>5. Next1(sess.state, "publication_incomplete") \notin {"none", "role_active"}
    BY <2>3, StepLeads DEF Leads
  <2> QED
    BY <1>1, <1>2, <2>2, <2>4, <2>5, WorkWrites
<1> QED
  BY <1>3, <1>4

LEMMA StepRecordTracker ==
  ASSUME TypeOK, WorkPinned, RecordTracker
  PROVE  WorkStep
<1>1. /\ BesideBg /\ UNCHANGED sess /\ UNCHANGED approvals /\ UNCHANGED receipts /\ UNCHANGED bounds
      /\ bg' = NoWork /\ inbox' = Completed(bg.cmd, bg.outcome)
  BY DEF RecordTracker
<1>2. bg.outcome \in Outcomes
  BY ThreadsAre DEF WorkType
<1>3. InboxType' /\ Extends(inbox, inbox')
  BY <1>1, <1>2, CompletesInbox
<1>4. approvals' \subseteq [id : Requests, plan : Nat] /\ receipts' \subseteq Requests
  BY <1>1, TypesAre DEF TextTypes
<1>5. Advances
  BY <1>1, <1>3, <1>4, NoWorkIs, Steady, SteadyBounds, AdvanceWork
<1>6. WorkPinned'
  BY <1>1, <1>3, NoWorkIs, WorkKeeps DEF WorkKept
<1> QED
  BY <1>1, <1>5, <1>6 DEF WorkStep

LEMMA StepBeside ==
  ASSUME TypeOK, WorkPinned, Beside
  PROVE  WorkStep
BY StepBeginTracker, StepApproveRead, StepApprove, StepPublishBegin, StepPublishRead,
   StepPublishStart, StepFinish, StepSettle, StepRecordTracker DEF Beside

-----------------------------------------------------------------------------
(* The role process, faults, and a stop *)

\* What the outside does: nobody's thread moves.
Outside == UNCHANGED <<store, snaps, loop, bg, poll, task>>

LEMMA AdvanceOutside ==
  ASSUME TypeOK, Outside, box' \in [Roles -> Ids \cup {0}], proc' \in [Ids -> ProcessType],
         report' \in [Ids -> {"none", "content", "words", "bad"}], BoundTypes'
  PROVE  Advances
<1>1. StoreSteady /\ UNCHANGED invs /\ UNCHANGED snaps /\ UNCHANGED <<loop, bg, poll, task>>
  BY DEF Outside, StoreSteady, store
<1>2. HostTypes'
  BY <1>1, TypesAre DEF HostTypes
<1>3. ThreadTypes'
  BY <1>1, TypesAre DEF ThreadTypes
<1> QED
  BY <1>1, <1>2, <1>3, AdvanceSteady

LEMMA RevealSplit ==
  ASSUME TypeOK, NEW v \in Ids, Reveal(v)
  PROVE  /\ Outside /\ UNCHANGED <<box, report>> /\ BoundTypes'
         /\ \E n \in Nat : proc' = [proc EXCEPT ![v].native = n]
<1>1. Outside /\ UNCHANGED <<box, report>>
  BY DEF Reveal, Outside
<1>2. BoundTypes'
  BY SteadyBounds, FaultBounds DEF Reveal
<1>3. invs \in [Ids -> RowType] /\ proc \in [Ids -> ProcessType]
  BY TypesAre DEF HostTypes
<1>4. Expected(v) \in Nat
  <2>1. proc[v].native \in Nat
    BY <1>3 DEF ProcessType
  <2>2. invs[v].from \in 0..MaxIds
    BY <1>3, RowFields
  <2>3. CASE invs[v].from # 0
    <3>1. invs[v].from \in Ids
      BY <2>2, <2>3, SessionAssumption DEF Ids
    <3> QED
      BY <1>3, <2>3, <3>1, RowFields DEF Expected
  <2> QED
    BY <2>1, <2>3 DEF Expected
<1>5. invs[v].rev \in Nat
  BY <1>3, RowFields
<1>6. PICK e \in Nat : e = IF invs[v].from = 0 THEN invs[v].rev ELSE Expected(v)
  BY <1>4, <1>5
<1>7. proc' = [proc EXCEPT ![v].native = e] \/ proc' = [proc EXCEPT ![v].native = invs[v].rev]
  BY <1>6 DEF Reveal
<1> QED
  BY <1>1, <1>2, <1>5, <1>6, <1>7

\* A process that writes, reveals or ends starts nothing.
LEMMA ProcessSplit ==
  ASSUME TypeOK, NEW v \in Ids, Process(v)
  PROVE  /\ Outside /\ UNCHANGED box /\ Advances
         /\ \A w \in Ids : proc'[w].at = "running" => proc[w].at = "running"
<1>0. TypeOK /\ box \in [Roles -> Ids \cup {0}] /\ proc \in [Ids -> ProcessType]
      /\ report \in [Ids -> {"none", "content", "words", "bad"}]
  BY TypesAre DEF HostTypes
<1>1. CASE Reveal(v)
  <2>1. PICK n \in Nat : proc' = [proc EXCEPT ![v].native = n]
    BY <1>1, RevealSplit
  <2> QED
    BY <1>0, <1>1, <2>1, RevealSplit, ProcessReveals, AdvanceOutside
<1>2. CASE WriteReport(v)
  <2>1. Outside /\ UNCHANGED box /\ UNCHANGED proc /\ BoundTypes'
    BY <1>2, SteadyBounds DEF WriteReport, Outside
  <2>2. report' \in [Ids -> {"none", "content", "words", "bad"}]
    BY <1>0, <1>2 DEF WriteReport
  <2> QED
    BY <1>0, <2>1, <2>2, AdvanceOutside
<1>3. CASE Exit(v)
  <2>1. Outside /\ UNCHANGED box /\ UNCHANGED report /\ BoundTypes'
    BY <1>3, SteadyBounds DEF Exit, Outside
  <2>2. proc' = [proc EXCEPT ![v].at = "exited"]
    BY <1>3 DEF Exit
  <2>3. /\ proc' \in [Ids -> ProcessType] /\ proc'[v].at = "exited"
        /\ \A w \in Ids : w # v => proc'[w] = proc[w]
    BY <2>2, ProcessGoes
  <2> QED
    BY <1>0, <2>1, <2>3, AdvanceOutside
<1> QED
  BY <1>1, <1>2, <1>3 DEF Process

LEMMA DiesSplit ==
  ASSUME TypeOK, NEW role \in Roles, WorkerDies(role)
  PROVE  /\ Outside /\ Advances /\ box' = [box EXCEPT ![role] = 0] /\ proc' = Killed(role)
         /\ faults' > faults
<1>1. Outside /\ UNCHANGED report /\ box' = [box EXCEPT ![role] = 0] /\ proc' = Killed(role)
      /\ MayFail /\ UNCHANGED stops
  BY DEF WorkerDies, Outside
<1>2. box \in [Roles -> Ids \cup {0}] /\ report \in [Ids -> {"none", "content", "words", "bad"}]
  BY TypesAre DEF HostTypes
<1>3. box' \in [Roles -> Ids \cup {0}] /\ report' \in [Ids -> {"none", "content", "words", "bad"}]
  BY <1>1, <1>2
<1>4. faults' > faults
  BY <1>1, TypesAre DEF MayFail, BoundTypes
<1> QED
  BY <1>1, <1>3, <1>4, KilledIs, FaultBounds, AdvanceOutside

LEMMA StopSplit ==
  ASSUME TypeOK, Stop
  PROVE  /\ Advances /\ UNCHANGED <<store, host>>
         /\ loop' = Idle /\ bg' = NoWork /\ poll' = NoPass /\ task' = NoTask
<1>1. StoreSteady /\ UNCHANGED <<invs, snaps, box, proc, report>>
  BY DEF Stop, store, host, StoreSteady
<1>2. ThreadTypes'
  BY IdleIs, NoWorkIs, NoPassIs, NoTaskIs DEF Stop, ThreadTypes
<1>3. BoundTypes'
  BY TypesAre, SessionAssumption DEF Stop, BoundTypes
<1>4. Advances
  BY <1>1, <1>2, <1>3, SteadyHost, AdvanceSteady
<1> QED
  BY <1>4 DEF Stop

-----------------------------------------------------------------------------
(* Every step *)

LEMMA StutterIs ==
  ASSUME TypeOK, UNCHANGED vars
  PROVE  Advances /\ LoopOnly /\ UNCHANGED <<sess, content, inbox, loop>>
<1>1. StoreSteady /\ UNCHANGED <<invs, snaps, box, proc, report>> /\ UNCHANGED <<loop, bg, poll, task>>
      /\ UNCHANGED bounds
  BY DEF vars, store, host, StoreSteady
<1>2. ThreadTypes'
  BY <1>1, TypesAre DEF ThreadTypes
<1>3. Advances
  BY <1>1, <1>2, SteadyHost, SteadyBounds, AdvanceSteady
<1> QED
  BY <1>1, <1>3 DEF LoopOnly, StoreSteady

LEMMA AllAdvance ==
  ASSUME TypeOK, HoldInv, PinInv, [Next]_vars
  PROVE  Advances
<1>1. CASE \E kind \in Kinds : Submit(kind)
  BY <1>1, AdvanceSubmit
<1>2. CASE Commands
  BY <1>2, AdvanceBegin, AdvanceRefuse, AdvanceCreate, AdvanceTurn, AdvancePlanning, AdvanceBrief,
     AdvanceDraft, AdvanceTransition, AdvanceRecord, AdvanceStartRole, AdvanceCancelRole
     DEF Commands, PinInv
<1>3. CASE Launch
  BY <1>3, AdvanceSnapshot, AdvanceInsert, AdvanceWorker, AdvanceHeadless, AdvanceAwait, AdvanceNative
     DEF Launch
<1>4. CASE Release
  BY <1>4, AdvanceReleaseRead, AdvanceRelease, AdvanceClose, AdvanceStopWorker, AdvanceRemove,
     AdvanceMark DEF Release
<1>5. CASE Pass
  BY <1>5, AdvanceReconcile, AdvanceRetry, AdvanceEndPass, AdvanceRead, AdvanceLooks, AdvanceAdopt,
     AdvanceAccept DEF Pass
<1>6. CASE Beside
  BY <1>6, StepBeside DEF WorkStep, PinInv
<1>7. CASE \E v \in Ids : Process(v)
  BY <1>7, ProcessSplit
<1>8. CASE \E role \in Roles : WorkerDies(role)
  BY <1>8, DiesSplit
<1>9. CASE Stop
  BY <1>9, StopSplit
<1>10. CASE UNCHANGED vars
  BY <1>10, StutterIs
<1> QED
  BY <1>1, <1>2, <1>3, <1>4, <1>5, <1>6, <1>7, <1>8, <1>9, <1>10 DEF Next

-----------------------------------------------------------------------------
(* Who holds commandMu: what the steps leave *)

\* The rows stay what and as alive as they were; one may be marked released.
RowsKeep ==
  \A v \in Ids : /\ SameRow(invs'[v], invs[v]) /\ invs'[v].status = invs[v].status
                 /\ \/ invs'[v].released = invs[v].released
                    \/ task.at = "mark" /\ v = task.inv /\ v \notin Active

LEMMA RowsStay ==
  ASSUME UNCHANGED invs
  PROVE  RowsKeep
BY DEF RowsKeep, SameRow

\* What HoldInv says of the rows alone.
RowsInv == RolesKnown /\ Unended /\ OneActive

LEMMA RowsKept ==
  ASSUME RowsKeep
  PROVE  /\ Rows' = Rows /\ Active' = Active
         /\ \A v \in Ids : invs'[v].rev = invs[v].rev /\ invs'[v].role = invs[v].role
         /\ RowsInv => RowsInv'
<1>1. \A v \in Ids : invs'[v].status = invs[v].status /\ invs'[v].role = invs[v].role
                     /\ invs'[v].rev = invs[v].rev
  BY DEF RowsKeep, SameRow
<1>2. Rows' = Rows /\ Active' = Active
  BY <1>1 DEF Rows, Active
<1>3. Rows \subseteq Ids /\ Active \subseteq Ids
  BY DEF Rows, Active
<1>4. ASSUME RowsInv PROVE RolesKnown' /\ Unended' /\ OneActive'
  <2>1. RolesKnown' /\ OneActive'
    BY <1>1, <1>2, <1>3, <1>4 DEF RowsInv, RolesKnown, OneActive
  <2>2. Unended'
    BY <1>2, <1>3, <1>4 DEF RowsInv, Unended, RowsKeep
  <2> QED
    BY <2>1, <2>2
<1> QED
  BY <1>1, <1>2, <1>4 DEF RowsInv

\* Revisions only grow.
LEMMA RevisionGrows ==
  ASSUME TypeOK, Advances
  PROVE  /\ sess.rev \in Nat /\ sess'.rev \in Nat /\ sess.rev <= sess'.rev
         /\ sess'.rev = sess.rev => sess' = sess
         /\ \A v \in Ids : invs[v].rev \in Nat
<1>1. sess \in SessionType /\ invs \in [Ids -> RowType]
  BY TypesAre DEF HostTypes
<1>2. sess' \in SessionType
  BY DEF Advances, TypeOK
<1>3. \A v \in Ids : invs[v].rev \in Nat
  BY <1>1, RowFields
<1> QED
  BY <1>1, <1>2, <1>3, SessionIs DEF Advances, SessionGrows

\* Steps that leave task, poll and the rows alone; the command loop moves only
\* while no operation is its own.
LEMMA HoldFrame ==
  ASSUME TypeOK, HoldInv, Advances, RowsKeep, UNCHANGED <<task, poll>>,
         UNCHANGED loop \/ loop.at \notin {"role", "stop"}
  PROVE  HoldInv'
<1>1. /\ Rows' = Rows /\ Active' = Active /\ RowsInv'
      /\ \A v \in Ids : invs'[v].rev = invs[v].rev
  BY RowsKept DEF HoldInv, RowsInv
<1>2. task' = task /\ poll' = poll
  OBVIOUS
<1>3. task.by = "loop" => loop'.at = loop.at /\ loop.at \in {"role", "stop"}
  BY DEF HoldInv, Holder
<1>4. Holder'
  BY <1>2, <1>3 DEF HoldInv, Holder
<1>5. About'
  <2>1. ASSUME task.at = "closing" PROVE invs'[task.inv].rev < sess'.rev
    <3>1. task.inv \in Active /\ invs[task.inv].rev < sess.rev
      BY <2>1 DEF HoldInv, About, Ending
    <3>2. task.inv \in Ids
      BY <3>1 DEF Active, Rows
    <3> QED
      BY <1>1, <3>1, <3>2, RevisionGrows
  <2>2. /\ task.at = "insert" => task.inv \in Ids \ Rows
        /\ task.at \in (Launching \ {"snapshot", "insert"}) \cup Looking \cup Ending => task.inv \in Active
        /\ task.at \in Cleaning => task.inv \in Rows \ Active
        /\ task.at \in Ending => task.status \in Ends
    BY DEF HoldInv, About
  <2> QED
    BY <1>1, <1>2, <2>1, <2>2 DEF About
<1>6. PassKnows'
  BY <1>1, <1>2 DEF HoldInv, PassKnows
<1> QED
  BY <1>1, <1>4, <1>5, <1>6 DEF HoldInv, RowsInv

\* An operation that goes on to another stage of the same kind.
Worked == (Launching \ {"snapshot", "insert"}) \cup Looking \cup Ending

LEMMA HoldMove ==
  ASSUME TypeOK, HoldInv, Advances, RowsKeep, GoesOn,
         \/ task.at \in Worked /\ task'.at \in Worked
         \/ task.at \in Cleaning /\ task'.at \in Cleaning,
         task'.at \in Launching => task.at \in Launching,
         task'.at \in Looking => task.at \in Looking,
         task'.at = "closing" => invs[task.inv].rev < sess.rev,
         task'.at \in Ending => task'.status \in Ends
  PROVE  HoldInv'
<1>1. /\ Rows' = Rows /\ Active' = Active /\ RowsInv'
      /\ \A v \in Ids : invs'[v].rev = invs[v].rev
  BY RowsKept DEF HoldInv, RowsInv
<1>2. poll' = poll /\ loop' = loop /\ task'.by = task.by /\ task'.inv = task.inv
  BY DEF GoesOn
<1>3. task.at \notin {"free", "held"} /\ task'.at \notin {"free", "held"}
      /\ (task.at \in Cleaning <=> task'.at \in Cleaning) /\ task'.at \notin {"snapshot", "insert"}
  BY DEF Worked, Launching, Looking, Ending, Cleaning
<1>4. task # NoTask /\ task' # NoTask /\ task # Between
  BY <1>3, NoTaskIs
<1>5. Holder'
  BY <1>2, <1>3, <1>4 DEF HoldInv, Holder
<1>6. About'
  <2>1. task.at \in Worked => task.inv \in Active
    BY DEF HoldInv, About, Worked
  <2>2. task'.at \in Worked => task'.inv \in Active'
    BY <1>1, <1>2, <1>3, <2>1 DEF Worked, Launching, Looking, Ending, Cleaning
  <2>3. task'.at \in Cleaning => task'.inv \in Rows' \ Active'
    BY <1>1, <1>2, <1>3 DEF HoldInv, About
  <2>4. ASSUME task'.at = "closing" PROVE invs'[task'.inv].rev < sess'.rev
    <3>1. task.inv \in Ids
      BY <1>1, <1>2, <2>2, <2>4 DEF Worked, Ending, Active, Rows
    <3> QED
      BY <1>1, <1>2, <2>4, <3>1, RevisionGrows
  <2> QED
    BY <1>3, <2>2, <2>3, <2>4 DEF About, Worked
<1>7. PassKnows'
  <2>1. poll.at # "next"
    BY <1>4 DEF HoldInv, Holder
  <2> QED
    BY <1>1, <1>2, <1>3, <2>1 DEF HoldInv, PassKnows
<1> QED
  BY <1>1, <1>5, <1>6, <1>7 DEF HoldInv, RowsInv

\* An operation that returns to its thread.
LEMMA HoldReturn ==
  ASSUME TypeOK, HoldInv, RowsKeep, NEW o \in Outcomes, Return(o), task.at \notin {"free", "held"}
  PROVE  HoldInv'
<1>1. Rows' = Rows /\ Active' = Active /\ RowsInv'
  BY RowsKept DEF HoldInv, RowsInv
<1>2. task # NoTask /\ task # Between
  BY NoTaskIs
<1>3. CASE task.by = "poll"
  <2>1. /\ task' = Between /\ poll'.at = "next" /\ poll'.todo = poll.todo \ {task.inv}
        /\ poll'.act = IF poll.act = task.inv THEN 0 ELSE poll.act
    BY <1>3, ReturnIs
  <2>2. poll.at = "busy"
    BY <1>2, <1>3, ThreadsAre DEF HoldInv, Holder, PassType
  <2>3. Holder'
    BY <2>1, NoTaskIs DEF Holder, Launching, Looking
  <2>4. About'
    BY <2>1, NoTaskIs DEF About, Launching, Looking, Ending, Cleaning
  <2>5. PassKnows'
    <3>1. poll'.todo \subseteq Rows' \ Active'
      BY <1>1, <2>1 DEF HoldInv, PassKnows
    <3>2. poll'.act # 0 => poll'.act \in Active'
      BY <1>1, <2>1 DEF HoldInv, PassKnows
    <3>3. poll'.todo # {} => Active' \subseteq {poll'.act}
      <4>1. ASSUME poll'.todo # {} PROVE Active \subseteq {poll'.act}
        <5>1. poll.todo # {}
          BY <2>1, <4>1
        <5>2. task.inv \in poll.todo
          BY <2>2, <5>1 DEF HoldInv, PassKnows
        <5>3. task.inv \notin Active /\ Active \subseteq {poll.act}
          BY <5>1, <5>2 DEF HoldInv, PassKnows
        <5> QED
          BY <2>1, <5>3
      <4> QED
        BY <1>1, <4>1
    <3>4. task'.by = "poll" /\ poll'.at = "next"
      BY <2>1, NoTaskIs
    <3> QED
      BY <3>1, <3>2, <3>3, <3>4 DEF PassKnows
  <2> QED
    BY <1>1, <2>3, <2>4, <2>5 DEF HoldInv, RowsInv
<1>4. CASE task.by # "poll"
  <2>1. task' = NoTask /\ poll' = poll
    BY <1>4, ReturnIs
  <2>2. poll.at = "idle" /\ poll = NoPass
    BY <1>4 DEF HoldInv, Holder
  <2>3. Holder'
    BY <2>1, <2>2, NoTaskIs DEF Holder, Launching, Looking
  <2>4. About'
    BY <2>1, NoTaskIs DEF About, Launching, Looking, Ending, Cleaning
  <2>5. PassKnows'
    BY <2>1, <2>2, NoTaskIs, NoPassIs DEF PassKnows
  <2> QED
    BY <1>1, <2>3, <2>4, <2>5 DEF HoldInv, RowsInv
<1> QED
  BY <1>3, <1>4

\* An invocation ends: none is active any more.
RowsEnd(v) ==
  /\ v \in Active /\ invs'[v].status \in Ends
  /\ \A w \in Ids : /\ SameRow(invs'[w], invs[w])
                    /\ w # v => invs'[w].status = invs[w].status
                    /\ invs'[w].released = invs[w].released

LEMMA RowsEnded ==
  ASSUME HoldInv, NEW v, RowsEnd(v)
  PROVE  /\ Rows' = Rows /\ Active = {v} /\ Active' = {} /\ RowsInv'
         /\ \A w \in Ids : invs'[w].rev = invs[w].rev /\ invs'[w].role = invs[w].role
<1>1. \A w \in Ids : invs'[w].rev = invs[w].rev /\ invs'[w].role = invs[w].role
  BY DEF RowsEnd, SameRow
<1>2. Active = {v} /\ v \in Ids
  BY DEF RowsEnd, HoldInv, OneActive, Active, Rows
<1>3. invs'[v].status \notin {"none", "active"} /\ \A w \in Ids \ {v} : invs'[w].status = invs[w].status
  BY DEF RowsEnd, Ends
<1>4. invs[v].status = "active"
  BY <1>2 DEF Active
<1>5. Rows' = Rows
  BY <1>2, <1>3, <1>4 DEF Rows
<1>6. Active' = {}
  <2>1. ASSUME NEW w \in Active' PROVE FALSE
    <3>1. w \in Ids /\ invs'[w].status = "active"
      BY <2>1 DEF Active, Rows
    <3>2. w # v
      BY <1>3, <3>1
    <3>3. w \in Active
      BY <1>3, <3>1, <3>2 DEF Active, Rows
    <3> QED
      BY <1>2, <3>2, <3>3
  <2> QED
    BY <2>1
<1>7. RolesKnown'
  BY <1>1, <1>5 DEF HoldInv, RolesKnown, Rows
<1> QED
  BY <1>1, <1>2, <1>5, <1>6, <1>7 DEF RowsInv, Unended, OneActive

LEMMA HoldEnd ==
  ASSUME TypeOK, HoldInv, task.at \in Worked, RowsEnd(task.inv), GoesOn, task'.at = "stop"
  PROVE  HoldInv'
<1>1. Rows' = Rows /\ Active = {task.inv} /\ Active' = {} /\ RowsInv'
  BY RowsEnded
<1>2. poll' = poll /\ loop' = loop /\ task'.by = task.by /\ task'.inv = task.inv
  BY DEF GoesOn
<1>3. task.at \notin {"free", "held"} /\ task.at \notin Cleaning
  BY DEF Worked, Launching, Looking, Ending, Cleaning
<1>4. task # NoTask /\ task' # NoTask /\ task # Between
  BY <1>3, NoTaskIs
<1>5. Holder'
  BY <1>2, <1>3, <1>4 DEF HoldInv, Holder, Launching, Looking
<1>6. About'
  BY <1>1, <1>2 DEF About, Launching, Looking, Ending, Cleaning, Active, Rows
<1>7. PassKnows'
  <2>1. poll.at # "next" /\ (task.by = "poll" <=> poll.at # "idle")
    BY <1>4 DEF HoldInv, Holder
  <2>2. poll.at = "busy" => task.inv = poll.act /\ poll.todo = {}
    BY <1>3 DEF HoldInv, PassKnows
  <2>3. poll.at = "idle" => poll.act = 0 /\ poll.todo = {}
    BY NoPassIs DEF HoldInv, Holder
  <2>4. poll.at \in {"idle", "busy"}
    BY <2>1, ThreadsAre DEF PassType
  <2> QED
    BY <1>1, <1>2, <2>1, <2>2, <2>3, <2>4 DEF PassKnows, Cleaning
<1> QED
  BY <1>1, <1>5, <1>6, <1>7 DEF HoldInv, RowsInv

-----------------------------------------------------------------------------
(* Who holds commandMu: each step *)

LEMMA HoldIdle ==
  ASSUME TypeOK, HoldInv, task.at = "free"
  PROVE  task = NoTask /\ poll = NoPass /\ poll.todo = {} /\ poll.act = 0 /\ poll.at = "idle"
BY NoTaskIs, NoPassIs DEF HoldInv, Holder

LEMMA HoldStartRole ==
  ASSUME TypeOK, HoldInv, Advances, StartRole
  PROVE  HoldInv'
<1>1. /\ loop.at = "role" /\ task.at = "free" /\ UNCHANGED invs /\ UNCHANGED poll
      /\ \/ /\ \E from \in 0..MaxIds : task' = LaunchOf(sess.rev, from)
            /\ UNCHANGED loop
         \/ UNCHANGED task
  BY StartRoleSplit DEF store
<1>2. RowsKeep /\ sess.rev \in Nat
  BY <1>1, RowsStay, RevisionGrows
<1>3. poll = NoPass /\ poll.todo = {} /\ poll.act = 0 /\ poll.at = "idle" /\ task = NoTask
  BY <1>1, HoldIdle
<1>4. RowsInv' /\ Active' = Active
  BY <1>2, RowsKept DEF HoldInv, RowsInv
<1>5. ASSUME NEW from \in 0..MaxIds, task' = LaunchOf(sess.rev, from), UNCHANGED loop
      PROVE  HoldInv'
  <2>1. task'.by = "loop" /\ task'.at = "snapshot" /\ task' # NoTask /\ task'.inv = 0
    BY <1>2, <1>5, LaunchIs, NoTaskIs
  <2>2. Holder'
    BY <1>1, <1>3, <1>5, <2>1 DEF Holder, Launching, Looking
  <2>3. About'
    BY <2>1 DEF About, Launching, Looking, Ending, Cleaning
  <2>4. PassKnows'
    BY <1>1, <1>3, <2>1 DEF PassKnows, Cleaning
  <2> QED
    BY <1>4, <2>2, <2>3, <2>4 DEF HoldInv, RowsInv
<1>6. CASE UNCHANGED task
  <2>1. task'.by = "none" /\ task'.at = "free" /\ task' = NoTask
    BY <1>3, <1>6, NoTaskIs
  <2>2. Holder'
    BY <1>1, <1>3, <2>1 DEF Holder, Launching, Looking
  <2>3. About'
    BY <2>1 DEF About, Launching, Looking, Ending, Cleaning
  <2>4. PassKnows'
    BY <1>1, <1>3, <2>1 DEF PassKnows, Cleaning
  <2> QED
    BY <1>4, <2>2, <2>3, <2>4 DEF HoldInv, RowsInv
<1> QED
  BY <1>1, <1>5, <1>6

LEMMA HoldCancelRole ==
  ASSUME TypeOK, HoldInv, Advances, CancelRole
  PROVE  HoldInv'
<1>1. /\ loop.at = "stop" /\ task.at = "free" /\ UNCHANGED invs /\ UNCHANGED poll
      /\ \/ loop' = Idle /\ UNCHANGED task
         \/ \E v \in Active : task' = CancelOf(v) /\ UNCHANGED loop
  BY CancelRoleSplit DEF store
<1>2. RowsKeep
  BY <1>1, RowsStay
<1>3. poll = NoPass /\ poll.todo = {} /\ poll.act = 0 /\ poll.at = "idle" /\ task = NoTask
  BY <1>1, HoldIdle
<1>4. RowsInv' /\ Active' = Active /\ Rows' = Rows
  BY <1>2, RowsKept DEF HoldInv, RowsInv
<1>5. ASSUME NEW v \in Active, task' = CancelOf(v), UNCHANGED loop
      PROVE  HoldInv'
  <2>0. v \in 0..MaxIds
    BY IdsAre
  <2>1. /\ task'.by = "loop" /\ task'.at = "release" /\ task' # NoTask /\ task'.inv = v
        /\ task'.status = "cancelled"
    BY <1>5, <2>0, CancelIs, NoTaskIs
  <2>2. Holder'
    BY <1>1, <1>3, <1>5, <2>1 DEF Holder, Launching, Looking
  <2>3. About'
    BY <1>4, <2>1 DEF About, Launching, Looking, Ending, Cleaning, Ends
  <2>4. PassKnows'
    BY <1>1, <1>3, <2>1 DEF PassKnows, Cleaning
  <2> QED
    BY <1>4, <2>2, <2>3, <2>4 DEF HoldInv, RowsInv
<1>6. CASE loop' = Idle /\ UNCHANGED task
  <2>1. task'.by = "none" /\ task'.at = "free" /\ task' = NoTask
    BY <1>3, <1>6, NoTaskIs
  <2>2. Holder'
    BY <1>1, <1>3, <2>1 DEF Holder, Launching, Looking
  <2>3. About'
    BY <2>1 DEF About, Launching, Looking, Ending, Cleaning
  <2>4. PassKnows'
    BY <1>1, <1>3, <2>1 DEF PassKnows, Cleaning
  <2> QED
    BY <1>4, <2>2, <2>3, <2>4 DEF HoldInv, RowsInv
<1> QED
  BY <1>1, <1>5, <1>6

\* An operation of the command loop, which is not cleaning, without a pass.
LEMMA LoopHolds ==
  ASSUME HoldInv, task.at \in Launching
  PROVE  /\ task.by = "loop" /\ loop.at = "role" /\ poll.at = "idle" /\ poll = NoPass
         /\ poll.todo = {} /\ poll.act = 0
BY NoPassIs DEF HoldInv, Holder

LEMMA HoldSnapshot ==
  ASSUME TypeOK, HoldInv, Advances, CreateContextSnapshot
  PROVE  HoldInv'
<1>1. task.at = "snapshot" /\ UNCHANGED invs
  BY SnapshotSplit DEF store
<1>2. RowsKeep
  BY <1>1, RowsStay
<1>3. CASE Return("refused")
  BY <1>1, <1>2, <1>3, HoldReturn DEF Outcomes
<1>4. ASSUME NEW v \in Ids \ Rows, task' = AtStageOf("insert", v), UNCHANGED <<loop, poll>>
      PROVE  HoldInv'
  <2>1. task.by = "loop" /\ loop.at = "role" /\ poll.at = "idle" /\ poll = NoPass
        /\ poll.todo = {} /\ poll.act = 0
    BY <1>1, LoopHolds DEF Launching
  <2>2. v \in 0..MaxIds /\ "insert" \in Stages /\ task \in TaskType
    BY IdsAre, ThreadsAre DEF Stages
  <2>3. task'.by = "loop" /\ task'.at = "insert" /\ task'.inv = v /\ task' # NoTask
    BY <1>4, <2>1, <2>2, TaskTakes, NoTaskIs
  <2>4. RowsInv' /\ Active' = Active /\ Rows' = Rows
    BY <1>2, RowsKept DEF HoldInv, RowsInv
  <2>5. Holder'
    BY <1>4, <2>1, <2>3 DEF Holder, Launching, Looking
  <2>6. About'
    BY <1>4, <2>3, <2>4 DEF About, Launching, Looking, Ending, Cleaning
  <2>7. PassKnows'
    BY <1>4, <2>1, <2>3 DEF PassKnows, Cleaning
  <2> QED
    BY <2>4, <2>5, <2>6, <2>7 DEF HoldInv, RowsInv
<1> QED
  BY <1>3, <1>4, SnapshotSplit

\* The insertion of a row makes it the one active invocation.
LEMMA Inserted ==
  ASSUME TypeOK, HoldInv, task.at = "insert", Active = {}, invs' = [invs EXCEPT ![task.inv] = NewRow]
  PROVE  /\ task.inv \in Ids \ Rows /\ invs' \in [Ids -> RowType]
         /\ Rows' = Rows \cup {task.inv} /\ Active' = {task.inv} /\ RowsInv'
         /\ invs'[task.inv] = NewRow /\ NewRow.rev = sess.rev + 1 /\ NewRow.trigger = loop.cmd
         /\ NewRow.role \in Roles
         /\ \A v \in Ids \ {task.inv} : invs'[v] = invs[v]
<1>1. task.inv \in Ids \ Rows
  BY DEF HoldInv, About
<1>2. /\ NewRow \in RowType /\ NewRow.role \in Roles /\ NewRow.trigger = loop.cmd
      /\ NewRow.rev = sess.rev + 1 /\ NewRow.status = "active" /\ NewRow.released = FALSE
  BY NewRowIs, TypesAre DEF ThreadTypes
<1>3. invs \in [Ids -> RowType]
  BY TypesAre DEF HostTypes
<1>4. invs'[task.inv] = NewRow /\ \A v \in Ids \ {task.inv} : invs'[v] = invs[v]
  BY <1>1, <1>3
<1>5. invs' \in [Ids -> RowType]
  BY <1>1, <1>2, <1>3
<1>6. Rows' = Rows \cup {task.inv}
  BY <1>1, <1>2, <1>4 DEF Rows
<1>7. Active' = {task.inv}
  <2>1. task.inv \in Active'
    BY <1>2, <1>4, <1>6 DEF Active
  <2>2. ASSUME NEW v \in Active', v # task.inv PROVE FALSE
    <3>1. v \in Rows /\ invs'[v].status = "active" /\ v \in Ids
      BY <1>6, <2>2 DEF Active, Rows
    <3>2. invs'[v] = invs[v]
      BY <1>4, <2>2, <3>1
    <3>3. v \in Active
      BY <3>1, <3>2 DEF Active
    <3> QED
      BY <3>3
  <2> QED
    BY <2>1, <2>2
<1>8. RowsInv'
  <2>1. RolesKnown'
    <3>1. \A v \in Rows : v \in Ids \ {task.inv} /\ invs[v].role \in Roles
      BY <1>1 DEF Rows, HoldInv, RolesKnown
    <3> QED
      BY <1>2, <1>4, <1>6, <3>1 DEF RolesKnown
  <2>2. Unended' /\ OneActive'
    BY <1>2, <1>4, <1>7 DEF Unended, OneActive
  <2> QED
    BY <2>1, <2>2 DEF RowsInv
<1> QED
  BY <1>1, <1>2, <1>4, <1>5, <1>6, <1>7, <1>8

LEMMA HoldInsert ==
  ASSUME TypeOK, HoldInv, StartSessionInvocation
  PROVE  HoldInv'
<1>1. task.at = "insert"
  BY InsertSplit
<1>2. CASE \E o \in Outcomes : Return(o) /\ UNCHANGED invs
  BY <1>1, <1>2, RowsStay, HoldReturn
<1>3. CASE /\ MayInsert /\ invs' = [invs EXCEPT ![task.inv] = NewRow]
           /\ task' = AtStage("worker") /\ UNCHANGED <<loop, poll>>
  <2>1. task.by = "loop" /\ loop.at = "role" /\ poll.at = "idle" /\ poll = NoPass
        /\ poll.todo = {} /\ poll.act = 0
    BY <1>1, LoopHolds DEF Launching
  <2>2. "worker" \in Stages /\ task \in TaskType
    BY ThreadsAre DEF Stages
  <2>3. task'.by = "loop" /\ task'.at = "worker" /\ task'.inv = task.inv /\ task' # NoTask
    BY <1>3, <2>1, <2>2, TaskGoes, NoTaskIs
  <2>4. RowsInv' /\ Active' = {task.inv}
    BY <1>1, <1>3, Inserted DEF MayInsert
  <2>5. Holder'
    BY <1>3, <2>1, <2>3 DEF Holder, Launching, Looking
  <2>6. About'
    BY <2>3, <2>4 DEF About, Launching, Looking, Ending, Cleaning
  <2>7. PassKnows'
    BY <1>3, <2>1, <2>3 DEF PassKnows, Cleaning
  <2> QED
    BY <2>4, <2>5, <2>6, <2>7 DEF HoldInv, RowsInv
<1>4. "conflict" \in Outcomes /\ "transient" \in Outcomes
  BY DEF Outcomes
<1> QED
  BY <1>2, <1>3, <1>4, InsertSplit

LEMMA HoldLaunch ==
  ASSUME TypeOK, HoldInv, Advances, StartWorker \/ StartHeadless \/ AwaitNativeSession \/ RecordNativeSession
  PROVE  HoldInv'
<1>1. CASE StartWorker
  <2>1. /\ UNCHANGED invs /\ GoesOn /\ task.at = "worker"
        /\ task'.at = "process" \/ (task'.at = "release" /\ task'.status = "failed")
    BY <1>1, WorkerSplit DEF store
  <2> QED
    BY <2>1, RowsStay, HoldMove DEF Worked, Launching, Looking, Ending, Ends
<1>2. CASE StartHeadless
  <2>1. /\ UNCHANGED invs /\ GoesOn /\ task.at = "process"
        /\ task'.at = "reveal" \/ (task'.at = "release" /\ task'.status = "failed")
    BY <1>2, HeadlessSplit DEF store
  <2> QED
    BY <2>1, RowsStay, HoldMove DEF Worked, Launching, Looking, Ending, Ends
<1>3. CASE AwaitNativeSession
  <2>1. /\ UNCHANGED invs /\ GoesOn /\ task.at = "reveal"
        /\ task'.at = "record" \/ (task'.at = "release" /\ task'.status = "failed")
    BY <1>3, AwaitSplit DEF store
  <2> QED
    BY <2>1, RowsStay, HoldMove DEF Worked, Launching, Looking, Ending, Ends
<1>4. CASE RecordNativeSession
  <2>1. task.at = "record"
    BY <1>4, NativeSplit
  <2>2. task.inv \in Ids
    BY <2>1 DEF HoldInv, About, Launching, Active, Rows
  <2>3. invs \in [Ids -> RowType] /\ proc[task.inv].native \in Nat
    BY <2>2, TypesAre DEF HostTypes, ProcessType
  <2>4. RowsKeep
    <3>1. invs' = invs \/ invs' = WithNative(task.inv, proc[task.inv].native)
      BY <1>4, NativeSplit
    <3>2. CASE invs' = WithNative(task.inv, proc[task.inv].native)
      BY <2>2, <2>3, <3>2, RowNative DEF RowsKeep
    <3> QED
      BY <3>1, <3>2, RowsStay
  <2>5. \E o \in Outcomes : Return(o)
    BY <1>4, NativeSplit DEF Outcomes
  <2> QED
    BY <2>1, <2>4, <2>5, HoldReturn
<1> QED
  BY <1>1, <1>2, <1>3, <1>4

\* A row is pinned to a revision the session has reached; while it waits for
\* an invocation, that is the revision of its start.
LEMMA NotWaiting ==
  ASSUME TypeOK, PinInv, NEW v \in Rows, ~Waits(v)
  PROVE  invs[v].rev < sess.rev
<1>1. invs[v].rev \in Nat /\ sess.rev \in Nat
  BY IdsAre, TypesAre, SessionIs, RowFields DEF HostTypes
<1> QED
  BY <1>1 DEF PinInv, RowsPinned, Waits

LEMMA HoldRelease ==
  ASSUME TypeOK, HoldInv, PinInv, Advances, Release
  PROVE  HoldInv'
<1>0. invs \in [Ids -> RowType]
  BY TypesAre DEF HostTypes
<1>1. CASE ReleaseRead
  <2>1. /\ task.at = "release" /\ UNCHANGED invs /\ GoesOn /\ task'.status = task.status
        /\ \/ task'.at = "releasing"
           \/ ~Waits(task.inv) /\ task'.at = "closing"
    BY <1>1, ReleaseReadSplit DEF store
  <2>2. task.inv \in Rows /\ task.status \in Ends
    BY <2>1, IdsAre DEF HoldInv, About, Ending
  <2> QED
    BY <2>1, <2>2, RowsStay, NotWaiting, HoldMove DEF Worked, Launching, Looking, Ending
<1>2. CASE ReleaseSessionInvocation
  <2>1. task.at = "releasing"
    BY <1>2, ReleaseSplit
  <2>2. task.inv \in Active /\ task.inv \in Ids /\ task.status \in Ends /\ task.lost \in BOOLEAN
    BY <2>1, TaskFields DEF HoldInv, About, Ending, Active, Rows
  <2>3. CASE \E o \in Outcomes : Return(o) /\ UNCHANGED invs
    BY <2>1, <2>3, RowsStay, HoldReturn
  <2>4. CASE invs' = WithEnd(task.inv, task.status, task.lost) /\ Go("stop") /\ UNCHANGED <<loop, poll>>
    <3>1. RowsEnd(task.inv)
      BY <1>0, <2>2, <2>4, RowEnd DEF RowsEnd
    <3>2. GoesOn /\ task'.at = "stop"
      BY <2>4, GoIs DEF Stages
    <3> QED
      BY <2>1, <3>1, <3>2, HoldEnd DEF Worked, Ending
  <2> QED
    BY <1>2, <2>3, <2>4, ReleaseSplit DEF Outcomes
<1>3. CASE CloseSessionInvocation
  <2>1. /\ task.at = "closing" /\ invs' = WithEnd(task.inv, task.status, task.lost)
        /\ GoesOn /\ task'.at = "stop"
    BY <1>3, CloseSplit
  <2>2. task.inv \in Active /\ task.inv \in Ids /\ task.status \in Ends /\ task.lost \in BOOLEAN
    BY <2>1, TaskFields DEF HoldInv, About, Ending, Active, Rows
  <2>3. RowsEnd(task.inv)
    BY <1>0, <2>1, <2>2, RowEnd DEF RowsEnd
  <2> QED
    BY <2>1, <2>3, HoldEnd DEF Worked, Ending
<1>4. CASE StopWorker
  <2>1. task.at = "stop" /\ UNCHANGED invs /\ GoesOn /\ task'.at \in {"clean", "dirty"}
    BY <1>4, StopWorkerSplit DEF store
  <2> QED
    BY <2>1, RowsStay, HoldMove DEF Cleaning, Launching, Looking, Ending
<1>5. CASE RemoveContextSnapshot
  <2>1. /\ task.at \in {"clean", "dirty"} /\ UNCHANGED invs
        /\ \/ task.at = "clean" /\ GoesOn /\ task'.at = "mark"
           \/ \E o \in Outcomes : Return(o)
    BY <1>5, RemoveSplit DEF store
  <2>2. CASE GoesOn /\ task'.at = "mark"
    BY <2>1, <2>2, RowsStay, HoldMove DEF Cleaning, Launching, Looking, Ending
  <2>3. CASE \E o \in Outcomes : Return(o)
    BY <2>1, <2>3, RowsStay, HoldReturn
  <2> QED
    BY <2>1, <2>2, <2>3
<1>6. CASE MarkReleased
  <2>1. task.at = "mark" /\ invs' = WithRelease(task.inv) /\ \E o \in Outcomes : Return(o)
    BY <1>6, MarkSplit
  <2>2. task.inv \in Rows \ Active /\ task.inv \in Ids
    BY <2>1 DEF HoldInv, About, Cleaning, Rows
  <2>3. RowsKeep
    BY <1>0, <2>1, <2>2, RowRelease DEF RowsKeep
  <2> QED
    BY <2>1, <2>3, HoldReturn
<1> QED
  BY <1>1, <1>2, <1>3, <1>4, <1>5, <1>6 DEF Release

LEMMA HoldPass ==
  ASSUME TypeOK, HoldInv, PinInv, Advances, Pass
  PROVE  HoldInv'
<1>0. invs \in [Ids -> RowType]
  BY TypesAre DEF HostTypes
<1>a. ASSUME UNCHANGED invs
      PROVE  RowsKeep /\ RowsInv' /\ Rows' = Rows /\ Active' = Active
  BY <1>a, RowsStay, RowsKept DEF HoldInv, RowsInv
<1>1. CASE Reconcile
  <2>1. PICK a : /\ task.at = "free" /\ UNCHANGED invs /\ task' = Between
                 /\ poll' = [at |-> "next", todo |-> Unreleased, act |-> a]
                 /\ a \in Active \/ (Active = {} /\ a = 0)
    BY <1>1, ReconcileSplit DEF store
  <2>2. poll'.at = "next" /\ poll'.todo = Unreleased /\ poll'.act = a
    BY <2>1
  <2>3. Holder'
    BY <2>1, <2>2, NoTaskIs DEF Holder, Launching, Looking
  <2>4. About'
    BY <2>1, NoTaskIs DEF About, Launching, Looking, Ending, Cleaning
  <2>5. Active \subseteq {a}
    BY <2>1 DEF HoldInv, OneActive
  <2>6. PassKnows'
    BY <1>a, <2>1, <2>2, <2>5, NoTaskIs DEF PassKnows, Unreleased, Active, Cleaning
  <2> QED
    BY <1>a, <2>1, <2>3, <2>4, <2>6 DEF HoldInv, RowsInv
<1>2. CASE retryResourceRelease
  <2>1. PICK v \in poll.todo : /\ Held /\ poll' = Busy /\ UNCHANGED invs /\ UNCHANGED loop
                               /\ task' = PassEnding("stop", v, invs[v].status)
    BY <1>2, RetrySplit DEF store
  <2>2. poll'.at = "busy" /\ poll'.todo = poll.todo /\ poll'.act = poll.act
    BY <2>1, BusyIs
  <2>3. v \in Rows \ Active /\ v \in 0..MaxIds /\ v \in Ids
    BY IdsAre DEF HoldInv, PassKnows
  <2>4. "stop" \in Stages /\ invs[v].status \in Ends \cup {"none", "active"}
    BY <1>0, <2>3, RowFields DEF Stages
  <2>5. task'.by = "poll" /\ task'.at = "stop" /\ task'.inv = v
    BY <2>1, <2>3, <2>4, PassBegins
  <2>6. task.inv = 0 /\ task'.inv # 0
    BY <2>1, <2>3, <2>5, NoTaskIs, IdsAre DEF Held
  <2>7. Holder'
    BY <2>2, <2>5, NoTaskIs DEF Holder, Launching, Looking
  <2>8. About'
    BY <1>a, <2>1, <2>3, <2>5 DEF About, Launching, Looking, Ending, Cleaning
  <2>9. PassKnows'
    <3>1. poll.act # 0 => poll.act \in Active
      BY <2>6 DEF HoldInv, PassKnows
    <3>2. poll'.todo # {} /\ Active \subseteq {poll.act}
      BY <2>2 DEF HoldInv, PassKnows
    <3>3. poll.todo \subseteq Rows \ Active
      BY DEF HoldInv, PassKnows
    <3> QED
      BY <1>a, <2>1, <2>2, <2>5, <3>1, <3>2, <3>3 DEF PassKnows, Cleaning
  <2> QED
    BY <1>a, <2>1, <2>7, <2>8, <2>9 DEF HoldInv, RowsInv
<1>3. CASE EndPass
  <2>1. UNCHANGED invs /\ poll' = NoPass /\ task' = NoTask
    BY <1>3 DEF EndPass, store
  <2>2. Holder'
    BY <2>1, NoTaskIs, NoPassIs DEF Holder, Launching, Looking
  <2>3. About'
    BY <2>1, NoTaskIs DEF About, Launching, Looking, Ending, Cleaning
  <2>4. PassKnows'
    BY <2>1, NoTaskIs, NoPassIs DEF PassKnows
  <2> QED
    BY <1>a, <2>1, <2>2, <2>3, <2>4 DEF HoldInv, RowsInv
<1>4. CASE ReconcileRead
  <2>1. /\ Held /\ poll.todo = {} /\ poll.act # 0 /\ poll' = Busy /\ UNCHANGED invs /\ UNCHANGED sess
        /\ \/ task' = PassOver("look", poll.act)
           \/ ~Waits(poll.act) /\ task' = PassEnding("closing", poll.act, "cancelled")
    BY <1>4, ReadSplit DEF store
  <2>2. poll'.at = "busy" /\ poll'.todo = {} /\ poll'.act = poll.act
    BY <2>1, BusyIs
  <2>3. poll.act \in Active
    BY <2>1, NoTaskIs DEF HoldInv, PassKnows, Held
  <2>4. {"look", "closing"} \subseteq Stages /\ "cancelled" \in Ends /\ poll.act \in 0..MaxIds
        /\ poll.act \in Rows /\ Active \subseteq {poll.act}
    BY <2>3, ThreadsAre, IdsAre DEF Stages, Ends, HoldInv, OneActive
  <2>5. /\ task'.by = "poll" /\ task'.inv = poll.act
        /\ \/ task'.at = "look"
           \/ task'.at = "closing" /\ ~Waits(poll.act) /\ task'.status = "cancelled"
    BY <2>1, <2>4, PassBegins
  <2>6. Holder'
    BY <2>2, <2>5, NoTaskIs DEF Holder, Launching, Looking
  <2>7. About'
    BY <1>a, <2>1, <2>3, <2>4, <2>5, NotWaiting DEF About, Launching, Looking, Ending, Cleaning
  <2>8. PassKnows'
    BY <1>a, <2>1, <2>2, <2>4, <2>5 DEF PassKnows, Cleaning
  <2> QED
    BY <1>a, <2>1, <2>6, <2>7, <2>8 DEF HoldInv, RowsInv
<1>5. CASE Look
  <2>1. task.at = "look" /\ UNCHANGED invs /\ GoesOn /\ task'.at \in {"accept", "inspect"}
    BY <1>5, LookSplit DEF store
  <2> QED
    BY <1>a, <2>1, HoldMove DEF Worked, Launching, Looking, Ending
<1>6. CASE Inspect
  <2>1. task.at = "inspect" /\ UNCHANGED invs
    BY <1>6, InspectSplit DEF store
  <2>2. CASE GoesOn /\ task'.at \in {"adopt", "recheck"}
    BY <1>a, <2>1, <2>2, HoldMove DEF Worked, Launching, Looking, Ending
  <2>3. CASE GoesOn /\ task'.at = "release" /\ task'.status = "failed"
    BY <1>a, <2>1, <2>3, HoldMove DEF Worked, Launching, Looking, Ending, Ends
  <2>4. CASE Return("applied")
    BY <1>a, <2>1, <2>4, HoldReturn DEF Outcomes
  <2> QED
    BY <1>6, <2>2, <2>3, <2>4, InspectSplit
<1>7. CASE Recheck
  <2>1. /\ task.at = "recheck" /\ UNCHANGED invs /\ GoesOn
        /\ task'.at = "accept" \/ (task'.at = "release" /\ task'.status = "failed")
    BY <1>7, RecheckSplit DEF store
  <2> QED
    BY <1>a, <2>1, HoldMove DEF Worked, Launching, Looking, Ending, Ends
<1>8. CASE reject
  <2>1. task.at = "accept" /\ UNCHANGED invs /\ GoesOn /\ task'.at = "release" /\ task'.status = "rejected"
    BY <1>8, RejectSplit DEF store
  <2> QED
    BY <1>a, <2>1, HoldMove DEF Worked, Launching, Looking, Ending, Ends
<1>9. CASE adoptNativeSession
  <2>1. /\ task.at = "adopt"
        /\ \/ Return("applied") /\ invs' \in {invs, WithNative(task.inv, proc[task.inv].native)}
           \/ GoesOn /\ task'.at = "release" /\ task'.status = "failed" /\ UNCHANGED invs
    BY <1>9, AdoptSplit
  <2>2. task.inv \in Ids
    BY <2>1 DEF HoldInv, About, Looking, Active, Rows
  <2>3. proc[task.inv].native \in Nat
    BY <2>2, TypesAre DEF HostTypes, ProcessType
  <2>4. CASE Return("applied") /\ invs' = WithNative(task.inv, proc[task.inv].native)
    <3>1. RowsKeep
      BY <1>0, <2>2, <2>3, <2>4, RowNative DEF RowsKeep
    <3> QED
      BY <2>1, <2>4, <3>1, HoldReturn DEF Outcomes
  <2>5. CASE Return("applied") /\ UNCHANGED invs
    BY <1>a, <2>1, <2>5, HoldReturn DEF Outcomes
  <2>6. CASE GoesOn /\ task'.at = "release" /\ task'.status = "failed" /\ UNCHANGED invs
    BY <1>a, <2>1, <2>6, HoldMove DEF Worked, Launching, Looking, Ending, Ends
  <2> QED
    BY <2>1, <2>4, <2>5, <2>6
<1>10. CASE AcceptSessionRoleResult
  <2>1. task.at = "accept"
    BY <1>10, AcceptSplit
  <2>2. task.inv \in Active /\ task.inv \in Ids
    BY <2>1 DEF HoldInv, About, Looking, Active, Rows
  <2>3. CASE \E o \in Outcomes : Return(o) /\ UNCHANGED invs
    BY <1>a, <2>1, <2>3, HoldReturn
  <2>4. CASE /\ invs' = WithStatus(task.inv, "accepted") /\ task' = Concluding("stop", "accepted")
             /\ UNCHANGED <<loop, poll>>
    <3>1. "accepted" \in Ends /\ "stop" \in Stages /\ task \in TaskType
      BY ThreadsAre DEF Ends, Stages
    <3>2. RowsEnd(task.inv)
      BY <1>0, <2>2, <2>4, <3>1, RowStatus DEF RowsEnd
    <3>3. GoesOn /\ task'.at = "stop"
      BY <2>4, <3>1, TaskConcludes DEF GoesOn
    <3> QED
      BY <2>1, <3>2, <3>3, HoldEnd DEF Worked, Looking
  <2> QED
    BY <1>10, <2>3, <2>4, AcceptSplit DEF Outcomes
<1> QED
  BY <1>1, <1>2, <1>3, <1>4, <1>5, <1>6, <1>7, <1>8, <1>9, <1>10 DEF Pass

-----------------------------------------------------------------------------
(* Every step: commandMu, the rows, and the command loop *)

\* The loop's own steps find it at neither role nor stop.
LoopCommands == \/ \E i \in Requests : Begin(i)
                \/ RefuseContent \/ createSession \/ submitTurn \/ startPlanning \/ editBrief \/ editDraft
                \/ Transition \/ RecordOutcome

LEMMA LoopCommandsAre ==
  ASSUME TypeOK, PinInv, LoopCommands
  PROVE  LoopOnly /\ loop.at \in {"idle", "begun", "ended"}
<1>1. LoopOnly
  BY AdvanceBegin, AdvanceRefuse, AdvanceCreate, AdvanceTurn, AdvancePlanning, AdvanceBrief,
     AdvanceDraft, AdvanceTransition, AdvanceRecord DEF LoopCommands, PinInv
<1>2. loop.at \in {"idle", "begun", "ended"}
  BY DEF LoopCommands, Begin, RefuseContent, createSession, submitTurn, startPlanning, editBrief,
         editDraft, Transition, RecordOutcome, Handling
<1> QED
  BY <1>1, <1>2

LEMMA CommandsAre ==
  Commands <=> LoopCommands \/ StartRole \/ CancelRole
BY DEF Commands, LoopCommands

LEMMA AllHold ==
  ASSUME TypeOK, HoldInv, PinInv, [Next]_vars
  PROVE  HoldInv'
<1>0. Advances
  BY AllAdvance
<1>1. CASE \E kind \in Kinds : Submit(kind)
  <2>1. UNCHANGED invs /\ UNCHANGED <<task, poll>> /\ UNCHANGED loop
    BY <1>1 DEF Submit
  <2> QED
    BY <1>0, <2>1, RowsStay, HoldFrame
<1>2. CASE LoopCommands
  <2>1. UNCHANGED invs /\ UNCHANGED <<task, poll>> /\ loop.at \notin {"role", "stop"}
    BY <1>2, LoopCommandsAre DEF LoopOnly
  <2> QED
    BY <1>0, <2>1, RowsStay, HoldFrame
<1>3. CASE StartRole \/ CancelRole
  BY <1>0, <1>3, HoldStartRole, HoldCancelRole
<1>4. CASE Launch
  BY <1>0, <1>4, HoldSnapshot, HoldInsert, HoldLaunch DEF Launch
<1>5. CASE Release
  BY <1>0, <1>5, HoldRelease
<1>6. CASE Pass
  BY <1>0, <1>6, HoldPass
<1>7. CASE Beside
  <2>1. UNCHANGED invs /\ UNCHANGED <<task, poll>> /\ UNCHANGED loop
    BY <1>7, StepBeside DEF WorkStep, BesideBg, PinInv
  <2> QED
    BY <1>0, <2>1, RowsStay, HoldFrame
<1>8. CASE (\E v \in Ids : Process(v)) \/ (\E role \in Roles : WorkerDies(role))
  <2>1. UNCHANGED invs /\ UNCHANGED <<task, poll>> /\ UNCHANGED loop
    BY <1>8, ProcessSplit, DiesSplit DEF Outside, store
  <2> QED
    BY <1>0, <2>1, RowsStay, HoldFrame
<1>9. CASE Stop
  <2>1. UNCHANGED invs /\ poll' = NoPass /\ task' = NoTask
    BY <1>9, StopSplit DEF store
  <2>2. RowsInv'
    BY <2>1, RowsStay, RowsKept DEF HoldInv, RowsInv
  <2>3. Holder'
    BY <2>1, NoTaskIs, NoPassIs DEF Holder, Launching, Looking
  <2>4. About'
    BY <2>1, NoTaskIs DEF About, Launching, Looking, Ending, Cleaning
  <2>5. PassKnows'
    BY <2>1, NoTaskIs, NoPassIs DEF PassKnows
  <2> QED
    BY <2>2, <2>3, <2>4, <2>5 DEF HoldInv, RowsInv
<1>10. CASE UNCHANGED vars
  <2>1. UNCHANGED invs /\ UNCHANGED <<task, poll>> /\ UNCHANGED loop
    BY <1>10 DEF vars, store
  <2> QED
    BY <1>0, <2>1, RowsStay, HoldFrame
<1> QED
  BY <1>1, <1>2, <1>3, <1>4, <1>5, <1>6, <1>7, <1>8, <1>9, <1>10, CommandsAre DEF Next

\* Either the rows stay, or one is inserted, or the active one ends.  Only a
\* row that the session has left behind ends without a write of the session.
RowStep ==
  \/ RowsKeep
  \/ Inserts /\ sess'.rev = sess.rev + 1 /\ sess'.state = "role_active" /\ task' = AtStage("worker")
     /\ UNCHANGED <<content, inbox, loop, box, proc>>
  \/ RowsEnd(task.inv) /\ (sess' = sess => invs[task.inv].rev < sess.rev)
     /\ UNCHANGED <<inbox, loop, box, proc>> /\ GoesOn /\ task'.at = "stop"

LEMMA RowNativeKeeps ==
  ASSUME TypeOK, HoldInv, task.at \in Worked, invs' = WithNative(task.inv, proc[task.inv].native)
  PROVE  RowsKeep
<1>1. task.inv \in Ids
  BY DEF HoldInv, About, Worked, Active, Rows
<1>2. invs \in [Ids -> RowType] /\ proc[task.inv].native \in Nat
  BY <1>1, TypesAre DEF HostTypes, ProcessType
<1> QED
  BY <1>1, <1>2, RowNative DEF RowsKeep

LEMMA InsertRows ==
  ASSUME TypeOK, HoldInv, StartSessionInvocation
  PROVE  RowStep
<1>1. CASE /\ MayInsert /\ invs' = [invs EXCEPT ![task.inv] = NewRow]
           /\ sess' = Moved(sess, "role_active", sess.rev + 1)
           /\ task' = AtStage("worker") /\ UNCHANGED <<snaps, loop, poll, bounds>>
  <2>1. sess \in SessionType /\ sess.rev \in Nat /\ sess.rev + 1 \in Nat
    BY TypesAre, SessionIs
  <2>2. "role_active" \in States
    BY NamedStates
  <2>3. sess'.rev = sess.rev + 1 /\ sess'.state = "role_active"
    BY <1>1, <2>1, <2>2, SessionMoved
  <2>4. task.at = "insert" /\ UNCHANGED <<content, inbox, loop, box, proc>>
    BY <1>1, InsertSplit
  <2> QED
    BY <1>1, <2>3, <2>4 DEF RowStep, Inserts
<1>2. CASE UNCHANGED invs
  BY <1>2, RowsStay DEF RowStep
<1> QED
  BY <1>1, <1>2, InsertSplit

LEMMA EndRows ==
  ASSUME TypeOK, HoldInv, ReleaseSessionInvocation \/ CloseSessionInvocation \/ AcceptSessionRoleResult
  PROVE  RowStep
<1>0. invs \in [Ids -> RowType] /\ sess \in SessionType /\ sess.rev \in Nat
  BY TypesAre, SessionIs DEF HostTypes
<1>1. CASE ReleaseSessionInvocation
  <2>1. CASE /\ Waits(task.inv) /\ invs' = WithEnd(task.inv, task.status, task.lost)
             /\ sess' = Written(releaseEvent(task.inv)) /\ Go("stop") /\ UNCHANGED <<loop, poll>>
    <3>1. task.at = "releasing" /\ UNCHANGED inbox /\ UNCHANGED box /\ UNCHANGED proc /\ UNCHANGED loop
      BY <1>1, <2>1, ReleaseSplit DEF host
    <3>2. task.inv \in Active /\ task.inv \in Ids /\ task.status \in Ends /\ task.lost \in BOOLEAN
      BY <3>1, TaskFields DEF HoldInv, About, Ending, Active, Rows
    <3>3. RowsEnd(task.inv)
      BY <1>0, <2>1, <3>2, RowEnd DEF RowsEnd
    <3>4. Allowed(sess.state, releaseEvent(task.inv))
      BY <2>1, ReleaseEventIs DEF Waits
    <3>5. sess'.rev = sess.rev + 1
      BY <1>0, <2>1, <3>4, WrittenIs
    <3>6. GoesOn /\ task'.at = "stop"
      BY <2>1, GoIs DEF Stages
    <3> QED
      BY <1>0, <3>1, <3>3, <3>5, <3>6 DEF RowStep
  <2>2. CASE UNCHANGED invs
    BY <2>2, RowsStay DEF RowStep
  <2> QED
    BY <1>1, <2>1, <2>2, ReleaseSplit
<1>2. CASE CloseSessionInvocation
  <2>1. /\ task.at = "closing" /\ invs' = WithEnd(task.inv, task.status, task.lost)
        /\ GoesOn /\ task'.at = "stop" /\ UNCHANGED inbox /\ UNCHANGED box /\ UNCHANGED proc
    BY <1>2, CloseSplit DEF host
  <2>2. task.inv \in Active /\ task.inv \in Ids /\ task.status \in Ends /\ task.lost \in BOOLEAN
        /\ invs[task.inv].rev < sess.rev
    BY <2>1, TaskFields DEF HoldInv, About, Ending, Active, Rows
  <2>3. RowsEnd(task.inv)
    BY <1>0, <2>1, <2>2, RowEnd DEF RowsEnd
  <2> QED
    BY <2>1, <2>2, <2>3 DEF RowStep, GoesOn
<1>3. CASE AcceptSessionRoleResult
  <2>1. CASE /\ sess' = AcceptedSession(task.inv) /\ invs' = WithStatus(task.inv, "accepted")
             /\ task' = Concluding("stop", "accepted") /\ UNCHANGED <<loop, poll>>
    <3>1. task.at = "accept" /\ UNCHANGED inbox /\ UNCHANGED box /\ UNCHANGED proc
      BY <1>3, AcceptSplit DEF host
    <3>2. task.inv \in Active /\ task.inv \in Ids
      BY <3>1 DEF HoldInv, About, Looking, Active, Rows
    <3>3. "accepted" \in Ends /\ "stop" \in Stages /\ task \in TaskType
      BY ThreadsAre DEF Ends, Stages
    <3>4. RowsEnd(task.inv)
      BY <1>0, <2>1, <3>2, <3>3, RowStatus DEF RowsEnd
    <3>5. sess'.rev = sess.rev + 1
      BY <2>1, AcceptedIs
    <3>6. GoesOn /\ task'.at = "stop"
      BY <2>1, <3>3, TaskConcludes DEF GoesOn
    <3> QED
      BY <1>0, <2>1, <3>1, <3>4, <3>5, <3>6 DEF RowStep
  <2>2. CASE UNCHANGED invs
    BY <2>2, RowsStay DEF RowStep
  <2> QED
    BY <1>3, <2>1, <2>2, AcceptSplit
<1> QED
  BY <1>1, <1>2, <1>3

LEMMA AllRows ==
  ASSUME TypeOK, HoldInv, PinInv, [Next]_vars
  PROVE  RowStep
<1>a. ASSUME UNCHANGED invs PROVE RowStep
  BY <1>a, RowsStay DEF RowStep
<1>1. CASE (\E kind \in Kinds : Submit(kind)) \/ LoopCommands \/ StartRole \/ CancelRole
  <2>1. UNCHANGED invs
    BY <1>1, LoopCommandsAre, StartRoleSplit, CancelRoleSplit DEF Submit, LoopOnly, store
  <2> QED
    BY <1>a, <2>1
<1>2. CASE Launch
  <2>1. CASE StartSessionInvocation
    BY <2>1, InsertRows
  <2>2. CASE RecordNativeSession
    <3>1. task.at = "record" /\ (invs' = invs \/ invs' = WithNative(task.inv, proc[task.inv].native))
      BY <2>2, NativeSplit
    <3> QED
      BY <1>a, <3>1, RowNativeKeeps DEF RowStep, Worked, Launching
  <2>3. CASE CreateContextSnapshot \/ StartWorker \/ StartHeadless \/ AwaitNativeSession
    <3>1. UNCHANGED invs
      BY <2>3, SnapshotSplit, WorkerSplit, HeadlessSplit, AwaitSplit DEF store
    <3> QED
      BY <1>a, <3>1
  <2> QED
    BY <1>2, <2>1, <2>2, <2>3 DEF Launch
<1>3. CASE Release
  <2>1. CASE ReleaseSessionInvocation \/ CloseSessionInvocation
    BY <2>1, EndRows
  <2>2. CASE ReleaseRead \/ StopWorker \/ RemoveContextSnapshot
    <3>1. UNCHANGED invs
      BY <2>2, ReleaseReadSplit, StopWorkerSplit, RemoveSplit DEF store
    <3> QED
      BY <1>a, <3>1
  <2>3. CASE MarkReleased
    <3>1. task.at = "mark" /\ invs' = WithRelease(task.inv)
      BY <2>3, MarkSplit
    <3>2. task.inv \in Rows \ Active /\ task.inv \in Ids
      BY <3>1 DEF HoldInv, About, Cleaning, Rows
    <3>3. invs \in [Ids -> RowType]
      BY TypesAre DEF HostTypes
    <3>4. RowsKeep
      BY <3>1, <3>2, <3>3, RowRelease DEF RowsKeep
    <3> QED
      BY <3>4 DEF RowStep
  <2> QED
    BY <1>3, <2>1, <2>2, <2>3 DEF Release
<1>4. CASE Pass
  <2>1. CASE AcceptSessionRoleResult
    BY <2>1, EndRows
  <2>2. CASE adoptNativeSession
    <3>1. task.at = "adopt" /\ (invs' = invs \/ invs' = WithNative(task.inv, proc[task.inv].native))
      BY <2>2, AdoptSplit
    <3> QED
      BY <1>a, <3>1, RowNativeKeeps DEF RowStep, Worked, Looking
  <2>3. CASE Reconcile \/ retryResourceRelease \/ EndPass \/ ReconcileRead \/ Look \/ Inspect \/ Recheck \/ reject
    <3>1. UNCHANGED invs
      BY <2>3, ReconcileSplit, RetrySplit, ReadSplit, LookSplit, InspectSplit, RecheckSplit, RejectSplit
         DEF store, EndPass
    <3> QED
      BY <1>a, <3>1
  <2> QED
    BY <1>4, <2>1, <2>2, <2>3 DEF Pass
<1>5. CASE Beside \/ (\E v \in Ids : Process(v)) \/ (\E role \in Roles : WorkerDies(role)) \/ Stop
           \/ UNCHANGED vars
  <2>1. UNCHANGED invs
    BY <1>5, StepBeside, ProcessSplit, DiesSplit, StopSplit
       DEF WorkStep, BesideBg, PinInv, Outside, store, vars
  <2> QED
    BY <1>a, <2>1
<1> QED
  BY <1>1, <1>2, <1>3, <1>4, <1>5, CommandsAre DEF Next

-----------------------------------------------------------------------------
(* Every step: the tracker command and the command loop *)

LEMMA AllWork ==
  ASSUME TypeOK, HoldInv, PinInv, [Next]_vars
  PROVE  WorkPinned'
<1>0. Advances
  BY AllAdvance
<1>1. sess' \in SessionType /\ SessionGrows /\ Extends(inbox, inbox') /\ WorkPinned
  BY <1>0 DEF Advances, TypeOK, PinInv
<1>2. CASE Beside
  BY <1>2, StepBeside DEF WorkStep, PinInv
<1>3. CASE Stop
  BY <1>3, StopSplit, NoWorkIs DEF WorkPinned
<1>4. ASSUME UNCHANGED bg PROVE WorkPinned'
  BY <1>1, <1>4, WorkStays
<1>5. CASE (\E kind \in Kinds : Submit(kind)) \/ LoopCommands \/ StartRole \/ CancelRole
  <2>1. UNCHANGED bg
    BY <1>5, LoopCommandsAre, StartRoleSplit, CancelRoleSplit DEF Submit, LoopOnly
  <2> QED
    BY <1>4, <2>1
<1>6. CASE Launch
  <2>1. UNCHANGED bg
    BY <1>6, SnapshotSplit, InsertSplit, WorkerSplit, HeadlessSplit, AwaitSplit, NativeSplit DEF Launch
  <2> QED
    BY <1>4, <2>1
<1>7. CASE Release
  <2>1. UNCHANGED bg
    BY <1>7, ReleaseReadSplit, ReleaseSplit, CloseSplit, StopWorkerSplit, RemoveSplit, MarkSplit
       DEF Release
  <2> QED
    BY <1>4, <2>1
<1>8. CASE Pass
  <2>1. UNCHANGED bg
    BY <1>8, ReconcileSplit, RetrySplit, ReadSplit, LookSplit, InspectSplit, RecheckSplit, RejectSplit,
       AdoptSplit, AcceptSplit DEF Pass, EndPass
  <2> QED
    BY <1>4, <2>1
<1>9. CASE (\E v \in Ids : Process(v)) \/ (\E role \in Roles : WorkerDies(role)) \/ UNCHANGED vars
  <2>1. UNCHANGED bg
    BY <1>9, ProcessSplit, DiesSplit DEF Outside, vars
  <2> QED
    BY <1>4, <2>1
<1> QED
  BY <1>2, <1>3, <1>5, <1>6, <1>7, <1>8, <1>9, CommandsAre DEF Next

\* The row of the loop's role is still to be inserted.
Waiting == task.by # "loop" \/ task.at \in {"snapshot", "insert"}

LoopStep ==
  \/ UNCHANGED loop /\ (Waiting' => Waiting)
  \/ loop' = Idle
  \/ loop.at # "idle" /\ loop'.at \in {"ended", "stop"} /\ loop'.cmd = loop.cmd
  \/ UNCHANGED <<invs, task>> /\ \E i \in DOMAIN inbox : loop' = LoopBegins(i) /\ inbox' = Begun(i)
  \/ UNCHANGED <<invs, inbox, task>> /\ loop.at = "begun" /\ ~startedRole(loop.cmd)
     /\ loop' = LoopAt("role")

LEMMA LoopReturns ==
  ASSUME TypeOK, HoldInv, NEW o \in Outcomes, Return(o), task.at \notin {"free", "held"}
  PROVE  LoopStep
<1>1. task # NoTask
  BY NoTaskIs
<1>2. CASE task.by = "poll"
  BY <1>2, ReturnIs DEF LoopStep, Waiting
<1>3. CASE task.by # "poll"
  <2>1. loop.at # "idle"
    BY <1>1, <1>3, ThreadsAre DEF HoldInv, Holder, TaskType
  <2> QED
    BY <1>3, <2>1, ReturnIs DEF LoopStep
<1> QED
  BY <1>2, <1>3

LEMMA LoopGoesOn ==
  ASSUME GoesOn, task'.at \notin {"snapshot", "insert"}
  PROVE  LoopStep
BY DEF GoesOn, LoopStep, Waiting

LEMMA LoopStays ==
  ASSUME UNCHANGED <<loop, task>>
  PROVE  LoopStep
BY DEF LoopStep, Waiting

LEMMA AnswerEnds ==
  ASSUME NEW o, Answer(o)
  PROVE  LoopStep
BY DEF Answer, LoopStep

LEMMA LoopCommandSteps ==
  ASSUME TypeOK, LoopCommands
  PROVE  LoopStep
<1>0. loop \in LoopType /\ "applied" \in Outcomes
  BY ThreadsAre DEF Outcomes
<1>1. ASSUME NEW i \in Requests, Begin(i) PROVE LoopStep
  <2>1. i \in DOMAIN inbox /\ UNCHANGED <<invs, task>>
    BY <1>1 DEF Begin, Pending
  <2>2. CASE Spent(i)
    BY <1>1, <2>1, <2>2 DEF Begin, LoopStep, Waiting
  <2>3. CASE ~Spent(i)
    BY <1>1, <2>1, <2>3 DEF Begin, LoopStep, LoopBegins
  <2> QED
    BY <2>2, <2>3
<1>2. CASE RefuseContent
  BY <1>2, AnswerEnds DEF RefuseContent
<1>3. CASE createSession
  <2>1. CASE Exists
    BY <1>3, <2>1, AnswerEnds DEF createSession
  <2>2. CASE ~Exists
    <3>1. loop' = LoopEnds("ended", "applied") /\ loop.at = "begun"
      BY <1>3, <2>2 DEF createSession, LoopEnds, Handling
    <3> QED
      BY <1>0, <3>1, LoopGoes DEF LoopStep
  <2> QED
    BY <2>1, <2>2
<1>4. CASE submitTurn
  <2>1. loop.at = "begun"
    BY <1>4 DEF submitTurn, Handling
  <2>2. CASE \E o \in Outcomes : Answer(o)
    BY <2>2, AnswerEnds
  <2>3. CASE loop' = LoopAt("role") /\ UNCHANGED <<store, host, bg, poll, task, bounds>> /\ ~startedRole(loop.cmd)
    BY <2>1, <2>3 DEF LoopStep, store
  <2>4. CASE loop' = LoopAt("role") /\ ~startedRole(loop.cmd)
             /\ UNCHANGED <<plans, approvals, receipts, inbox, invs, host, bg, poll, task, bounds>>
    BY <2>1, <2>4 DEF LoopStep
  <2> QED
    BY <1>4, <2>2, <2>3, <2>4, TurnSplit
<1>5. CASE startPlanning
  <2>1. loop.at = "begun"
    BY <1>5 DEF startPlanning, Handling
  <2>2. CASE \E o \in Outcomes : Answer(o)
    BY <2>2, AnswerEnds
  <2>3. CASE loop' = LoopAt("role") /\ UNCHANGED <<store, host, bg, poll, task, bounds>> /\ ~startedRole(loop.cmd)
    BY <2>1, <2>3 DEF LoopStep, store
  <2> QED
    BY <1>5, <2>2, <2>3, PlanningSplit
<1>6. CASE editBrief \/ editDraft
  <2>1. (\E o \in Outcomes : Answer(o)) \/ loop' = Idle
    BY <1>6, BriefSplit, DraftSplit
  <2> QED
    BY <2>1, AnswerEnds DEF LoopStep
<1>7. CASE Transition
  <2>1. loop.at = "begun"
    BY <1>7 DEF Transition, Handling
  <2>2. (\E o \in Outcomes : Answer(o)) \/ loop' = Idle \/ loop' = LoopAt("stop")
    BY <1>7, TransitionSplit
  <2> QED
    BY <1>0, <2>1, <2>2, AnswerEnds, LoopGoes DEF LoopStep
<1>8. CASE RecordOutcome
  BY <1>8 DEF RecordOutcome, LoopStep
<1> QED
  BY <1>1, <1>2, <1>3, <1>4, <1>5, <1>6, <1>7, <1>8 DEF LoopCommands

LEMMA AllLoop ==
  ASSUME TypeOK, HoldInv, PinInv, [Next]_vars
  PROVE  LoopStep
<1>0. {"applied", "refused", "conflict", "transient"} \subseteq Outcomes
  BY DEF Outcomes
<1>1. CASE LoopCommands
  BY <1>1, LoopCommandSteps
<1>2. CASE StartRole
  <2>1. CASE UNCHANGED loop
    <3>1. task.by = "none"
      BY <1>2, StartRoleSplit, HoldIdle, NoTaskIs
    <3> QED
      BY <2>1, <3>1 DEF LoopStep, Waiting
  <2>2. ASSUME NEW o \in Outcomes, loop' = LoopEnds("ended", o) PROVE LoopStep
    BY <1>2, <2>2, StartRoleSplit, ThreadsAre, LoopGoes DEF LoopStep
  <2> QED
    BY <1>2, <2>1, <2>2, StartRoleSplit
<1>3. CASE CancelRole
  <2>1. task.by = "none"
    BY <1>3, CancelRoleSplit, HoldIdle, NoTaskIs
  <2> QED
    BY <1>3, <2>1, CancelRoleSplit DEF LoopStep, Waiting
<1>4. CASE Launch
  <2>1. CASE CreateContextSnapshot
    <3>1. task.at = "snapshot"
      BY <2>1, SnapshotSplit
    <3>2. UNCHANGED loop \/ Return("refused")
      BY <2>1, SnapshotSplit
    <3> QED
      BY <1>0, <3>1, <3>2, LoopReturns DEF LoopStep, Waiting
  <2>2. CASE StartSessionInvocation
    <3>1. task.at = "insert"
      BY <2>2, InsertSplit
    <3>2. UNCHANGED loop \/ (\E o \in Outcomes : Return(o))
      BY <1>0, <2>2, InsertSplit
    <3> QED
      BY <3>1, <3>2, LoopReturns DEF LoopStep, Waiting
  <2>3. CASE StartWorker \/ StartHeadless \/ AwaitNativeSession
    BY <2>3, WorkerSplit, HeadlessSplit, AwaitSplit, LoopGoesOn
  <2>4. CASE RecordNativeSession
    BY <1>0, <2>4, NativeSplit, LoopReturns
  <2> QED
    BY <1>4, <2>1, <2>2, <2>3, <2>4 DEF Launch
<1>5. CASE Release
  <2>1. CASE ReleaseRead \/ CloseSessionInvocation \/ StopWorker
    BY <2>1, ReleaseReadSplit, CloseSplit, StopWorkerSplit, LoopGoesOn
  <2>2. CASE ReleaseSessionInvocation
    <3>1. CASE Go("stop") /\ UNCHANGED <<loop, poll>>
      <4>1. GoesOn /\ task'.at = "stop"
        BY <3>1, GoIs DEF Stages
      <4> QED
        BY <4>1, LoopGoesOn
    <3>2. CASE \E o \in Outcomes : Return(o)
      BY <2>2, <3>2, ReleaseSplit, LoopReturns
    <3> QED
      BY <1>0, <2>2, <3>1, <3>2, ReleaseSplit
  <2>3. CASE RemoveContextSnapshot
    BY <2>3, RemoveSplit, LoopGoesOn, LoopReturns
  <2>4. CASE MarkReleased
    BY <2>4, MarkSplit, LoopReturns
  <2> QED
    BY <1>5, <2>1, <2>2, <2>3, <2>4 DEF Release
<1>6. CASE Pass
  <2>1. CASE Reconcile \/ retryResourceRelease \/ EndPass \/ ReconcileRead
    <3>1. task.by \in {"none", "poll"}
      BY <2>1, HoldIdle, NoTaskIs, ReconcileSplit, RetrySplit, ReadSplit DEF EndPass, Held
    <3>2. UNCHANGED loop
      BY <2>1, ReconcileSplit, RetrySplit, ReadSplit DEF EndPass
    <3> QED
      BY <3>1, <3>2 DEF LoopStep, Waiting
  <2>2. CASE Look \/ Recheck \/ reject
    BY <2>2, LookSplit, RecheckSplit, RejectSplit, LoopGoesOn
  <2>3. CASE Inspect
    BY <1>0, <2>3, InspectSplit, LoopGoesOn, LoopReturns
  <2>4. CASE adoptNativeSession
    BY <1>0, <2>4, AdoptSplit, LoopGoesOn, LoopReturns
  <2>5. CASE AcceptSessionRoleResult
    <3>1. CASE \E o \in Outcomes : Return(o)
      BY <2>5, <3>1, AcceptSplit, LoopReturns
    <3>2. CASE task' = Concluding("stop", "accepted") /\ UNCHANGED <<loop, poll>>
      <4>1. "accepted" \in Ends /\ "stop" \in Stages /\ task \in TaskType
        BY ThreadsAre DEF Ends, Stages
      <4>2. GoesOn /\ task'.at = "stop"
        BY <3>2, <4>1, TaskConcludes DEF GoesOn
      <4> QED
        BY <4>2, LoopGoesOn
    <3> QED
      BY <1>0, <2>5, <3>1, <3>2, AcceptSplit
  <2> QED
    BY <1>6, <2>1, <2>2, <2>3, <2>4, <2>5 DEF Pass
<1>7. CASE (\E kind \in Kinds : Submit(kind)) \/ Beside \/ (\E v \in Ids : Process(v))
           \/ (\E role \in Roles : WorkerDies(role)) \/ UNCHANGED vars
  <2>1. UNCHANGED <<loop, task>>
    BY <1>7, StepBeside, ProcessSplit, DiesSplit DEF Submit, WorkStep, BesideBg, PinInv, Outside, vars
  <2> QED
    BY <2>1, LoopStays
<1>8. CASE Stop
  BY <1>8, StopSplit DEF LoopStep
<1> QED
  BY <1>1, <1>2, <1>3, <1>4, <1>5, <1>6, <1>7, <1>8, CommandsAre DEF Next

-----------------------------------------------------------------------------
(* What revisions pin, what starts a role, and one role at work *)

LEMMA AllPin ==
  ASSUME TypeOK, HoldInv, PinInv, [Next]_vars
  PROVE  PinInv'
<1>0. Advances /\ RowStep
  BY AllAdvance, AllRows
<1>1. /\ sess.rev \in Nat /\ sess'.rev \in Nat /\ sess.rev <= sess'.rev
      /\ sess'.rev = sess.rev => sess' = sess
      /\ \A v \in Ids : invs[v].rev \in Nat
  BY <1>0, RevisionGrows
<1>2. \A v \in Rows : /\ v \in Ids /\ invs[v].rev \in Nat /\ invs[v].rev <= sess'.rev
                      /\ invs[v].rev = sess'.rev => sess' = sess /\ sess.state = "role_active"
  BY <1>1 DEF PinInv, RowsPinned, Rows
<1>3. RowsPinned'
  <2>1. CASE RowsKeep
    <3>1. Rows' = Rows /\ \A v \in Ids : invs'[v].rev = invs[v].rev
      BY <2>1, RowsKept
    <3> QED
      BY <1>2, <3>1 DEF RowsPinned
  <2>2. CASE RowsEnd(task.inv)
    <3>1. Rows' = Rows /\ \A v \in Ids : invs'[v].rev = invs[v].rev
      BY <2>2, RowsEnded
    <3> QED
      BY <1>2, <3>1 DEF RowsPinned
  <2>3. CASE Inserts /\ sess'.rev = sess.rev + 1 /\ sess'.state = "role_active"
    <3>1. /\ task.inv \in Ids \ Rows /\ Rows' = Rows \cup {task.inv}
          /\ invs'[task.inv].rev = sess.rev + 1 /\ \A v \in Ids \ {task.inv} : invs'[v] = invs[v]
      BY <2>3, Inserted DEF Inserts, MayInsert
    <3>2. \A v \in Rows : invs'[v] = invs[v]
      BY <1>2, <3>1
    <3> QED
      BY <1>1, <1>2, <2>3, <3>1, <3>2 DEF RowsPinned
  <2> QED
    BY <1>0, <2>1, <2>2, <2>3 DEF RowStep
<1>4. Uncreated'
  BY <1>0 DEF Advances, SessionGrows, PinInv, Uncreated
<1> QED
  BY <1>3, <1>4, AllWork DEF PinInv

\* No step gives an old row another trigger.
LEMMA StartedStays ==
  ASSUME HoldInv, RowsKeep \/ RowsEnd(task.inv)
  PROVE  /\ Rows' = Rows /\ \A v \in Rows : invs'[v].trigger = invs[v].trigger
<1>1. Rows' = Rows
  BY RowsKept, RowsEnded
<1>2. \A v \in Ids : invs'[v].trigger = invs[v].trigger
  BY DEF RowsKeep, RowsEnd, SameRow
<1> QED
  BY <1>1, <1>2 DEF Rows

LEMMA InsertedTrigger ==
  ASSUME TypeOK, HoldInv, Inserts
  PROVE  /\ task.inv \in Ids \ Rows /\ Rows' = Rows \cup {task.inv} /\ task.by = "loop" /\ loop.at = "role"
         /\ invs'[task.inv].trigger = loop.cmd /\ \A v \in Rows : invs'[v] = invs[v]
<1>1. /\ task.inv \in Ids \ Rows /\ Rows' = Rows \cup {task.inv}
      /\ invs'[task.inv].trigger = loop.cmd /\ \A v \in Ids \ {task.inv} : invs'[v] = invs[v]
  BY Inserted DEF Inserts, MayInsert
<1>2. task.by = "loop" /\ loop.at = "role"
  BY LoopHolds DEF Inserts, Launching
<1> QED
  BY <1>1, <1>2 DEF Rows

LEMMA AllTrigger ==
  ASSUME TypeOK, HoldInv, PinInv, TriggerInv, [Next]_vars
  PROVE  TriggerInv'
<1>0. Advances /\ RowStep /\ LoopStep
  BY AllAdvance, AllRows, AllLoop
<1>1. /\ DOMAIN inbox \subseteq DOMAIN inbox'
      /\ \A j \in DOMAIN inbox : inbox[j].attempts <= inbox'[j].attempts
  BY <1>0 DEF Advances, Extends
<1>2. /\ \A j \in DOMAIN inbox : inbox[j].attempts \in Nat /\ inbox[j] \in CommandType
      /\ \A j \in DOMAIN inbox' : inbox'[j].attempts \in Nat
  <2>1. InboxType /\ InboxType'
    BY <1>0, TypesAre DEF Advances, TypeOK, InboxType
  <2>2. inbox \in Seq(CommandType) /\ inbox' \in Seq(CommandType)
    BY <2>1 DEF InboxType
  <2>3. (\A j \in DOMAIN inbox : inbox[j] \in CommandType) /\ (\A j \in DOMAIN inbox' : inbox'[j] \in CommandType)
    BY <2>2
  <2> QED
    BY <2>3 DEF CommandType
<1>3. \A j \in DOMAIN inbox : inbox[j].attempts >= 1 => j \in DOMAIN inbox' /\ inbox'[j].attempts >= 1
  BY <1>1, <1>2
<1>4. \A v \in Rows : invs[v].trigger # 0 =>
        invs[v].trigger \in DOMAIN inbox /\ inbox[invs[v].trigger].attempts >= 1
  BY DEF TriggerInv
<1>5. loop.at # "idle" => loop.cmd \in DOMAIN inbox /\ inbox[loop.cmd].attempts >= 1
  BY DEF TriggerInv
<1>6. \A v \in Rows' : invs'[v].trigger # 0 =>
        invs'[v].trigger \in DOMAIN inbox' /\ inbox'[invs'[v].trigger].attempts >= 1
  <2>1. CASE RowsKeep \/ RowsEnd(task.inv)
    BY <1>3, <1>4, <2>1, StartedStays
  <2>2. CASE Inserts
    BY <1>3, <1>4, <1>5, <2>2, InsertedTrigger
  <2> QED
    BY <1>0, <2>1, <2>2 DEF RowStep
<1>7. loop'.at # "idle" => loop'.cmd \in DOMAIN inbox' /\ inbox'[loop'.cmd].attempts >= 1
  <2>1. CASE loop'.at # "idle" => loop.at # "idle" /\ loop'.cmd = loop.cmd
    BY <1>3, <1>5, <2>1
  <2>2. ASSUME NEW i \in DOMAIN inbox, loop' = LoopBegins(i), inbox' = Begun(i)
        PROVE  inbox'[loop'.cmd].attempts >= 1 /\ loop'.cmd \in DOMAIN inbox'
    <3>1. InboxType /\ i \in 0..MaxRequests
      BY TypesAre, InboxDomain, SessionAssumption DEF Requests
    <3>2. inbox'[i].attempts = inbox[i].attempts + 1 /\ inbox[i].attempts \in Nat /\ DOMAIN inbox' = DOMAIN inbox
      BY <2>2, <3>1, BegunIs
    <3> QED
      BY <2>2, <3>1, <3>2, LoopTakes
  <2>3. loop' = LoopAt("role") => loop'.cmd = loop.cmd
    BY ThreadsAre, LoopGoes DEF Outcomes
  <2> QED
    BY <1>0, <2>1, <2>2, <2>3, IdleIs DEF LoopStep
<1>8. CASE Inserts
  <2>0. UNCHANGED loop /\ task' = AtStage("worker")
    <3>1. task.inv \notin Active /\ ~RowsKeep
      <4>1. task.inv \in Rows' /\ task.inv \notin Rows
        BY <1>8, InsertedTrigger
      <4> QED
        BY <4>1, RowsKept DEF Active
    <3> QED
      BY <1>0, <3>1 DEF RowStep, RowsEnd
  <2>1. task.by = "loop" /\ loop.at = "role"
    BY <1>8, InsertedTrigger
  <2>2. task'.by = "loop" /\ task'.at = "worker"
    BY <2>0, <2>1, ThreadsAre, TaskGoes DEF Stages
  <2> QED
    BY <1>6, <1>7, <2>0, <2>1, <2>2 DEF TriggerInv
<1>9. CASE RowsKeep \/ RowsEnd(task.inv)
  <2>1. \A i : Started(i)' => Started(i)
    BY <1>9, StartedStays DEF Started
  <2>2. ASSUME loop'.at = "begun", inbox'[loop'.cmd].attempts = 1 PROVE ~Started(loop.cmd)'
    <3>1. CASE UNCHANGED loop
      <4>1. loop.cmd \in DOMAIN inbox /\ inbox[loop.cmd].attempts = 1
        BY <1>1, <1>2, <1>5, <2>2, <3>1
      <4>2. ~Started(loop.cmd)
        BY <2>2, <3>1, <4>1 DEF TriggerInv
      <4> QED
        BY <2>1, <3>1, <4>2 DEF Started
    <3>2. ASSUME NEW i \in DOMAIN inbox, loop' = LoopBegins(i), inbox' = Begun(i)
          PROVE  ~Started(loop.cmd)'
      <4>1. InboxType /\ i \in 0..MaxRequests
        BY TypesAre, InboxDomain, SessionAssumption DEF Requests
      <4>2. inbox'[i].attempts = inbox[i].attempts + 1 /\ inbox[i].attempts \in Nat /\ loop'.cmd = i
        BY <3>2, <4>1, BegunIs, LoopTakes
      <4>3. inbox[i].attempts = 0 /\ i # 0
        BY <2>2, <4>2, TypesAre, InboxDomain DEF Requests
      <4>4. ~Started(i)
        BY <1>4, <4>3 DEF Started
      <4> QED
        BY <2>1, <4>2, <4>4 DEF Started
    <3>3. loop' = LoopAt("role") => loop'.at = "role"
      BY ThreadsAre, LoopGoes DEF Outcomes
    <3> QED
      BY <1>0, <2>2, <3>1, <3>2, <3>3, IdleIs DEF LoopStep
  <2>3. ASSUME loop'.at = "role", task'.by # "loop" \/ task'.at \in {"snapshot", "insert"}
        PROVE  ~Started(loop.cmd)'
    <3>1. CASE UNCHANGED loop /\ (Waiting' => Waiting)
      <4>1. ~Started(loop.cmd)
        BY <2>3, <3>1 DEF TriggerInv, Waiting
      <4> QED
        BY <2>1, <3>1, <4>1 DEF Started
    <3>2. CASE loop.at = "begun" /\ ~startedRole(loop.cmd) /\ loop' = LoopAt("role")
      <4>1. loop'.cmd = loop.cmd /\ loop.cmd \in DOMAIN inbox /\ inbox[loop.cmd].attempts >= 1
            /\ inbox[loop.cmd].attempts \in Nat
        BY <1>2, <1>5, <3>2, ThreadsAre, LoopGoes DEF Outcomes
      <4>2. ~Started(loop.cmd)
        <5>1. CASE inbox[loop.cmd].attempts = 1
          BY <3>2, <5>1 DEF TriggerInv
        <5>2. CASE inbox[loop.cmd].attempts > 1
          BY <3>2, <5>2 DEF startedRole, Started
        <5> QED
          BY <4>1, <5>1, <5>2
      <4> QED
        BY <2>1, <4>1, <4>2 DEF Started
    <3>3. \A i \in DOMAIN inbox : loop' = LoopBegins(i) => loop'.at = "begun"
      BY TypesAre, InboxDomain, LoopTakes, SessionAssumption DEF Requests
    <3> QED
      BY <1>0, <2>3, <3>1, <3>2, <3>3, IdleIs DEF LoopStep
  <2> QED
    BY <1>6, <1>7, <2>2, <2>3 DEF TriggerInv
<1> QED
  BY <1>0, <1>8, <1>9 DEF RowStep

LEMMA AllOneRole ==
  ASSUME TypeOK, HoldInv, PinInv, TriggerInv, OneRoleAtWork, [Next]_vars
  PROVE  OneRoleAtWork'
<1>0. Advances /\ RowStep
  BY AllAdvance, AllRows
<1>1. CASE RowsKeep \/ RowsEnd(task.inv)
  <2>0. /\ Rows' = Rows /\ \A v \in Rows : invs'[v].trigger = invs[v].trigger
        /\ \A v \in Ids : invs'[v].rev = invs[v].rev
    BY <1>1, StartedStays, RowsKept, RowsEnded
  <2>1. RoleStartedOnce'
    BY <2>0 DEF OneRoleAtWork, RoleStartedOnce
  <2>2. RoleActiveHasOwner'
    <3>1. ASSUME sess'.state = "role_active"
          PROVE  \E v \in Active' : invs'[v].rev = sess'.rev
      <4>1. sess' = sess
        <5>1. ~Inserts
          <6>1. Inserts => task.inv \in Rows' /\ task.inv \notin Rows
            BY InsertedTrigger
          <6> QED
            BY <2>0, <6>1
        <5> QED
          BY <1>0, <3>1, <5>1 DEF Advances, SessionGrows
      <4>2. PICK v \in Active : invs[v].rev = sess.rev
        BY <3>1, <4>1 DEF OneRoleAtWork, RoleActiveHasOwner
      <4>3. v \in Ids
        BY DEF Active, Rows
      <4>4. ~RowsEnd(task.inv) \/ RowsKeep
        <5>1. ASSUME RowsEnd(task.inv), ~RowsKeep PROVE FALSE
          <6>1. task.inv = v
            BY <5>1 DEF RowsEnd, HoldInv, OneActive
          <6>2. invs[task.inv].rev < sess.rev
            BY <1>0, <2>0, <4>1, <5>1, InsertedTrigger DEF RowStep
          <6>3. sess.rev \in Nat
            BY TypesAre, SessionIs
          <6> QED
            BY <4>2, <6>1, <6>2, <6>3
        <5> QED
          BY <5>1
      <4>5. Active' = Active
        BY <1>1, <4>4, RowsKept
      <4> QED
        BY <2>0, <4>1, <4>2, <4>3, <4>5
    <3> QED
      BY <3>1 DEF RoleActiveHasOwner
  <2> QED
    BY <2>1, <2>2 DEF OneRoleAtWork
<1>2. CASE Inserts /\ sess'.rev = sess.rev + 1 /\ sess'.state = "role_active"
  <2>1. /\ task.inv \in Ids \ Rows /\ Rows' = Rows \cup {task.inv} /\ task.by = "loop" /\ loop.at = "role"
        /\ invs'[task.inv].trigger = loop.cmd /\ \A v \in Rows : invs'[v] = invs[v]
    BY <1>2, InsertedTrigger
  <2>2. Active' = {task.inv} /\ invs'[task.inv].rev = sess.rev + 1
    BY <1>2, Inserted DEF Inserts, MayInsert
  <2>3. ~Started(loop.cmd)
    BY <1>2, <2>1 DEF TriggerInv, Inserts
  <2>4. RoleActiveHasOwner'
    BY <1>2, <2>2 DEF RoleActiveHasOwner
  <2>5. RoleStartedOnce'
    BY <2>1, <2>3 DEF OneRoleAtWork, RoleStartedOnce, Started
  <2> QED
    BY <2>4, <2>5 DEF OneRoleAtWork
<1> QED
  BY <1>0, <1>1, <1>2 DEF RowStep

-----------------------------------------------------------------------------
(* What is approved, and what is frozen *)

Resting == {"approved", "publishing", "incomplete", "published"}
Frozen  == sess.state \in Closed => UNCHANGED <<plans, turns, approvals, sess.brief>>
BindStep == ApprovalBindsReviewed' /\ Frozen

LEMMA BindSteady ==
  ASSUME ApprovalBindsReviewed, UNCHANGED <<sess, plans, turns, approvals>>
  PROVE  BindStep
BY DEF BindStep, Frozen, ApprovalBindsReviewed

LEMMA BindWrites ==
  ASSUME ApprovalBindsReviewed, UNCHANGED plans, approvals \subseteq approvals',
         sess'.approval = sess.approval, sess'.brief = sess.brief,
         sess'.state \in Resting => sess.approval # 0,
         sess.state \in Closed => UNCHANGED <<turns, approvals>>
  PROVE  BindStep
BY DEF BindStep, Frozen, ApprovalBindsReviewed, Resting

LEMMA BindClears ==
  ASSUME sess'.approval = 0, sess'.state \notin Resting, sess.state \notin Closed
  PROVE  BindStep
BY DEF BindStep, Frozen, ApprovalBindsReviewed, Resting

LEMMA BindAnswer ==
  ASSUME ApprovalBindsReviewed, NEW o, Answer(o)
  PROVE  BindStep
BY BindSteady DEF Answer, content

LEMMA BindCommands ==
  ASSUME TypeOK, PinInv, ApprovalBindsReviewed, LoopCommands
  PROVE  BindStep
<1>0. sess \in SessionType
  BY TypesAre
<1>1. ASSUME NEW i \in Requests, Begin(i) PROVE BindStep
  BY <1>1, BindSteady DEF Begin, content
<1>2. CASE RefuseContent
  BY <1>2, BindAnswer DEF RefuseContent
<1>3. CASE createSession
  <2>1. CASE Exists
    BY <1>3, <2>1, BindAnswer DEF createSession
  <2>2. CASE ~Exists
    <3>1. sess' = Moved(sess, "awaiting_user", 1) /\ UNCHANGED content
      BY <1>3, <2>2 DEF createSession, Moved
    <3>2. "awaiting_user" \in States /\ 1 \in Nat
      BY NamedStates
    <3>3. sess'.approval = sess.approval /\ sess'.brief = sess.brief /\ sess'.state = "awaiting_user"
      BY <1>0, <3>1, <3>2, SessionMoved
    <3> QED
      BY <3>1, <3>3, BindWrites DEF content, Resting
  <2> QED
    BY <2>1, <2>2
<1>4. CASE submitTurn
  <2>1. CASE \E o \in Outcomes : Answer(o)
    BY <2>1, BindAnswer
  <2>2. CASE UNCHANGED <<store, host, bg, poll, task, bounds>>
    BY <2>2, BindSteady DEF store, content
  <2>3. CASE /\ Allowed(sess.state, "turn_accepted") /\ sess' = Written("turn_accepted")
             /\ UNCHANGED <<plans, approvals, receipts, inbox, invs, host, bg, poll, task, bounds>>
    <3>1. /\ sess'.approval = sess.approval /\ sess'.brief = sess.brief
          /\ sess'.state = Next1(sess.state, "turn_accepted")
      BY <1>0, <2>3, WrittenIs
    <3>2. sess.state = "awaiting_user" /\ sess'.state = "awaiting_user"
      BY <2>3, <3>1, StepLeads DEF Leads
    <3> QED
      BY <2>3, <3>1, <3>2, BindWrites DEF Resting, Closed
  <2> QED
    BY <1>4, <2>1, <2>2, <2>3, TurnSplit
<1>5. CASE startPlanning
  <2>1. CASE \E o \in Outcomes : Answer(o)
    BY <2>1, BindAnswer
  <2>2. CASE UNCHANGED <<store, host, bg, poll, task, bounds>>
    BY <2>2, BindSteady DEF store, content
  <2> QED
    BY <1>5, <2>1, <2>2, PlanningSplit
<1>6. CASE editBrief \/ editDraft
  <2>1. CASE \E o \in Outcomes : Answer(o)
    BY <2>1, BindAnswer
  <2>2. CASE /\ Allowed(sess.state, "edited")
             /\ sess' \in {insertBriefRevision(Written("edited")), insertPlanRevision(Written("edited"))}
    <3>1. Written("edited") \in SessionType /\ Written("edited").state = Next1(sess.state, "edited")
      BY <1>0, <2>2, WrittenIs
    <3>2. sess'.approval = 0 /\ sess'.state = Next1(sess.state, "edited")
      BY <2>2, <3>1, RevisedIs
    <3>3. sess.state \in {"awaiting_user", "draft_review", "approved"}
          /\ sess'.state \in {"awaiting_user", "draft_review"}
      BY <2>2, <3>2, StepLeads DEF Leads
    <3> QED
      BY <3>2, <3>3, BindClears DEF Resting, Closed
  <2> QED
    BY <1>6, <2>1, <2>2, BriefSplit, DraftSplit
<1>7. CASE Transition
  <2>1. CASE \E o \in Outcomes : Answer(o)
    BY <2>1, BindAnswer
  <2>2. ASSUME NEW event \in MoveKinds \cup {"resumed", "approval_resumed", "review_resumed"},
               Allowed(sess.state, event), sess' = Written(event),
               event = "approval_resumed" => sess.approval # 0, event # "resume", UNCHANGED content
        PROVE  BindStep
    <3>1. /\ sess'.approval = sess.approval /\ sess'.brief = sess.brief
          /\ sess'.state = Next1(sess.state, event)
      BY <1>0, <2>2, WrittenIs
    <3>2. event \in {"defer", "investigation_needed", "no_build", "cancel", "resumed",
                     "approval_resumed", "review_resumed"}
      BY <2>2 DEF MoveKinds
    <3>3. event # "approval_resumed" =>
            sess'.state \in {"deferred", "investigation", "no_build", "cancelled", "awaiting_user", "draft_review"}
      BY <2>2, <3>1, <3>2, StepLeads DEF Leads
    <3> QED
      BY <2>2, <3>1, <3>3, BindWrites DEF Resting, content
  <2> QED
    BY <1>7, <2>1, <2>2, TransitionSplit
<1>8. CASE RecordOutcome
  BY <1>8, BindSteady DEF RecordOutcome, content
<1> QED
  BY <1>1, <1>2, <1>3, <1>4, <1>5, <1>6, <1>7, <1>8 DEF LoopCommands

LEMMA BindLaunch ==
  ASSUME TypeOK, ApprovalBindsReviewed, Launch
  PROVE  BindStep
<1>1. CASE StartSessionInvocation
  <2>1. UNCHANGED content
    BY <1>1, InsertSplit
  <2>2. CASE sess' = Moved(sess, "role_active", sess.rev + 1)
    <3>1. sess \in SessionType /\ sess.rev \in Nat /\ sess.rev + 1 \in Nat /\ "role_active" \in States
      BY TypesAre, SessionIs, NamedStates
    <3>2. sess'.approval = sess.approval /\ sess'.brief = sess.brief /\ sess'.state = "role_active"
      BY <2>2, <3>1, SessionMoved
    <3> QED
      BY <2>1, <3>2, BindWrites DEF Resting, content
  <2>3. CASE UNCHANGED sess
    BY <2>1, <2>3, BindSteady DEF content
  <2> QED
    BY <1>1, <2>2, <2>3, InsertSplit
<1>2. CASE CreateContextSnapshot \/ StartWorker \/ StartHeadless \/ AwaitNativeSession
  BY <1>2, BindSteady, SnapshotSplit, WorkerSplit, HeadlessSplit, AwaitSplit DEF store, content
<1>3. CASE RecordNativeSession
  BY <1>3, BindSteady, NativeSplit DEF content
<1> QED
  BY <1>1, <1>2, <1>3 DEF Launch

LEMMA BindRelease ==
  ASSUME TypeOK, ApprovalBindsReviewed, Release
  PROVE  BindStep
<1>1. CASE ReleaseSessionInvocation
  <2>1. UNCHANGED content
    BY <1>1, ReleaseSplit
  <2>2. CASE Waits(task.inv) /\ sess' = Written(releaseEvent(task.inv))
    <3>1. sess.state = "role_active" /\ sess \in SessionType
      BY <2>2, TypesAre DEF Waits
    <3>2. Allowed(sess.state, releaseEvent(task.inv))
          /\ releaseEvent(task.inv) \in {"draft_kept", "role_awaits_user"}
      BY <3>1, ReleaseEventIs
    <3>3. /\ sess'.approval = sess.approval /\ sess'.brief = sess.brief
          /\ sess'.state = Next1(sess.state, releaseEvent(task.inv))
      BY <2>2, <3>1, <3>2, WrittenIs
    <3>4. sess'.state \in {"draft_review", "awaiting_user"}
      BY <3>2, <3>3, StepLeads DEF Leads
    <3> QED
      BY <2>1, <3>3, <3>4, BindWrites DEF Resting, content
  <2>3. CASE UNCHANGED sess
    BY <2>1, <2>3, BindSteady DEF content
  <2> QED
    BY <1>1, <2>2, <2>3, ReleaseSplit
<1>2. CASE ReleaseRead \/ StopWorker \/ RemoveContextSnapshot
  BY <1>2, BindSteady, ReleaseReadSplit, StopWorkerSplit, RemoveSplit DEF store, content
<1>3. CASE CloseSessionInvocation \/ MarkReleased
  BY <1>3, BindSteady, CloseSplit, MarkSplit DEF content
<1> QED
  BY <1>1, <1>2, <1>3 DEF Release

\* A report is accepted only while the session still waits for it.
LEMMA AcceptedWaits ==
  ASSUME TypeOK, HoldInv, PinInv, task.at = "accept", StillPinned(task.inv)
  PROVE  sess.state = "role_active"
BY DEF HoldInv, About, Looking, PinInv, RowsPinned, StillPinned, Active

LEMMA BindPass ==
  ASSUME TypeOK, HoldInv, PinInv, ApprovalBindsReviewed, Pass
  PROVE  BindStep
<1>1. CASE AcceptSessionRoleResult
  <2>1. task.at = "accept" /\ UNCHANGED approvals
    BY <1>1, AcceptSplit
  <2>2. CASE /\ StillPinned(task.inv) /\ sess' = AcceptedSession(task.inv)
             /\ plans' = IF report[task.inv] = "content" /\ invs[task.inv].role = "planning"
                         THEN Append(plans, invs[task.inv].brief) ELSE plans
    <3>1. sess.state = "role_active"
      BY <2>1, <2>2, AcceptedWaits
    <3>2. sess'.state \in {"awaiting_user", "draft_review"}
      BY <2>2, AcceptedIs
    <3>3. CASE report[task.inv] = "content"
      <4>1. sess'.approval = 0
        BY <2>2, <3>3, AcceptedIs
      <4> QED
        BY <3>1, <3>2, <4>1, BindClears DEF Resting, Closed
    <3>4. CASE report[task.inv] # "content"
      <4>1. sess'.approval = sess.approval /\ sess'.brief = sess.brief /\ UNCHANGED plans
        BY <2>2, <3>4, AcceptedIs
      <4> QED
        BY <2>1, <3>1, <3>2, <4>1, BindWrites DEF Resting, Closed
    <3> QED
      BY <3>3, <3>4
  <2>3. CASE UNCHANGED <<sess, plans, turns, invs>>
    BY <2>1, <2>3, BindSteady
  <2> QED
    BY <1>1, <2>2, <2>3, AcceptSplit
<1>2. CASE adoptNativeSession
  BY <1>2, BindSteady, AdoptSplit DEF content
<1>3. CASE Reconcile \/ retryResourceRelease \/ EndPass \/ ReconcileRead \/ Look \/ Inspect \/ Recheck \/ reject
  BY <1>3, BindSteady, ReconcileSplit, RetrySplit, ReadSplit, LookSplit, InspectSplit, RecheckSplit, RejectSplit
     DEF store, content, EndPass
<1> QED
  BY <1>1, <1>2, <1>3 DEF Pass

LEMMA BindBeside ==
  ASSUME TypeOK, PinInv, ApprovalBindsReviewed, Beside
  PROVE  BindStep
<1>0. WorkPinned /\ UNCHANGED <<plans, turns>> /\ sess \in SessionType
  BY StepBeside, TypesAre DEF PinInv, WorkStep, BesideBg
<1>1. CASE ApprovePlan
  <2>1. CASE /\ sess.rev = bg.saw /\ Approvable /\ sess' = ApprovedSession
             /\ approvals' = approvals \cup {[id |-> bg.cmd, plan |-> Len(plans)]}
    <3>1. /\ sess'.state = "approved" /\ sess'.approval = bg.cmd /\ sess'.brief = sess.brief
          /\ sess.state = "draft_review" /\ bg.cmd \in Requests
      BY <1>0, <1>1, <2>1, ApproveSplit, ApprovedIs
    <3>2. bg.cmd # 0
      BY <3>1 DEF Requests
    <3> QED
      BY <1>0, <2>1, <3>1, <3>2 DEF BindStep, Frozen, Closed, ApprovalBindsReviewed, Approvable
  <2>2. CASE UNCHANGED <<sess, approvals>>
    BY <1>0, <2>2, BindSteady
  <2> QED
    BY <1>1, <2>1, <2>2, ApproveSplit
<1>2. CASE PublishStart
  <2>1. UNCHANGED approvals
    BY <1>2, StartSplit
  <2>2. CASE sess.rev = bg.saw /\ sess' = StartedSession
    <3>1. sess'.approval = sess.approval /\ sess'.brief = sess.brief /\ sess.approval # 0
      BY <1>0, <1>2, <2>2, StartSplit, StartedIs
    <3> QED
      BY <1>0, <2>1, <3>1, BindWrites
  <2>3. CASE UNCHANGED sess
    BY <1>0, <2>1, <2>3, BindSteady
  <2> QED
    BY <1>2, <2>2, <2>3, StartSplit
<1>3. CASE FinishPublication
  <2>1. UNCHANGED approvals
    BY <1>3, FinishSplit
  <2>2. ASSUME NEW event \in {"publication_incomplete", "publication_completed", "reconciled"},
               Allowed(sess.state, event), sess' = Written(event),
               event = "reconciled" => sess.state = "cancelled",
               event # "reconciled" => sess.state = "publishing"
        PROVE  BindStep
    <3>1. /\ sess'.approval = sess.approval /\ sess'.brief = sess.brief
          /\ sess'.state = Next1(sess.state, event)
      BY <1>0, <2>2, WrittenIs
    <3>2. event = "reconciled" => sess'.state = "cancelled"
      BY <2>2, <3>1, StepLeads DEF Leads
    <3>3. event # "reconciled" => sess.approval # 0
      BY <2>2 DEF ApprovalBindsReviewed
    <3> QED
      BY <1>0, <2>1, <3>1, <3>2, <3>3, BindWrites DEF Resting
  <2>3. CASE UNCHANGED sess
    BY <1>0, <2>1, <2>3, BindSteady
  <2> QED
    BY <1>3, <2>2, <2>3, FinishSplit
<1>4. CASE Settle
  <2>1. UNCHANGED approvals
    BY <1>4 DEF Settle
  <2>2. CASE sess.state = "publishing"
    <3>1. sess' = Written("publication_incomplete") /\ Allowed(sess.state, "publication_incomplete")
      BY <1>4, <2>2, AlwaysAllowed DEF Settle
    <3>2. sess'.approval = sess.approval /\ sess'.brief = sess.brief /\ sess.approval # 0
      BY <1>0, <2>2, <3>1, WrittenIs DEF ApprovalBindsReviewed
    <3> QED
      BY <1>0, <2>1, <3>2, BindWrites
  <2>3. CASE sess.state # "publishing"
    BY <1>0, <1>4, <2>1, <2>3, BindSteady DEF Settle
  <2> QED
    BY <2>2, <2>3
<1>5. CASE (\E i \in Requests : BeginTracker(i)) \/ ApproveRead \/ PublishBegin \/ PublishRead \/ RecordTracker
  <2>1. UNCHANGED <<sess, approvals>>
    BY <1>5 DEF BeginTracker, ApproveRead, PublishBegin, PublishRead, RecordTracker
  <2> QED
    BY <1>0, <2>1, BindSteady
<1> QED
  BY <1>1, <1>2, <1>3, <1>4, <1>5 DEF Beside

LEMMA AllBind ==
  ASSUME TypeOK, HoldInv, PinInv, ApprovalBindsReviewed, [Next]_vars
  PROVE  BindStep
<1>1. CASE (\E kind \in Kinds : Submit(kind)) \/ StartRole \/ CancelRole
  BY <1>1, BindSteady, StartRoleSplit, CancelRoleSplit DEF Submit, store, content
<1>2. CASE LoopCommands \/ Launch \/ Release \/ Pass \/ Beside
  BY <1>2, BindCommands, BindLaunch, BindRelease, BindPass, BindBeside
<1>3. CASE (\E v \in Ids : Process(v)) \/ (\E role \in Roles : WorkerDies(role)) \/ Stop \/ UNCHANGED vars
  BY <1>3, BindSteady, ProcessSplit, DiesSplit, StopSplit DEF Outside, store, content, vars
<1> QED
  BY <1>1, <1>2, <1>3, CommandsAre DEF Next

-----------------------------------------------------------------------------
(* What still runs *)

\* What a step does to workers and processes.
HostStep ==
  \/ UNCHANGED <<box, proc>>
  \/ UNCHANGED <<box, invs>>
     /\ \A v \in Ids : proc'[v].at = "running" => proc[v].at = "running" \/ v \in Active
  \/ UNCHANGED <<invs, poll>> /\ task.at = "worker" /\ proc' = Killed(Mine(task.inv))
     /\ box' = [box EXCEPT ![Mine(task.inv)] = task.inv]
  \/ UNCHANGED <<invs, poll>> /\ task.at = "stop" /\ ownsWorker /\ proc' = Killed(Mine(task.inv))
     /\ box' = [box EXCEPT ![Mine(task.inv)] = 0] /\ GoesOn
  \/ UNCHANGED <<invs, task>> /\ faults' > faults
     /\ \E role \in Roles : proc' = Killed(role) /\ box' = [box EXCEPT ![role] = 0]

LEMMA AllHosts ==
  ASSUME TypeOK, HoldInv, PinInv, [Next]_vars
  PROVE  HostStep
<1>a. ASSUME UNCHANGED <<box, proc>> PROVE HostStep
  BY <1>a DEF HostStep
<1>1. CASE (\E kind \in Kinds : Submit(kind)) \/ LoopCommands \/ StartRole \/ CancelRole
  <2>1. UNCHANGED <<box, proc>>
    BY <1>1, LoopCommandsAre, StartRoleSplit, CancelRoleSplit DEF Submit, LoopOnly, host
  <2> QED
    BY <1>a, <2>1
<1>2. CASE Launch
  <2>1. CASE CreateContextSnapshot \/ StartSessionInvocation \/ AwaitNativeSession \/ RecordNativeSession
    <3>1. UNCHANGED <<box, proc>>
      BY <2>1, SnapshotSplit, InsertSplit, AwaitSplit, NativeSplit DEF host
    <3> QED
      BY <1>a, <3>1
  <2>2. CASE StartWorker
    BY <2>2, WorkerSplit DEF HostStep, store
  <2>3. CASE StartHeadless
    <3>1. /\ task.at = "process" /\ UNCHANGED invs /\ UNCHANGED box
          /\ UNCHANGED proc \/ proc' = [proc EXCEPT ![task.inv].at = "running"]
      BY <2>3, HeadlessSplit DEF store
    <3>2. task.inv \in Active /\ task.inv \in Ids
      BY <3>1 DEF HoldInv, About, Launching, Active, Rows
    <3>3. CASE proc' = [proc EXCEPT ![task.inv].at = "running"]
      BY <3>1, <3>2, <3>3, ProcessGoes DEF HostStep
    <3> QED
      BY <1>a, <3>1, <3>3
  <2> QED
    BY <1>2, <2>1, <2>2, <2>3 DEF Launch
<1>3. CASE Release
  <2>1. CASE ReleaseRead \/ ReleaseSessionInvocation \/ CloseSessionInvocation \/ RemoveContextSnapshot
             \/ MarkReleased
    <3>1. UNCHANGED <<box, proc>>
      BY <2>1, ReleaseReadSplit, ReleaseSplit, CloseSplit, RemoveSplit, MarkSplit DEF host
    <3> QED
      BY <1>a, <3>1
  <2>2. CASE StopWorker
    BY <2>2, StopWorkerSplit DEF HostStep, store
  <2> QED
    BY <1>3, <2>1, <2>2 DEF Release
<1>4. CASE Pass
  <2>1. UNCHANGED <<box, proc>>
    BY <1>4, ReconcileSplit, RetrySplit, ReadSplit, LookSplit, InspectSplit, RecheckSplit, RejectSplit,
       AdoptSplit, AcceptSplit DEF Pass, EndPass, host
  <2> QED
    BY <1>a, <2>1
<1>5. CASE Beside \/ Stop \/ UNCHANGED vars
  <2>1. UNCHANGED <<box, proc>>
    BY <1>5, StepBeside, StopSplit DEF WorkStep, BesideBg, PinInv, vars, host
  <2> QED
    BY <1>a, <2>1
<1>6. ASSUME NEW v \in Ids, Process(v) PROVE HostStep
  BY <1>6, ProcessSplit DEF Outside, store, HostStep
<1>7. ASSUME NEW role \in Roles, WorkerDies(role) PROVE HostStep
  BY <1>7, DiesSplit DEF Outside, store, HostStep
<1> QED
  BY <1>1, <1>2, <1>3, <1>4, <1>5, <1>6, <1>7, CommandsAre DEF Next

\* How an operation comes to hold a worker for stopped.
LEMMA AllClean ==
  ASSUME TypeOK, HoldInv, PinInv, [Next]_vars, task'.at \in {"clean", "mark"}
  PROVE  /\ UNCHANGED invs
         /\ UNCHANGED task \/ (GoesOn /\ task.at = "clean" /\ UNCHANGED box) \/ StopWorker
<1>a. ASSUME NEW o \in Outcomes, Return(o) PROVE FALSE
  BY <1>a, ReturnIs, NoTaskIs
<1>0. {"applied", "refused", "conflict", "transient"} \subseteq Outcomes
  BY DEF Outcomes
<1>1. CASE (\E kind \in Kinds : Submit(kind)) \/ LoopCommands
  BY <1>1, LoopCommandsAre DEF Submit, LoopOnly
<1>2. CASE StartRole
  <2>0. sess.rev \in Nat
    BY TypesAre, SessionIs
  <2>1. ASSUME NEW from \in 0..MaxIds, task' = LaunchOf(sess.rev, from) PROVE FALSE
    BY <2>0, <2>1, LaunchIs
  <2> QED
    BY <1>2, <2>1, StartRoleSplit DEF store
<1>3. CASE CancelRole
  <2>1. ASSUME NEW v \in Active, task' = CancelOf(v) PROVE FALSE
    BY <2>1, CancelIs, IdsAre
  <2> QED
    BY <1>3, <2>1, CancelRoleSplit DEF store
<1>4. CASE Launch
  <2>1. CASE CreateContextSnapshot
    <3>1. ASSUME NEW v \in Ids \ Rows, task' = AtStageOf("insert", v) PROVE FALSE
      BY <3>1, TaskTakes, ThreadsAre, IdsAre DEF Stages
    <3> QED
      BY <1>0, <1>a, <2>1, <3>1, SnapshotSplit
  <2>2. CASE StartSessionInvocation
    <3>1. task' # AtStage("worker")
      BY TaskGoes, ThreadsAre DEF Stages
    <3> QED
      BY <1>0, <1>a, <2>2, <3>1, InsertSplit
  <2>3. CASE StartWorker \/ StartHeadless \/ AwaitNativeSession
    BY <2>3, WorkerSplit, HeadlessSplit, AwaitSplit
  <2>4. CASE RecordNativeSession
    BY <1>0, <1>a, <2>4, NativeSplit
  <2> QED
    BY <1>4, <2>1, <2>2, <2>3, <2>4 DEF Launch
<1>5. CASE Release
  <2>1. CASE ReleaseRead \/ CloseSessionInvocation
    BY <2>1, ReleaseReadSplit, CloseSplit
  <2>2. CASE ReleaseSessionInvocation
    <3>1. ~(Go("stop") /\ UNCHANGED <<loop, poll>>)
      BY GoIs DEF Stages
    <3> QED
      BY <1>0, <1>a, <2>2, <3>1, ReleaseSplit
  <2>3. CASE StopWorker
    BY <2>3, StopWorkerSplit DEF store
  <2>4. CASE RemoveContextSnapshot
    BY <1>a, <2>4, RemoveSplit DEF store
  <2>5. CASE MarkReleased
    BY <1>a, <2>5, MarkSplit
  <2> QED
    BY <1>5, <2>1, <2>2, <2>3, <2>4, <2>5 DEF Release
<1>6. CASE Pass
  <2>1. CASE Reconcile \/ EndPass
    BY <2>1, ReconcileSplit, NoTaskIs DEF EndPass
  <2>2. CASE retryResourceRelease
    <3>1. ASSUME NEW v \in poll.todo, task' = PassEnding("stop", v, invs[v].status) PROVE FALSE
      <4>1. v \in Ids /\ v \in 0..MaxIds /\ "stop" \in Stages
        BY ThreadsAre, IdsAre DEF Stages
      <4>2. invs[v].status \in Ends \cup {"none", "active"}
        BY <4>1, TypesAre, RowFields DEF HostTypes
      <4> QED
        BY <3>1, <4>1, <4>2, PassBegins
    <3> QED
      BY <2>2, <3>1, RetrySplit
  <2>3. CASE ReconcileRead
    <3>1. {"look", "closing"} \subseteq Stages /\ "cancelled" \in Ends /\ poll.act \in 0..MaxIds
      BY ThreadsAre DEF Stages, Ends
    <3>2. task' # PassOver("look", poll.act) /\ task' # PassEnding("closing", poll.act, "cancelled")
      BY <3>1, PassBegins
    <3> QED
      BY <2>3, <3>2, ReadSplit
  <2>4. CASE Look \/ Recheck \/ reject
    BY <2>4, LookSplit, RecheckSplit, RejectSplit
  <2>5. CASE Inspect
    BY <1>0, <1>a, <2>5, InspectSplit
  <2>6. CASE adoptNativeSession
    BY <1>0, <1>a, <2>6, AdoptSplit
  <2>7. CASE AcceptSessionRoleResult
    <3>1. task' # Concluding("stop", "accepted")
      BY ThreadsAre, TaskConcludes DEF Ends, Stages
    <3> QED
      BY <1>0, <1>a, <2>7, <3>1, AcceptSplit
  <2> QED
    BY <1>6, <2>1, <2>2, <2>3, <2>4, <2>5, <2>6, <2>7 DEF Pass
<1>7. CASE Beside \/ (\E v \in Ids : Process(v)) \/ (\E role \in Roles : WorkerDies(role)) \/ UNCHANGED vars
  BY <1>7, StepBeside, ProcessSplit, DiesSplit DEF WorkStep, BesideBg, PinInv, Outside, vars, store
<1>8. CASE Stop
  BY <1>8, StopSplit, NoTaskIs
<1> QED
  BY <1>1, <1>2, <1>3, <1>4, <1>5, <1>6, <1>7, <1>8, CommandsAre DEF Next

LEMMA BoxIs ==
  ASSUME TypeOK, HoldInv, NEW v \in Rows
  PROVE  /\ Mine(v) \in Roles /\ v \in Ids /\ v # 0 /\ box \in [Roles -> Ids \cup {0}]
         /\ \A r, x : [box EXCEPT ![r] = x][Mine(v)] = IF r = Mine(v) THEN x ELSE box[Mine(v)]
BY TypesAre, IdsAre DEF HostTypes, HoldInv, RolesKnown, Mine

\* The rows over a step.
LEMMA RowsGo ==
  ASSUME TypeOK, HoldInv, RowStep
  PROVE  /\ \A v \in Rows : v \in Rows' /\ invs'[v].role = invs[v].role
         /\ \A v \in Rows' : v \in Rows \/ v \in Active'
         /\ \A v \in Rows : \/ invs'[v].released = invs[v].released
                            \/ task.at = "mark" /\ v = task.inv /\ Active' = Active
<1>0. Rows \subseteq Ids
  BY DEF Rows
<1>1. CASE RowsKeep
  <2>1. Rows' = Rows /\ Active' = Active /\ \A v \in Ids : invs'[v].role = invs[v].role
    BY <1>1, RowsKept
  <2> QED
    BY <1>0, <1>1, <2>1 DEF RowsKeep
<1>2. CASE Inserts
  <2>1. /\ task.inv \notin Rows /\ Rows' = Rows \cup {task.inv} /\ Active' = {task.inv}
        /\ \A v \in Ids \ {task.inv} : invs'[v] = invs[v]
    BY <1>2, Inserted DEF Inserts, MayInsert
  <2> QED
    BY <1>0, <2>1
<1>3. CASE RowsEnd(task.inv)
  <2>1. Rows' = Rows /\ \A v \in Ids : invs'[v].role = invs[v].role
    BY <1>3, RowsEnded
  <2> QED
    BY <1>0, <1>3, <2>1 DEF RowsEnd
<1> QED
  BY <1>1, <1>2, <1>3 DEF RowStep

\* A process that a worker takes down does not live on.
LEMMA KilledDies ==
  ASSUME TypeOK, HoldInv, UNCHANGED invs, NEW role, NEW x, NEW v \in Ids, Live(v)',
         proc' = Killed(role), box' = [box EXCEPT ![role] = x]
  PROVE  Live(v)
<1>1. v \in Rows /\ proc'[v].at = "running" /\ box'[Mine(v)] = v
  BY DEF Live, Mine, Rows
<1>2. proc[v].at = "running" /\ Mine(v) # role
  BY <1>1, KilledIs
<1>3. box[Mine(v)] = v
  BY <1>1, <1>2, BoxIs
<1> QED
  BY <1>1, <1>2, <1>3 DEF Live

LEMMA LiveBefore ==
  ASSUME TypeOK, HoldInv, RowStep, HostStep, NEW v \in Ids, Live(v)'
  PROVE  Live(v) \/ v \in Active'
<1>1. v \in Rows' /\ proc'[v].at = "running" /\ box'[invs'[v].role] = v
  BY DEF Live, Mine
<1>2. CASE v \notin Rows
  BY <1>1, <1>2, RowsGo
<1>3. CASE v \in Rows
  <2>1. invs'[v].role = Mine(v)
    BY <1>3, RowsGo DEF Mine
  <2>2. CASE UNCHANGED <<box, proc>>
    BY <1>1, <1>3, <2>1, <2>2 DEF Live
  <2>3. CASE UNCHANGED <<box, invs>>
             /\ \A w \in Ids : proc'[w].at = "running" => proc[w].at = "running" \/ w \in Active
    <3>1. CASE proc[v].at = "running"
      BY <1>1, <1>3, <2>1, <2>3, <3>1 DEF Live
    <3>2. CASE v \in Active
      <4>1. Active' = Active
        BY <2>3, RowsStay, RowsKept
      <4> QED
        BY <3>2, <4>1
    <3> QED
      BY <1>1, <2>3, <3>1, <3>2
  <2>4. CASE UNCHANGED invs /\ \E role, x : proc' = Killed(role) /\ box' = [box EXCEPT ![role] = x]
    BY <2>4, KilledDies
  <2> QED
    BY <2>2, <2>3, <2>4 DEF HostStep
<1> QED
  BY <1>2, <1>3

LEMMA AllOrphan ==
  ASSUME TypeOK, HoldInv, PinInv, LiveInv, [Next]_vars
  PROVE  NoOrphanProcess'
<1>0. RowStep /\ HostStep
  BY AllRows, AllHosts
<1>1. ASSUME NEW v \in Ids, Live(v)'
      PROVE  \E w \in Active' \cup Unreleased' : invs'[w].role = invs'[v].role
  <2>1. CASE v \in Active'
    BY <2>1
  <2>2. CASE Live(v)
    <3>1. v \in Rows /\ proc[v].at = "running" /\ box[Mine(v)] = v
      BY <2>2 DEF Live
    <3>2. PICK w \in Active \cup Unreleased : invs[w].role = invs[v].role
      BY <2>2 DEF LiveInv, NoOrphanProcess
    <3>3. w \in Rows /\ ~invs[w].released
      BY <3>2 DEF Active, Unreleased, HoldInv, Unended
    <3>4. invs'[v].role = invs[v].role /\ invs'[w].role = invs[w].role /\ w \in Rows'
      BY <1>0, <3>1, <3>3, RowsGo
    <3>5. CASE invs'[w].released = invs[w].released
      <4>1. w \in Active' \cup Unreleased'
        BY <3>3, <3>4, <3>5 DEF Active, Unreleased
      <4> QED
        BY <3>2, <3>4, <4>1
    <3>6. CASE task.at = "mark" /\ w = task.inv /\ Active' = Active
      <4>1. box[Mine(w)] # 0
        BY <3>1, <3>2, BoxIs DEF Mine
      <4>2. PICK a \in Active : invs[a].role = invs[w].role
        BY <3>6, <4>1 DEF LiveInv, Cleaned
      <4>3. invs'[a].role = invs[a].role
        BY <1>0, <4>2, IdsAre, RowsGo
      <4> QED
        BY <3>2, <3>4, <3>6, <4>2, <4>3
    <3> QED
      BY <1>0, <3>3, <3>5, <3>6, RowsGo
  <2> QED
    BY <1>0, <1>1, <2>1, <2>2, LiveBefore
<1> QED
  BY <1>1 DEF NoOrphanProcess, Mine

LEMMA AllCleaned ==
  ASSUME TypeOK, HoldInv, PinInv, LiveInv, [Next]_vars
  PROVE  Cleaned'
<1>0. HostStep
  BY AllHosts
<1>1. ASSUME task'.at \in {"clean", "mark"}
      PROVE  \/ box'[invs'[task'.inv].role] = 0
             \/ \E w \in Active' : invs'[w].role = invs'[task'.inv].role
  <2>0. UNCHANGED invs /\ Active' = Active /\ Rows' = Rows
    BY <1>1, AllClean, RowsStay, RowsKept
  <2>1. CASE StopWorker
    <3>1. task.at = "stop" /\ task'.inv = task.inv /\ UNCHANGED poll
      BY <2>1, StopWorkerSplit DEF GoesOn
    <3>2. task.inv \in Rows
      BY <3>1 DEF HoldInv, About, Cleaning
    <3>3. CASE ~ownsWorker
      <4>1. /\ poll.act # 0 /\ task.inv # poll.act /\ invs[poll.act].role = invs[task.inv].role
        BY <3>3 DEF ownsWorker
      <4>2. poll.act \in Active
        BY <4>1 DEF HoldInv, PassKnows
      <4> QED
        BY <2>0, <3>1, <4>1, <4>2
    <3>4. CASE box' = [box EXCEPT ![Mine(task.inv)] = 0]
      BY <2>0, <3>1, <3>2, <3>4, BoxIs DEF Mine
    <3> QED
      BY <1>1, <2>1, <3>3, <3>4, StopWorkerSplit
  <2>2. CASE UNCHANGED task \/ (GoesOn /\ task.at = "clean" /\ UNCHANGED box)
    <3>1. task.at \in {"clean", "mark"} /\ task'.inv = task.inv
      BY <1>1, <2>2 DEF GoesOn
    <3>2. task.inv \in Rows
      BY <3>1 DEF HoldInv, About, Cleaning
    <3>3. CASE \E w \in Active : invs[w].role = invs[task.inv].role
      BY <2>0, <3>1, <3>3
    <3>4. CASE box[Mine(task.inv)] = 0
      <4>1. UNCHANGED box \/ \E role \in Roles : box' = [box EXCEPT ![role] = 0]
        BY <1>0, <3>1 DEF HostStep
      <4>2. box'[Mine(task.inv)] = 0
        BY <3>2, <3>4, <4>1, BoxIs
      <4> QED
        BY <2>0, <3>1, <4>2 DEF Mine
    <3> QED
      BY <3>1, <3>3, <3>4 DEF LiveInv, Cleaned
  <2> QED
    BY <1>1, <2>1, <2>2, AllClean
<1> QED
  BY <1>1 DEF Cleaned, Mine

\* Only a fault takes the worker of an invocation that stays active.
KeepsWorker ==
  \A v \in Active : box[Mine(v)] = v /\ v \in Active' => (box[Mine(v)] = v)' \/ faults' > faults

LEMMA AllKeep ==
  ASSUME TypeOK, HoldInv, PinInv, [Next]_vars
  PROVE  KeepsWorker
<1>0. RowStep /\ HostStep
  BY AllRows, AllHosts
<1>1. ASSUME NEW v \in Active, box[Mine(v)] = v, ~(faults' > faults)
      PROVE  box'[invs'[v].role] = v
  <2>1. v \in Rows /\ invs'[v].role = Mine(v)
    BY <1>0, IdsAre, RowsGo DEF Mine
  <2>2. CASE UNCHANGED box
    BY <1>1, <2>1, <2>2
  <2>3. CASE task.at = "worker" /\ box' = [box EXCEPT ![Mine(task.inv)] = task.inv]
    <3>1. task.inv = v
      BY <2>3 DEF HoldInv, About, Launching, OneActive
    <3> QED
      BY <2>1, <2>3, <3>1, BoxIs
  <2>4. CASE task.at = "stop" /\ ownsWorker /\ box' = [box EXCEPT ![Mine(task.inv)] = 0]
    <3>1. task.inv \in Rows \ Active /\ task.by # "loop"
      BY <2>4 DEF HoldInv, About, PassKnows, Cleaning
    <3>2. poll.at = "busy"
      <4>1. task # NoTask /\ task # Between
        BY <2>4, NoTaskIs
      <4> QED
        BY <3>1, <4>1, ThreadsAre DEF HoldInv, Holder, TaskType, PassType
    <3>3. v = poll.act
      BY <3>2 DEF HoldInv, PassKnows
    <3>4. invs[poll.act].role # invs[task.inv].role
      BY <2>1, <2>4, <3>1, <3>3, BoxIs DEF ownsWorker
    <3> QED
      BY <1>1, <2>1, <2>4, <3>3, <3>4, BoxIs DEF Mine
  <2> QED
    BY <1>0, <1>1, <2>2, <2>3, <2>4 DEF HostStep
<1> QED
  BY <1>1 DEF KeepsWorker, Mine

-----------------------------------------------------------------------------
(* The theorems *)

LEMMA EarlierIs ==
  ASSUME NEW role \in Roles, NEW r \in Nat
  PROVE  /\ Earlier(role, r) \in RowType /\ Earlier(role, r).status = "accepted"
         /\ Earlier(role, r).trigger = 0 /\ Earlier(role, r).role = role
         /\ Earlier(role, r).rev = r
<1>1. NoInv \in RowType /\ NoInv.trigger = 0
  BY SessionAssumption DEF NoInv, RowType
<1>2. PICK x : x = NoInv /\ x \in RowType /\ x.trigger = 0
  BY <1>1
<1>3. PICK b \in Nat : b = IF role = "planning" THEN 1 ELSE 0
  OBVIOUS
<1>4. Earlier(role, r) = [x EXCEPT !.role = role, !.rev = r, !.brief = b, !.status = "accepted",
                                   !.native = r, !.released = TRUE]
  BY <1>2, <1>3 DEF Earlier
<1> QED
  BY <1>2, <1>4 DEF RowType, Ends

LEMMA NoRowsAre ==
  NoRows \in [Ids -> RowType] /\ \A v \in Ids : NoRows[v].status = "none" /\ NoRows[v].trigger = 0
BY SessionAssumption DEF NoRows, NoInv, RowType

\* The rows, the session and the text at each beginning.
LEMMA InitRows ==
  ASSUME Init
  PROVE  /\ invs \in [Ids -> RowType] /\ Active = {}
         /\ \A v \in Rows : /\ invs[v].role \in Roles /\ invs[v].trigger = 0
                            /\ invs[v].rev < sess.rev
         /\ sess \in SessionType /\ sess.approval = 0
         /\ sess.state \in {"none", "awaiting_user", "draft_review"}
         /\ sess.state = "none" => sess.rev = 0
         /\ TextTypes
<1>1. PICK b \in Beginnings :
         /\ sess = [state    |-> CASE b = "new" -> "none" [] b = "brief" -> "awaiting_user" [] OTHER -> "draft_review",
                    rev      |-> CASE b = "new" -> 0 [] b = "brief" -> 4 [] OTHER -> 6,
                    brief    |-> IF b = "new" THEN 0 ELSE 1,
                    ledger   |-> FALSE,
                    approval |-> 0]
         /\ plans = IF b = "draft" THEN <<1>> ELSE <<>>
         /\ turns = CASE b = "new"   -> <<>>
                      [] b = "brief" -> <<Turn("user", 0), Turn("role", 1)>>
                      [] OTHER       -> <<Turn("user", 0), Turn("role", 1), Turn("role", 2)>>
         /\ invs = CASE b = "new"   -> NoRows
                     [] b = "brief" -> [NoRows EXCEPT ![1] = Earlier("ideation", 3)]
                     [] OTHER       -> [NoRows EXCEPT ![1] = Earlier("ideation", 3), ![2] = Earlier("planning", 5)]
  BY DEF Init
<1>2. b \in {"new", "brief", "draft"}
  BY SessionAssumption
<1>3. {"none", "awaiting_user", "draft_review"} \subseteq States
  BY NamedStates
<1>4. PICK s \in States : s = CASE b = "new" -> "none" [] b = "brief" -> "awaiting_user" [] OTHER -> "draft_review"
  BY <1>2, <1>3
<1>5. PICK r \in Nat : r = CASE b = "new" -> 0 [] b = "brief" -> 4 [] OTHER -> 6
  BY <1>2
<1>6. PICK f \in Nat : f = IF b = "new" THEN 0 ELSE 1
  OBVIOUS
<1>7. sess = [state |-> s, rev |-> r, brief |-> f, ledger |-> FALSE, approval |-> 0]
  BY <1>1, <1>4, <1>5, <1>6
<1>8. sess \in SessionType /\ sess.approval = 0 /\ sess.state = s /\ sess.rev = r
  BY <1>7, SessionAssumption DEF SessionType
<1>9. TextTypes
  <2>1. Turn("user", 0) \in TurnType /\ Turn("role", 1) \in TurnType /\ Turn("role", 2) \in TurnType
    BY DEF Turn, TurnType
  <2>2. turns \in Seq(TurnType)
    BY <1>1, <1>2, <2>1
  <2>3. plans \in Seq(Nat)
    BY <1>1
  <2>4. approvals = {} /\ receipts = {}
    BY DEF Init
  <2> QED
    BY <2>2, <2>3, <2>4 DEF TextTypes
<1>10. /\ invs \in [Ids -> RowType]
       /\ \A v \in Ids : invs[v].status # "active"
       /\ \A v \in Rows : invs[v].role \in Roles /\ invs[v].trigger = 0 /\ invs[v].rev < r
  <2>0. PICK x, y : /\ x = Earlier("ideation", 3) /\ x \in RowType /\ x.status = "accepted"
                    /\ x.trigger = 0 /\ x.role \in Roles /\ x.rev = 3
                    /\ y = Earlier("planning", 5) /\ y \in RowType /\ y.status = "accepted"
                    /\ y.trigger = 0 /\ y.role \in Roles /\ y.rev = 5
    BY EarlierIs DEF Roles
  <2>1. CASE b = "new"
    <3>1. invs = NoRows
      BY <1>1, <2>1
    <3> QED
      BY <3>1, NoRowsAre DEF Rows
  <2>2. CASE b = "brief"
    <3>1. invs = [NoRows EXCEPT ![1] = x] /\ r = 4
      BY <1>1, <1>5, <2>0, <2>2
    <3>2. invs \in [Ids -> RowType] /\ \A v \in Ids : invs[v] = IF v = 1 THEN x ELSE NoRows[v]
      BY <2>0, <3>1, NoRowsAre
    <3> QED
      BY <2>0, <3>1, <3>2, NoRowsAre DEF Rows
  <2>3. CASE b = "draft"
    <3>1. invs = [NoRows EXCEPT ![1] = x, ![2] = y] /\ r = 6
      BY <1>1, <1>5, <2>0, <2>3
    <3>2. PICK g : g = [NoRows EXCEPT ![1] = x] /\ g \in [Ids -> RowType]
                   /\ \A v \in Ids : g[v] = IF v = 1 THEN x ELSE NoRows[v]
      <4>1. /\ [NoRows EXCEPT ![1] = x] \in [Ids -> RowType]
            /\ \A v \in Ids : [NoRows EXCEPT ![1] = x][v] = IF v = 1 THEN x ELSE NoRows[v]
        BY <2>0, NoRowsAre
      <4> QED
        BY <4>1
    <3>3. invs = [g EXCEPT ![2] = y]
      BY <3>1, <3>2
    <3>4. invs \in [Ids -> RowType] /\ \A v \in Ids : invs[v] = IF v = 2 THEN y ELSE g[v]
      BY <2>0, <3>2, <3>3
    <3>5. \A v \in Ids : invs[v] = IF v = 2 THEN y ELSE IF v = 1 THEN x ELSE NoRows[v]
      BY <3>2, <3>4
    <3> QED
      BY <2>0, <3>1, <3>4, <3>5, NoRowsAre DEF Rows
  <2> QED
    BY <1>2, <2>1, <2>2, <2>3
<1>11. Active = {}
  BY <1>10 DEF Active, Rows
<1> QED
  BY <1>2, <1>4, <1>5, <1>8, <1>9, <1>10, <1>11

\* Every beginning of a session satisfies the invariant.
LEMMA InitHolds ==
  Init => SessionInv
<1> SUFFICES ASSUME Init PROVE SessionInv
  OBVIOUS
<1>1. /\ approvals = {} /\ receipts = {} /\ inbox = <<>>
      /\ snaps = {} /\ box = [r \in Roles |-> 0]
      /\ proc = [v \in Ids |-> [at |-> "none", native |-> 0]] /\ report = [v \in Ids |-> "none"]
      /\ loop = Idle /\ bg = NoWork /\ poll = NoPass /\ task = NoTask
      /\ faults = 0 /\ stops = 0
  BY DEF Init
<1>2. TypeOK
  <2>1. InboxType
    BY <1>1, SessionAssumption DEF InboxType
  <2>2. HostTypes
    <3>1. [at |-> "none", native |-> 0] \in ProcessType
      BY DEF ProcessType
    <3>2. proc \in [Ids -> ProcessType] /\ box \in [Roles -> Ids \cup {0}]
      BY <1>1, <3>1
    <3> QED
      BY <1>1, <3>2, InitRows DEF HostTypes
  <2>3. ThreadTypes /\ BoundTypes
    BY <1>1, IdleIs, NoWorkIs, NoPassIs, NoTaskIs DEF ThreadTypes, BoundTypes
  <2> QED
    BY <2>1, <2>2, <2>3, InitRows, TypesAre
<1>3. HoldInv
  <2>1. Holder
    BY <1>1, NoTaskIs, NoPassIs DEF Holder, Launching, Looking
  <2>2. About
    BY <1>1, NoTaskIs DEF About, Launching, Looking, Ending, Cleaning
  <2>3. PassKnows
    BY <1>1, NoTaskIs, NoPassIs DEF PassKnows
  <2> QED
    BY <2>1, <2>2, <2>3, InitRows DEF HoldInv, RolesKnown, Unended, OneActive
<1>4. PinInv
  <2>1. sess.rev \in Nat /\ \A v \in Rows : invs[v].rev \in Nat
    BY <1>2, TypesAre, SessionIs, RowFields, IdsAre DEF HostTypes
  <2> QED
    BY <1>1, <2>1, InitRows, NoWorkIs DEF PinInv, RowsPinned, WorkPinned, Uncreated
<1>5. TriggerInv
  BY <1>1, InitRows, IdleIs DEF TriggerInv
<1>6. OneRoleAtWork /\ ApprovalBindsReviewed
  BY InitRows DEF OneRoleAtWork, RoleActiveHasOwner, RoleStartedOnce, ApprovalBindsReviewed
<1>7. LiveInv
  BY <1>1, NoTaskIs DEF LiveInv, NoOrphanProcess, Cleaned, Live
<1> QED
  BY <1>2, <1>3, <1>4, <1>5, <1>6, <1>7 DEF SessionInv

\* Every step keeps it.
LEMMA NextHolds ==
  SessionInv /\ [Next]_vars => SessionInv'
<1> SUFFICES ASSUME SessionInv, [Next]_vars PROVE SessionInv'
  OBVIOUS
<1>1. TypeOK /\ HoldInv /\ PinInv /\ TriggerInv /\ OneRoleAtWork /\ ApprovalBindsReviewed /\ LiveInv
  BY DEF SessionInv
<1>2. TypeOK' /\ HoldInv' /\ PinInv'
  BY <1>1, AllAdvance, AllHold, AllPin DEF Advances
<1>3. TriggerInv' /\ OneRoleAtWork'
  BY <1>1, AllTrigger, AllOneRole
<1>4. ApprovalBindsReviewed'
  BY <1>1, AllBind DEF BindStep
<1>5. LiveInv'
  BY <1>1, AllOrphan, AllCleaned DEF LiveInv
<1> QED
  BY <1>2, <1>3, <1>4, <1>5 DEF SessionInv

\* session_roles.go, handlers.go, dispatch.go - the inductive invariant holds in
\* every reachable state of a session.
THEOREM SessionSafety == Spec => []SessionInv
BY InitHolds, NextHolds, PTL DEF Spec

\* Every variable keeps its type: no step leaves the states of the lifecycle
\* table, the stages of a thread or the identifiers of the rows.
THEOREM SessionTypes == Spec => []TypeOK
<1>1. SessionInv => TypeOK
  BY DEF SessionInv
<1> QED
  BY <1>1, SessionSafety, PTL

\* session_roles.go launch and release, handlers.go startedRole - a session that
\* is role_active has an active invocation pinned to its revision, and a command
\* that is resumed after a stop or a failure starts no second role.
THEOREM OneRole == Spec => []OneRoleAtWork
<1>1. SessionInv => OneRoleAtWork
  BY DEF SessionInv
<1> QED
  BY <1>1, SessionSafety, PTL

\* store ApprovePlan, insertBriefRevision, insertPlanRevision - whatever is edited
\* while an approval is under way, an approval that counts names the current plan
\* and that plan derives from the current brief.
THEOREM ApprovalBinds == Spec => []ApprovalBindsReviewed
<1>1. SessionInv => ApprovalBindsReviewed
  BY DEF SessionInv
<1> QED
  BY <1>1, SessionSafety, PTL

\* session_roles.go releaseResources, retryResourceRelease - a role process that
\* lives has an invocation of its role that is active or still to be released,
\* after every stop of the program and failed cleanup.
THEOREM NoOrphans == Spec => []NoOrphanProcess
<1>1. SessionInv => NoOrphanProcess
  BY DEF SessionInv, LiveInv
<1> QED
  BY <1>1, SessionSafety, PTL

\* session_roles.go acceptReport - nothing is added to a session that was
\* cancelled or that ended without a build: no turn, brief, plan or approval.
THEOREM FrozenWhenClosed == Spec => ClosedIsFrozen
<1>1. SessionInv /\ [Next]_vars => [sess.state \in Closed => UNCHANGED <<plans, turns, approvals, sess.brief>>]_vars
  BY AllBind DEF SessionInv, BindStep, Frozen
<1> QED
  BY <1>1, SessionSafety, PTL DEF Spec, ClosedIsFrozen

\* session_roles.go retryResourceRelease - the repeated cleanup of an older
\* invocation of the role never takes the worker of an active one.
THEOREM WorkerKept == Spec => ActiveKeepsWorker
<1>1. SessionInv /\ [Next]_vars
        => [\A v \in Active : box[Mine(v)] = v /\ v \in Active' => (box[Mine(v)] = v)' \/ faults' > faults]_vars
  BY AllKeep DEF SessionInv, KeepsWorker
<1> QED
  BY <1>1, SessionSafety, PTL DEF Spec, ActiveKeepsWorker
=============================================================================
