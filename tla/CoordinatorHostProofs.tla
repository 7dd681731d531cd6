------------------------ MODULE CoordinatorHostProofs ------------------------
(***************************************************************************)
(* Theorems about the processes of one checkout, for every number of       *)
(* factory start processes, issues, runs, lock files, failed calls, crashes*)
(* and commands: types; coordinators and a confirmed reset exclude one     *)
(* another; an unexpired heartbeat names the owner of the lock; rows,      *)
(* worktrees and worker resources follow one another.                      *)
(***************************************************************************)
EXTENDS CoordinatorHost, TLAPS

-----------------------------------------------------------------------------
(* TypeOK with its record sets named *)

ProcType == [at : Places, fd : 0..MaxInodes, run : 0..MaxRuns, bad : BOOLEAN]
RowType  == [status : Statuses, pending : Statuses, old : BOOLEAN]
IssueType == [state : {"open", "closed", "merged"}, label : {"ready", "running"} \cup Terminal]
BeatType == [pid : Procs \cup {Nobody}, live : BOOLEAN]
PlanType == [cleanup : SUBSET Runs, reset : SUBSET Runs]
HistType == [orphan : BOOLEAN, silent : SUBSET Starters, lost : SUBSET Runs,
             gone : SUBSET Runs, adrift : SUBSET Runs, late : SUBSET Runs]

KernelTypes == /\ path \in 0..MaxInodes /\ made \in 0..MaxInodes
               /\ flock \in [Inodes -> Procs \cup {Nobody}]
               /\ owner \in [Inodes -> Procs \cup {Nobody}]
HostTypes  == /\ config \in BOOLEAN /\ stored \in BOOLEAN /\ beat \in BeatType
              /\ faults \in Nat /\ cmds \in Nat /\ told \subseteq Procs
RunTypes   == /\ runs \in [Runs -> RowType] /\ issue \in [Issues -> IssueType]
              /\ of \in [Runs -> Issues \cup {0}]
StoreTypes == /\ cut \subseteq Procs /\ txn \in Procs \cup {Nobody}
              /\ tree \subseteq Runs /\ box \subseteq Runs /\ plans \in PlanType
Types == /\ KernelTypes /\ HostTypes /\ RunTypes /\ StoreTypes
         /\ proc \in [Procs -> ProcType] /\ hist \in HistType

-----------------------------------------------------------------------------
(* Where each process can be, and what it holds there *)

PlacesOf(p) ==
  CASE p \in Starters  -> {"idle", "gone", "diagnosed", "opened", "locked", "owner",
                           "started", "polling", "stopping", "stopped"} \cup Claiming
    [] p = "issue"     -> {"idle", "gone"} \cup Claiming
    [] p = "stop"      -> {"idle", "gone", "stopped"}
    [] p = "cleanup"   -> {"idle", "gone", "listed", "reserved", "workers", "deleting"}
    [] p = "reset"     -> {"idle", "gone", "planned", "opened", "locked", "owner",
                           "applied", "workers", "trees", "dropping", "unlinking",
                           "unlinked", "stopped"}
InPlace == \A p \in Procs : proc[p].at \in PlacesOf(p)

\* A process that got the lock keeps it to its end; factory issue and factory
\* cleanup never take it.
Holds(p) == /\ p \notin {"issue", "cleanup"}
            /\ proc[p].at \notin {"idle", "gone", "diagnosed", "planned", "opened"}
LockHeld ==
  \A p \in Procs :
    /\ Holds(p) => proc[p].fd \in Inodes /\ flock[proc[p].fd] = p
    /\ proc[p].at \in {"opened", "locked"} => proc[p].fd \in Inodes

\* Everyone opened the file that is at the path, until a reset unlinked it.
Unlinker(p) == p = "reset" /\ proc[p].at \in {"unlinked", "stopped"}
OneFile ==
  /\ hist.orphan \/ \A p \in Procs :
       proc[p].fd # 0 /\ ~Unlinker(p) => proc[p].fd = path
  /\ hist.orphan /\ "reset" \in Procs => proc["reset"].at \in {"unlinked", "stopped", "gone"}
  /\ hist.orphan => "reset" \in Procs

\* An unexpired heartbeat is renewed, or its writer could not end it.
Beats(p) == proc[p].at \in {"started", "polling", "stopping"} \cup Claiming
BeatHeld ==
  beat.live => \E q \in Starters : q = beat.pid /\ (q \in hist.silent \/ Beats(q))

\* A claim and a removal are about a run.
InClaimOf(p, r) == p \in Procs /\ proc[p].at \in Claiming /\ proc[p].run = r
Removing == \E where \in {"reserved", "workers", "deleting"} : At("cleanup", where)
Assigned ==
  /\ \A p \in Procs : proc[p].at \in Claiming => proc[p].run \in Runs
  /\ Removing => proc["cleanup"].run \in Runs

LockInv == Types /\ Assigned /\ InPlace /\ LockHeld /\ OneFile /\ BeatHeld

-----------------------------------------------------------------------------
(* Rows, worktrees and worker resources, run by run *)

Claimed(r) == \E p \in Procs : InClaimOf(p, r)
RemovedRun(r) == Removing /\ proc["cleanup"].run = r
Past(r) == r \in hist.gone \cup hist.late
ResetAt(places) == \E where \in places : At("reset", where)

\* A run is claimed once, and unknown before.
ClaimedOnce(r) ==
  /\ of[r] = 0 => /\ r \notin Rows /\ ~runs[r].old /\ r \notin tree /\ r \notin box /\ ~Claimed(r)
                  /\ r \notin plans.cleanup /\ r \notin plans.reset /\ ~RemovedRun(r)
  /\ \A p, q \in Procs : InClaimOf(p, r) /\ InClaimOf(q, r) => p = q

\* A claim in progress owns its run: what it created is there, or is known to
\* be gone, and nobody removes it.
ClaimOK(p, r) ==
  /\ ~runs[r].old /\ r \notin plans.cleanup /\ ~RemovedRun(r)
  /\ r \in tree \/ Past(r)
  /\ proc[p].at = "claiming" => r \notin Rows /\ r \in tree /\ r \notin plans.reset
  /\ p \notin cut /\ proc[p].at # "claiming" => r \in Rows
  /\ p \in cut \/ Resetting => r \in hist.late
ClaimOwns(r) == \A p \in Procs : InClaimOf(p, r) => ClaimOK(p, r)

\* The run a cleanup removes has ended, and stays so under its reservation; a
\* cleanup that a reset cut off removes nothing that has a row.
CleanupKnows(r) ==
  /\ RemovedRun(r) /\ "cleanup" \notin cut =>
       /\ txn = "cleanup" /\ r \notin Current
       /\ proc["cleanup"].at \in {"workers", "deleting"} => r \notin box
       /\ proc["cleanup"].at = "deleting" => r \notin tree
  /\ "cleanup" \in cut /\ (r \in plans.cleanup \/ RemovedRun(r)) => r \notin Rows

\* What a reset removes are the rows it planned from.
ResetKnows(r) ==
  /\ ResetAt({"workers", "trees", "dropping"}) /\ r \in Rows =>
       r \in plans.reset \/ r \in hist.late
  /\ ResetAt({"trees", "dropping"}) /\ ~proc["reset"].bad /\ r \in plans.reset => r \notin box
  /\ ResetAt({"dropping"}) /\ ~proc["reset"].bad /\ r \in plans.reset => r \notin tree

\* A row has its worktree, but for the one being removed under the write
\* reservation; worker resources belong to a row, worktrees to a row or claim.
RowHasTree(r) ==
  r \in Rows => \/ r \in tree \/ Past(r)
                \/ "cleanup" \notin cut /\ At("cleanup", "deleting") /\ RemovedRun(r)
BoxHasRow(r) == r \in box => r \in Rows \cup hist.lost \cup hist.late
TreeHasRow(r) == r \in tree => r \in Rows \cup hist.lost \cup hist.late \/ Claimed(r)

RunOK(r) == /\ ClaimedOnce(r) /\ ClaimOwns(r) /\ CleanupKnows(r) /\ ResetKnows(r)
            /\ RowHasTree(r) /\ BoxHasRow(r) /\ TreeHasRow(r)

\* A reset cuts off only what runs without the lock, and what has begun.
OnlyOperatorsCut == /\ cut \subseteq {"issue", "cleanup"}
                    /\ \A p \in cut : proc[p].at # "idle"

Resources == \A r \in Runs : RunOK(r)
HostInv == LockInv /\ OnlyOperatorsCut /\ Resources

-----------------------------------------------------------------------------
(* Types *)

LEMMA ProcFacts ==
  /\ Nobody \notin Procs
  /\ \A c \in Commands : c \notin Starters
  /\ Procs \subseteq Starters \cup Commands
  /\ Nobody \notin Starters
BY HostAssumption DEF Procs

LEMMA BoundFacts ==
  /\ MaxRuns \in Nat \ {0} /\ MaxInodes \in Nat \ {0}
  /\ MaxFaults \in Nat /\ MaxCommands \in Nat
  /\ Inodes = 1..MaxInodes /\ Runs = 1..MaxRuns
BY HostAssumption DEF Inodes, Runs

LEMMA TypesAre == TypeOK <=> Types
BY DEF TypeOK, Types, KernelTypes, HostTypes, RunTypes, StoreTypes, ProcType,
   RowType, IssueType, BeatType, PlanType, HistType

LEMMA PlaceFacts ==
  /\ Claiming \subseteq Places
  /\ \A p \in Procs : PlacesOf(p) \subseteq Places
<1>1. Claiming \subseteq Places
  BY DEF Claiming, Places
<1>2. ASSUME NEW p \in Procs PROVE PlacesOf(p) \subseteq Places
  <2>1. p \in Starters \/ p = "issue" \/ p = "stop" \/ p = "cleanup" \/ p = "reset"
    BY ProcFacts DEF Commands
  <2> QED
    BY <1>1, <2>1, ProcFacts DEF PlacesOf, Places, Commands
<1> QED
  BY <1>1, <1>2

\* What a step of one process does to the place of all of them.
LEMMA Goes ==
  ASSUME proc \in [Procs -> ProcType], NEW p \in Procs, NEW where \in Places,
         Goto(p, where)
  PROVE  /\ proc' \in [Procs -> ProcType]
         /\ proc'[p].at = where /\ proc'[p].fd = proc[p].fd
         /\ proc'[p].run = proc[p].run /\ proc'[p].bad = proc[p].bad
         /\ \A q \in Procs : q # p => proc'[q] = proc[q]
BY DEF Goto, ProcType

LEMMA Ends ==
  ASSUME proc \in [Procs -> ProcType], NEW p \in Procs,
         proc' = [proc EXCEPT ![p] = Done]
  PROVE  /\ proc' \in [Procs -> ProcType]
         /\ proc'[p] = Done /\ proc'[p].at = "gone" /\ proc'[p].fd = 0
         /\ proc'[p].run = 0 /\ proc'[p].bad = FALSE
         /\ \A q \in Procs : q # p => proc'[q] = proc[q]
<1>1. Done \in ProcType
  <2>1. 0 \in 0..MaxInodes /\ 0 \in 0..MaxRuns /\ "gone" \in Places /\ FALSE \in BOOLEAN
    BY BoundFacts DEF Places
  <2> QED
    BY <2>1 DEF Done, Idle, ProcType
<1> QED
  BY <1>1 DEF Done, Idle

LEMMA Returns ==
  ASSUME proc \in [Procs -> ProcType], NEW p \in Procs, Return(p) \/ ReturnError(p)
  PROVE  /\ proc' \in [Procs -> ProcType]
         /\ p \in Starters => /\ proc'[p].at \in {"polling", "stopping"}
                              /\ proc'[p].fd = proc[p].fd
         /\ p \notin Starters => proc'[p].at = "gone" /\ proc'[p].fd = 0
         /\ proc'[p].run = 0
         /\ \A q \in Procs : q # p => proc'[q] = proc[q]
<1>1. CASE p \in Starters
  <2>1. PICK where \in {"polling", "stopping"} :
           proc' = [proc EXCEPT ![p] = [proc[p] EXCEPT !.at = where, !.run = 0]]
    BY <1>1 DEF Return, ReturnError
  <2>2. where \in Places /\ 0 \in 0..MaxRuns
    BY BoundFacts DEF Places
  <2> QED
    BY <1>1, <2>1, <2>2 DEF ProcType
<1>2. CASE p \notin Starters
  BY <1>2, Ends DEF Return, ReturnError
<1> QED
  BY <1>1, <1>2

\* The history keeps its type, and a step records only what it may.
LEMMA HistGrows ==
  ASSUME hist \in HistType
  PROVE  /\ \A S \in SUBSET Starters : [hist EXCEPT !.silent = @ \cup S] \in HistType
         /\ \A R \in SUBSET Runs :
              /\ [hist EXCEPT !.lost = @ \cup R] \in HistType
              /\ [hist EXCEPT !.gone = @ \cup R] \in HistType
              /\ [hist EXCEPT !.adrift = @ \cup R] \in HistType
              /\ [hist EXCEPT !.late = @ \cup R] \in HistType
         /\ \A b \in BOOLEAN : [hist EXCEPT !.orphan = b] \in HistType
BY DEF HistType

LEMMA TypesStart == Init => Types
<1> SUFFICES ASSUME Init PROVE Types
  OBVIOUS
<1>1. Idle \in ProcType /\ NoRow \in RowType
  <2>1. 0 \in 0..MaxInodes /\ 0 \in 0..MaxRuns /\ "idle" \in Places
    BY BoundFacts DEF Places
  <2> QED
    BY <2>1 DEF Idle, NoRow, ProcType, RowType, Statuses
<1>2. 0 \in 0..MaxInodes
  BY BoundFacts
<1>3. hist \in HistType /\ beat \in BeatType /\ plans \in PlanType
  BY DEF Init, HistType, BeatType, PlanType
<1>4. issue \in [Issues -> IssueType]
  BY DEF Init, IssueType
<1> QED
  BY <1>1, <1>2, <1>3, <1>4 DEF Init, Types, KernelTypes, HostTypes, RunTypes, StoreTypes

\* The steps of the lock.
LEMMA LockTypes ==
  ASSUME Types, NEW p \in Procs,
         OpenLock(p) \/ TryLock(p) \/ RecordOwner(p) \/ Release(p)
  PROVE  Types'
<1> USE DEF Types
<1>0. UNCHANGED <<host, beat, runs, claims, txn, disk, issue, plans, told, hist, bounds>>
        => HostTypes' /\ RunTypes' /\ StoreTypes' /\ hist' \in HistType
  BY DEF HostTypes, RunTypes, StoreTypes, host, claims, disk, bounds
<1>1. CASE OpenLock(p)
  <2>1. PICK n \in 0..MaxInodes :
           /\ proc' = [proc EXCEPT ![p] = [proc[p] EXCEPT !.at = "opened", !.fd = n]]
           /\ path' \in 0..MaxInodes /\ made' \in 0..MaxInodes
    <3>1. CASE path # 0
      BY <1>1, <3>1 DEF OpenLock, KernelTypes, ProcType
    <3>2. CASE path = 0
      <4>1. made + 1 \in 0..MaxInodes
        BY <1>1, <3>2, BoundFacts DEF OpenLock, KernelTypes
      <4> QED
        BY <1>1, <3>2, <4>1 DEF OpenLock, KernelTypes, ProcType
    <3> QED
      BY <3>1, <3>2
  <2>2. proc' \in [Procs -> ProcType]
    BY <2>1 DEF ProcType, Places
  <2> QED
    BY <1>0, <1>1, <2>1, <2>2 DEF OpenLock, KernelTypes
<1>2. CASE TryLock(p)
  <2>1. proc' \in [Procs -> ProcType]
    BY <1>2, Goes, Ends DEF TryLock, Places
  <2>2. KernelTypes'
    BY <1>2 DEF TryLock, KernelTypes
  <2> QED
    BY <1>0, <1>2, <2>1, <2>2 DEF TryLock
<1>3. CASE RecordOwner(p)
  <2>1. proc' \in [Procs -> ProcType]
    BY <1>3, Goes DEF RecordOwner, Places
  <2>2. KernelTypes'
    BY <1>3 DEF RecordOwner, KernelTypes
  <2> QED
    BY <1>0, <1>3, <2>1, <2>2 DEF RecordOwner
<1>4. CASE Release(p)
  <2>1. proc' \in [Procs -> ProcType]
    BY <1>4, Ends DEF Release
  <2>2. KernelTypes'
    BY <1>4 DEF Release, release, Unlocked, KernelTypes
  <2> QED
    BY <1>0, <1>4, <2>1, <2>2 DEF Release
<1> QED
  BY <1>1, <1>2, <1>3, <1>4

\* What a step leaves alone keeps its type.
LEMMA Frames ==
  ASSUME Types
  PROVE  /\ UNCHANGED kernel => KernelTypes'
         /\ UNCHANGED <<host, beat, told, bounds>> => HostTypes'
         /\ UNCHANGED <<runs, issue, of>> => RunTypes'
         /\ UNCHANGED <<cut, txn, disk, plans>> => StoreTypes'
         /\ UNCHANGED hist => hist' \in HistType
         /\ UNCHANGED proc => proc' \in [Procs -> ProcType]
BY DEF Types, KernelTypes, HostTypes, RunTypes, StoreTypes, kernel, host, bounds, disk

LEMMA HostChanges ==
  ASSUME HostTypes,
         UNCHANGED config \/ config' = FALSE,
         UNCHANGED stored \/ stored' \in BOOLEAN,
         UNCHANGED told \/ told' \subseteq Procs,
         UNCHANGED beat \/ \E q \in Procs \cup {Nobody}, live \in BOOLEAN :
                             beat' = [pid |-> q, live |-> live] \/ beat' = [beat EXCEPT !.live = live],
         UNCHANGED faults \/ (\E n \in {0, 1, 2} : Faults(n)),
         UNCHANGED cmds \/ Command
  PROVE  HostTypes'
<1>1. beat' \in BeatType
  BY DEF HostTypes, BeatType
<1>2. faults' \in Nat
  BY BoundFacts DEF HostTypes, Faults
<1>3. cmds' \in Nat
  BY BoundFacts DEF HostTypes, Command
<1> QED
  BY <1>1, <1>2, <1>3 DEF HostTypes

\* The rows and labels a transition can leave.
LEMMA RowChanges ==
  ASSUME RunTypes, NEW r \in Runs, NEW status \in Statuses
  PROVE  /\ SetStatus(r, status) \in [Runs -> RowType]
         /\ [runs EXCEPT ![r].pending = status] \in [Runs -> RowType]
         /\ [runs EXCEPT ![r].old = TRUE] \in [Runs -> RowType]
         /\ [runs EXCEPT ![r] = NoRow] \in [Runs -> RowType]
         /\ [runs EXCEPT ![r] = [NoRow EXCEPT !.status = "active"]] \in [Runs -> RowType]
<1>1. NoRow \in RowType /\ [NoRow EXCEPT !.status = "active"] \in RowType
  BY DEF NoRow, RowType, Statuses, Terminal
<1>2. "none" \in Statuses
  BY DEF Statuses
<1> QED
  BY <1>1, <1>2 DEF RunTypes, RowType, SetStatus

LEMMA LabelChanges ==
  ASSUME RunTypes, NEW r \in Runs
  PROVE  /\ \A label \in {"ready", "running"} \cup Terminal :
              [issue EXCEPT ![of[r]].label = label] \in [Issues -> IssueType]
         /\ \A status \in Statuses : SetLabel(r, status) \in [Issues -> IssueType]
              \/ status = "none"
<1>1. \A label \in {"ready", "running"} \cup Terminal :
        [issue EXCEPT ![of[r]].label = label] \in [Issues -> IssueType]
  BY DEF RunTypes, IssueType
<1>2. \A status \in Statuses : status = "none" \/ LabelOf(status) \in {"ready", "running"} \cup Terminal
  BY DEF LabelOf, Statuses
<1>3. \A status \in Statuses : SetLabel(r, status) \in [Issues -> IssueType]
              \/ status = "none"
  BY <1>2 DEF RunTypes, IssueType, SetLabel
<1> QED
  BY <1>1, <1>3

LEMMA TransitionTypes ==
  ASSUME RunTypes, NEW r \in Runs, NEW status \in Statuses, status # "none",
         Transition(r, status), UNCHANGED of
  PROVE  RunTypes'
<1>1. runs' \in [Runs -> RowType]
  <2>1. /\ SetStatus(r, status) \in [Runs -> RowType]
        /\ [runs EXCEPT ![r].pending = status] \in [Runs -> RowType]
    BY RowChanges
  <2> QED
    BY <2>1 DEF Transition
<1>2. issue' \in [Issues -> IssueType]
  BY LabelChanges DEF Transition, RunTypes
<1> QED
  BY <1>1, <1>2 DEF RunTypes

\* The steps of factory start.
LEMMA StartTypes ==
  ASSUME Types, NEW p \in Starters, Start(p)
  PROVE  Types'
<1> USE DEF Types
<1>p. p \in Procs
  BY DEF Procs
<1>0. Current \subseteq Runs /\ Observed \subseteq Rows /\ Rows \subseteq Runs
  BY DEF Current, Observed, Rows
<1>1. CASE startupDiagnosis(p)
  BY <1>1, <1>p, Goes, Frames DEF startupDiagnosis, Places, claims
<1>2. CASE startSupervisorHeartbeat(p)
  <2>1. proc' \in [Procs -> ProcType]
    BY <1>2, <1>p, Goes DEF startSupervisorHeartbeat, Places
  <2>2. HostTypes'
    BY <1>2, <1>p, HostChanges DEF startSupervisorHeartbeat, SaveSupervisorHeartbeat
  <2> QED
    BY <1>2, <2>1, <2>2, Frames DEF startSupervisorHeartbeat, claims
<1>3. CASE Renew(p)
  <2>1. HostTypes'
    BY <1>3, <1>p, HostChanges DEF Renew, SaveSupervisorHeartbeat, host, bounds
  <2> QED
    BY <1>3, <2>1, Frames DEF Renew, claims
<1>4. CASE reconcileRegisteredRun(p)
  BY <1>4, <1>p, Goes, Frames DEF reconcileRegisteredRun, Places, claims, bounds
<1>5. CASE EndLoop(p)
  <2>1. proc' \in [Procs -> ProcType]
    BY <1>5, <1>p, Goes DEF EndLoop, Places
  <2>2. HostTypes'
    BY <1>5, <1>p, HostChanges DEF EndLoop, host
  <2> QED
    BY <1>5, <2>1, <2>2, Frames DEF EndLoop, claims
<1>6. CASE StopHeartbeat(p)
  <2>1. proc' \in [Procs -> ProcType]
    BY <1>6, <1>p, Goes DEF StopHeartbeat, Places
  <2>2. HostTypes'
    BY <1>6, <1>p, HostChanges DEF StopHeartbeat, SaveSupervisorHeartbeat
  <2>3. hist' \in HistType
    BY <1>6, HistGrows DEF StopHeartbeat
  <2> QED
    BY <1>6, <2>1, <2>2, <2>3, Frames DEF StopHeartbeat, claims
<1>7. CASE drainPendingEffect(p)
  <2>1. PICK r \in Runs : /\ runs[r].pending # "none"
                          /\ runs' = SetStatus(r, runs[r].pending)
                          /\ issue' = SetLabel(r, runs[r].pending)
    BY <1>0, <1>7 DEF drainPendingEffect
  <2>2. PICK status \in Statuses : status = runs[r].pending
    BY DEF RunTypes, RowType
  <2>3. RunTypes'
    BY <1>7, <2>1, <2>2, RowChanges, LabelChanges DEF RunTypes, drainPendingEffect, claims
  <2> QED
    BY <1>7, <2>3, Frames DEF drainPendingEffect, claims
<1>8. CASE observeLifecycle(p)
  <2>1. PICK r \in Runs : Outcome(r) # "unchanged" /\ Transition(r, Outcome(r))
    BY <1>0, <1>8 DEF observeLifecycle
  <2>2. Outcome(r) \in Statuses \ {"none"}
    BY <2>1 DEF Outcome, Statuses, Terminal
  <2>3. RunTypes'
    BY <1>8, <2>1, <2>2, TransitionTypes DEF observeLifecycle, claims
  <2>4. HostTypes'
    BY <1>8, <2>1, HostChanges DEF observeLifecycle, Transition, host
  <2> QED
    BY <1>8, <2>3, <2>4, Frames DEF observeLifecycle, claims
<1>9. CASE driveRun(p)
  <2>1. StoreTypes'
    BY <1>0, <1>9 DEF driveRun, StoreTypes, claims
  <2> QED
    BY <1>9, <2>1, Frames DEF driveRun, claims
<1>10. CASE Retry(p)
  <2>1. PICK r \in Runs : Transition(r, "active")
    BY <1>0, <1>10 DEF Retry
  <2>2. "active" \in Statuses \ {"none"}
    BY DEF Statuses
  <2>3. RunTypes'
    BY <1>10, <2>1, <2>2, TransitionTypes DEF Retry, claims
  <2>4. HostTypes'
    BY <1>10, <2>1, HostChanges DEF Retry, Transition, host
  <2> QED
    BY <1>10, <2>3, <2>4, Frames DEF Retry, claims
<1> QED
  BY <1>1, <1>2, <1>3, <1>4, <1>5, <1>6, <1>7, <1>8, <1>9, <1>10 DEF Start

\* The steps of a claim.
LEMMA ClaimTypes ==
  ASSUME Types, NEW p \in Procs, proc[p].at \in Claiming => proc[p].run \in Runs, Claim(p)
  PROVE  Types'
<1> USE DEF Types
<1> DEFINE r == proc[p].run
<1>1. CASE ClaimBegin(p)
  <2>1. PICK i \in Issues, n \in Runs :
           /\ Create(i, n)
           /\ proc' = [proc EXCEPT ![p].at = "claiming", ![p].run = n]
           /\ hist' = IF Resetting THEN [hist EXCEPT !.late = @ \cup {n}] ELSE hist
    BY <1>1 DEF ClaimBegin, Unclaimed
  <2>2. n \in 0..MaxRuns /\ "claiming" \in Places
    BY BoundFacts DEF Places
  <2>3. proc' \in [Procs -> ProcType]
    BY <2>1, <2>2 DEF ProcType
  <2>4. hist' \in HistType
    BY <2>1, HistGrows
  <2>5. of' \in [Runs -> Issues \cup {0}] /\ tree' \subseteq Runs
    BY <2>1 DEF Create, RunTypes, StoreTypes
  <2>6. HostTypes'
    <3>1. UNCHANGED cmds \/ Command
      BY <1>1 DEF ClaimBegin
    <3> QED
      BY <1>1, <3>1, HostChanges DEF ClaimBegin
  <2> QED
    BY <1>1, <2>3, <2>4, <2>5, <2>6, Frames DEF ClaimBegin, RunTypes, StoreTypes
<1>2. CASE ClaimSave(p)
  <2>1. proc' \in [Procs -> ProcType]
    BY <1>2, Goes DEF ClaimSave, Places
  <2>2. r \in Runs
    BY <1>2 DEF ClaimSave, At, Claiming
  <2>3. runs' \in [Runs -> RowType]
    <3>1. PICK status \in Statuses : status = "active"
      BY DEF Statuses
    <3>2. [runs EXCEPT ![r] = [NoRow EXCEPT !.status = "active"]] \in [Runs -> RowType]
      BY <2>2, <3>1, RowChanges
    <3> QED
      BY <1>2, <3>2 DEF ClaimSave, RunTypes
  <2>4. RunTypes'
    BY <1>2, <2>3 DEF ClaimSave, RunTypes, claims
  <2> QED
    BY <1>2, <2>1, <2>4, Frames DEF ClaimSave, claims
<1>3. ASSUME cleanupWorkspace(p, 0) \/ cleanupWorkspace(p, 1), r \in Runs
      PROVE  tree' \subseteq Runs /\ hist' \in HistType
             /\ \E k \in {0, 1, 2} : Faults(k)
  <2>1. hist' \in HistType
    <3>1. \A R \in SUBSET Runs :
             /\ [hist EXCEPT !.lost = @ \cup R] \in HistType
             /\ [hist EXCEPT !.gone = @ \cup R] \in HistType
      BY HistGrows
    <3>2. /\ [hist EXCEPT !.lost = @ \cup {r}] \in HistType
          /\ [hist EXCEPT !.gone = @ \cup {r}] \in HistType
      BY <1>3, <3>1
    <3> QED
      BY <1>3, <3>2 DEF cleanupWorkspace
  <2>2. tree' \subseteq Runs
    BY <1>3 DEF cleanupWorkspace, StoreTypes
  <2>3. \E k \in {0, 1, 2} : Faults(k)
    BY <1>3 DEF cleanupWorkspace
  <2> QED
    BY <2>1, <2>2, <2>3
<1>4. CASE ClaimRefused(p)
  <2>1. r \in Runs /\ (cleanupWorkspace(p, 0) \/ cleanupWorkspace(p, 1))
    BY <1>4 DEF ClaimRefused, At, Claiming
  <2>2. tree' \subseteq Runs /\ hist' \in HistType /\ \E k \in {0, 1, 2} : Faults(k)
    BY <1>3, <2>1
  <2>3. proc' \in [Procs -> ProcType]
    BY <1>4, Returns DEF ClaimRefused
  <2>4. HostTypes'
    BY <1>4, <2>2, HostChanges DEF ClaimRefused, host
  <2> QED
    BY <1>4, <2>2, <2>3, <2>4, Frames DEF ClaimRefused, claims, StoreTypes
<1>5. CASE ClaimProject(p)
  <2>1. r \in Runs
    BY <1>5 DEF ClaimProject, At, Claiming
  <2>2. proc' \in [Procs -> ProcType]
    BY <1>5, Returns DEF ClaimProject
  <2>3. runs' \in [Runs -> RowType]
    <3>1. PICK status \in Statuses : status = "active"
      BY DEF Statuses
    <3>2. SetStatus(r, "active") \in [Runs -> RowType]
      BY <2>1, <3>1, RowChanges
    <3> QED
      BY <1>5, <3>2 DEF ClaimProject, RunTypes
  <2>4. issue' \in [Issues -> IssueType]
    BY <1>5, <2>1, LabelChanges DEF ClaimProject
  <2> QED
    BY <1>5, <2>2, <2>3, <2>4, Frames DEF ClaimProject, claims, RunTypes
<1>6. CASE ClaimInterrupted(p)
  <2>1. r \in Runs
    BY <1>6 DEF ClaimInterrupted, At, Claiming
  <2>2. proc' \in [Procs -> ProcType]
    BY <1>6, Returns, Goes DEF ClaimInterrupted, Places
  <2>3. runs' \in [Runs -> RowType]
    <3>1. PICK status \in Statuses : status = "active"
      BY DEF Statuses
    <3>2. [runs EXCEPT ![r].pending = "active"] \in [Runs -> RowType]
      BY <2>1, <3>1, RowChanges
    <3> QED
      BY <1>6, <3>2 DEF ClaimInterrupted, RunTypes
  <2>4. issue' \in [Issues -> IssueType]
    <3>1. [issue EXCEPT ![of[r]].label = "running"] \in [Issues -> IssueType]
      BY <2>1, LabelChanges
    <3> QED
      BY <1>6, <3>1 DEF ClaimInterrupted, RunTypes
  <2>5. HostTypes'
    <3>1. UNCHANGED faults \/ \E k \in {0, 1, 2} : Faults(k)
      BY <1>6 DEF ClaimInterrupted, MayFail
    <3> QED
      BY <1>6, <3>1, HostChanges DEF ClaimInterrupted, host
  <2> QED
    BY <1>6, <2>2, <2>3, <2>4, <2>5, Frames DEF ClaimInterrupted, claims, RunTypes
<1>7. CASE FailClaimAbandon(p)
  <2>1. r \in Runs
    BY <1>7 DEF FailClaimAbandon, At, Claiming
  <2>2. proc' \in [Procs -> ProcType]
    BY <1>7, Goes DEF FailClaimAbandon, Places
  <2>3. runs' \in [Runs -> RowType]
    <3>1. PICK status \in Statuses : status = "none"
      BY DEF Statuses
    <3>2. [runs EXCEPT ![r].pending = "none"] \in [Runs -> RowType]
      BY <2>1, <3>1, RowChanges
    <3> QED
      BY <1>7, <3>2 DEF FailClaimAbandon, RunTypes
  <2>4. RunTypes'
    BY <1>7, <2>3 DEF FailClaimAbandon, RunTypes, claims
  <2> QED
    BY <1>7, <2>2, <2>4, Frames DEF FailClaimAbandon, claims
<1>8. CASE FailClaimRecord(p)
  <2>1. r \in Runs
    BY <1>8 DEF FailClaimRecord, At, Claiming
  <2>2. proc' \in [Procs -> ProcType]
    BY <1>8, Goes DEF FailClaimRecord, Places
  <2>3. runs' \in [Runs -> RowType]
    <3>1. PICK status \in Statuses : status = "failed"
      BY DEF Statuses, Terminal
    <3>2. SetStatus(r, "failed") \in [Runs -> RowType]
      BY <2>1, <3>1, RowChanges
    <3> QED
      BY <1>8, <3>2 DEF FailClaimRecord, RunTypes
  <2>4. issue' \in [Issues -> IssueType]
    <3>1. [issue EXCEPT ![of[r]].label = "failed"] \in [Issues -> IssueType]
      BY <2>1, LabelChanges DEF Terminal
    <3> QED
      BY <1>8, <3>1 DEF FailClaimRecord, RunTypes
  <2>5. HostTypes'
    <3>1. UNCHANGED faults \/ \E k \in {0, 1, 2} : Faults(k)
      BY <1>8 DEF FailClaimRecord, MayFail
    <3> QED
      BY <1>8, <3>1, HostChanges DEF FailClaimRecord, host
  <2>6. hist' \in HistType
    <3>1. [hist EXCEPT !.adrift = @ \cup {r}] \in HistType
      BY <2>1, HistGrows
    <3> QED
      BY <1>8, <3>1 DEF FailClaimRecord
  <2> QED
    BY <1>8, <2>2, <2>3, <2>4, <2>5, <2>6, Frames DEF FailClaimRecord, claims, RunTypes
<1>9. CASE FailClaimRemove(p)
  <2>1. r \in Runs /\ cleanupWorkspace(p, 0)
    BY <1>9 DEF FailClaimRemove, At, Claiming
  <2>2. tree' \subseteq Runs /\ hist' \in HistType /\ \E k \in {0, 1, 2} : Faults(k)
    BY <1>3, <2>1
  <2>3. proc' \in [Procs -> ProcType]
    BY <1>9, Returns DEF FailClaimRemove
  <2>4. HostTypes'
    BY <1>9, <2>2, HostChanges DEF FailClaimRemove, host
  <2> QED
    BY <1>9, <2>2, <2>3, <2>4, Frames DEF FailClaimRemove, claims, StoreTypes
<1> QED
  BY <1>1, <1>2, <1>4, <1>5, <1>6, <1>7, <1>8, <1>9 DEF Claim

\* The steps of factory stop, of a cleanup, and of a reset.
LEMMA StopTypes ==
  ASSUME Types, requestCoordinatorStop
  PROVE  Types'
<1> USE DEF Types
<1>1. "stop" \in Procs
  BY DEF requestCoordinatorStop, At
<1>2. KernelTypes'
  BY <1>1 DEF requestCoordinatorStop, KernelTypes
<1>3. proc' \in [Procs -> ProcType]
  <2>1. CASE path # 0 /\ LockIsFree(path)
    <3>1. PICK t : t = [Idle EXCEPT !.at = "stopped", !.fd = path]
      OBVIOUS
    <3>2. path \in 0..MaxInodes /\ 0 \in 0..MaxRuns /\ "stopped" \in Places
      BY BoundFacts DEF KernelTypes, Places
    <3>3. t \in ProcType
      BY <3>1, <3>2 DEF Idle, ProcType
    <3>4. proc' = [proc EXCEPT !["stop"] = t]
      BY <2>1, <3>1 DEF requestCoordinatorStop
    <3> QED
      BY <1>1, <3>3, <3>4
  <2>2. CASE ~(path # 0 /\ LockIsFree(path))
    BY <1>1, <2>2, Ends DEF requestCoordinatorStop
  <2> QED
    BY <2>1, <2>2
<1>4. HostTypes'
  <2>1. told' \subseteq Procs
    <3>1. path # 0 /\ owner[path] # Nobody => owner[path] \in Procs
      BY BoundFacts DEF KernelTypes
    <3> QED
      BY <3>1 DEF requestCoordinatorStop, HostTypes
  <2> QED
    BY <2>1, HostChanges DEF requestCoordinatorStop, host
<1> QED
  BY <1>2, <1>3, <1>4, Frames DEF requestCoordinatorStop, claims

LEMMA CleanupTypes ==
  ASSUME Types, "cleanup" \in Procs, Removing => proc["cleanup"].run \in Runs, Cleanup
  PROVE  Types'
<1> USE DEF Types
<1>1. CASE CleanupPlan
  <2>1. proc' \in [Procs -> ProcType]
    BY <1>1, Goes DEF CleanupPlan, Places
  <2>2. HostTypes'
    BY <1>1, HostChanges DEF CleanupPlan
  <2>3. plans' \in PlanType
    <3>1. {r \in Rows : cleanupTarget(r)} \subseteq Runs
      BY DEF Rows
    <3> QED
      BY <1>1, <3>1 DEF CleanupPlan, PlanType, StoreTypes
  <2> QED
    BY <1>1, <2>1, <2>2, <2>3, Frames DEF CleanupPlan, StoreTypes, claims, disk
<1>2. CASE BeginCleanup
  <2>1. PICK r \in plans.cleanup :
           IF r \in Rows /\ ~CleanupEligible(r)
           THEN proc' = [proc EXCEPT !["cleanup"] = Done] /\ UNCHANGED <<txn, plans>>
           ELSE /\ txn' = "cleanup" /\ plans' = [plans EXCEPT !.cleanup = @ \ {r}]
                /\ proc' = [proc EXCEPT !["cleanup"].at = "reserved", !["cleanup"].run = r]
    BY <1>2 DEF BeginCleanup
  <2>2. r \in 0..MaxRuns /\ "reserved" \in Places
    BY BoundFacts DEF StoreTypes, PlanType, Places
  <2>3. CASE r \in Rows /\ ~CleanupEligible(r)
    BY <1>2, <2>1, <2>3, Ends, Frames DEF BeginCleanup, claims, StoreTypes, disk
  <2>4. CASE ~(r \in Rows /\ ~CleanupEligible(r))
    <3>1. proc' \in [Procs -> ProcType]
      BY <2>1, <2>2, <2>4 DEF ProcType
    <3>2. plans' \in PlanType
      BY <2>1, <2>4 DEF StoreTypes, PlanType
    <3> QED
      BY <1>2, <2>1, <2>4, <3>1, <3>2, Frames DEF BeginCleanup, claims, StoreTypes, disk
  <2> QED
    BY <2>3, <2>4
<1>3. CASE CleanupWorkers
  BY <1>3, Goes, Frames DEF CleanupWorkers, Places, StoreTypes, claims
<1>4. CASE CleanupTree
  BY <1>4, Goes, Frames DEF CleanupTree, Places, StoreTypes, claims
<1>5. CASE CleanupCommit
  <2>1. proc' \in [Procs -> ProcType]
    BY <1>5, Goes, Ends DEF CleanupCommit, Places
  <2>2. proc["cleanup"].run \in Runs
    BY <1>5 DEF CleanupCommit, Removing
  <2>3. runs' \in [Runs -> RowType]
    <3>1. NoRow \in RowType
      BY DEF NoRow, RowType, Statuses
    <3> QED
      BY <1>5, <2>2, <3>1 DEF CleanupCommit, Delete, RunTypes
  <2> QED
    BY <1>5, <2>1, <2>3, Frames DEF CleanupCommit, StoreTypes, claims, disk, RunTypes
<1>6. CASE CleanupRollback
  <2>1. proc["cleanup"].run \in Runs
    BY <1>6 DEF CleanupRollback, Removing
  <2>2. hist' \in HistType
    <3>1. [hist EXCEPT !.gone = @ \cup {proc["cleanup"].run}] \in HistType
      BY <2>1, HistGrows
    <3> QED
      BY <1>6, <3>1 DEF CleanupRollback
  <2>3. HostTypes'
    BY <1>6, HostChanges DEF CleanupRollback, host
  <2> QED
    BY <1>6, <2>2, <2>3, Ends, Frames DEF CleanupRollback, StoreTypes, claims, disk
<1>7. CASE CleanupIdle
  BY <1>7, Ends, Frames DEF CleanupIdle, claims
<1> QED
  BY <1>1, <1>2, <1>3, <1>4, <1>5, <1>6, <1>7 DEF Cleanup

LEMMA ResetTypes ==
  ASSUME Types, "reset" \in Procs, \A p \in Procs : proc[p].at \in Claiming => proc[p].run \in Runs,
         Reset
  PROVE  Types'
<1> USE DEF Types
<1>1. CASE ResetPlan
  <2>1. proc' \in [Procs -> ProcType]
    <3>1. PICK t : t = IF coordinatorLockHeld \/ Blocked THEN Done ELSE [Idle EXCEPT !.at = "planned"]
      OBVIOUS
    <3>2. 0 \in 0..MaxRuns /\ 0 \in 0..MaxInodes /\ "planned" \in Places /\ "gone" \in Places
      BY BoundFacts DEF Places
    <3>3. t \in ProcType
      BY <3>1, <3>2 DEF Done, Idle, ProcType
    <3> QED
      BY <1>1, <3>1, <3>3 DEF ResetPlan
  <2>2. HostTypes'
    BY <1>1, HostChanges DEF ResetPlan, host
  <2> QED
    BY <1>1, <2>1, <2>2, Frames DEF ResetPlan, claims
<1>2. CASE applyResetLifecycleTransition
  <2>1. PICK r \in Runs : Outcome(r) # "unchanged" /\ Transition(r, Outcome(r))
    BY <1>2 DEF applyResetLifecycleTransition, Current, Rows
  <2>2. Outcome(r) \in Statuses \ {"none"}
    BY <2>1 DEF Outcome, Statuses, Terminal
  <2>3. RunTypes'
    BY <1>2, <2>1, <2>2, TransitionTypes DEF applyResetLifecycleTransition, claims
  <2>4. HostTypes'
    BY <1>2, <2>1, HostChanges DEF applyResetLifecycleTransition, Transition, host
  <2> QED
    BY <1>2, <2>3, <2>4, Frames DEF applyResetLifecycleTransition, claims
<1>3. CASE ResetApplied
  <2>1. proc' \in [Procs -> ProcType]
    BY <1>3, Goes DEF ResetApplied, Places
  <2>2. InClaim \subseteq Runs
    BY DEF InClaim
  <2>3. hist' \in HistType
    <3>1. [hist EXCEPT !.late = @ \cup InClaim] \in HistType
      BY <2>2, HistGrows
    <3> QED
      BY <1>3, <3>1 DEF ResetApplied
  <2> QED
    BY <1>3, <2>1, <2>3, Frames DEF ResetApplied, claims
<1>4. CASE ResetReplan
  <2>1. proc' \in [Procs -> ProcType]
    BY <1>4, Goes DEF ResetReplan, Places
  <2>2. plans' \in PlanType
    BY <1>4 DEF ResetReplan, PlanType, StoreTypes, Rows
  <2> QED
    BY <1>4, <2>1, <2>2, Frames DEF ResetReplan, claims, StoreTypes, disk
<1>5. ASSUME NEW S \in SUBSET Runs, NEW done \in Places, NEW T, Attempt(S, done, T)
      PROVE  /\ proc' \in [Procs -> ProcType] /\ T \subseteq Runs
             /\ UNCHANGED faults \/ Faults(1)
  <2>1. proc' \in [Procs -> ProcType]
    BY <1>5 DEF Attempt, ProcType
  <2>2. T \subseteq Runs
    BY <1>5 DEF Attempt
  <2> QED
    BY <1>5, <2>1, <2>2 DEF Attempt
<1>6. CASE ResetWorkers
  <2>1. "trees" \in Places /\ box \in SUBSET Runs
    BY DEF Places, StoreTypes
  <2>2. /\ proc' \in [Procs -> ProcType] /\ box' \subseteq Runs
        /\ UNCHANGED faults \/ Faults(1)
    BY <1>5, <1>6, <2>1 DEF ResetWorkers
  <2>3. HostTypes'
    BY <1>6, <2>2, HostChanges DEF ResetWorkers, host
  <2> QED
    BY <1>6, <2>2, <2>3, Frames DEF ResetWorkers, claims, StoreTypes
<1>7. CASE ResetTrees
  <2>1. "dropping" \in Places /\ tree \in SUBSET Runs
    BY DEF Places, StoreTypes
  <2>2. /\ proc' \in [Procs -> ProcType] /\ tree' \subseteq Runs
        /\ UNCHANGED faults \/ Faults(1)
    BY <1>5, <1>7, <2>1 DEF ResetTrees
  <2>3. HostTypes'
    BY <1>7, <2>2, HostChanges DEF ResetTrees, host
  <2>4. hist' \in HistType
    <3>1. plans.reset \ tree' \subseteq Runs
      BY DEF StoreTypes, PlanType
    <3>2. PICK R \in SUBSET Runs : R = plans.reset \ tree'
      BY <3>1
    <3> QED
      BY <1>7, <3>2, HistGrows DEF ResetTrees
  <2> QED
    BY <1>7, <2>2, <2>3, <2>4, Frames DEF ResetTrees, claims, StoreTypes
<1>8. CASE ResetStore
  <2>1. proc' \in [Procs -> ProcType]
    BY <1>8, Goes DEF ResetStore, Places
  <2>2. HostTypes'
    <3>1. /\ UNCHANGED stored \/ stored' \in BOOLEAN
          /\ UNCHANGED beat \/ beat' = [pid |-> Nobody, live |-> FALSE]
          /\ UNCHANGED <<config, told, bounds>>
      BY <1>8 DEF ResetStore
    <3> QED
      BY <3>1, HostChanges DEF bounds
  <2>3. runs' \in [Runs -> RowType]
    <3>1. NoRow \in RowType
      BY DEF NoRow, RowType, Statuses
    <3> QED
      BY <1>8, <3>1 DEF ResetStore, RunTypes
  <2>4. cut' \subseteq Procs /\ txn' \in Procs \cup {Nobody}
    BY <1>8 DEF ResetStore, StoreTypes
  <2> QED
    BY <1>8, <2>1, <2>2, <2>3, <2>4, Frames DEF ResetStore, StoreTypes, RunTypes, disk
<1>9. CASE ResetUnlink
  <2>1. proc' \in [Procs -> ProcType]
    BY <1>9, Goes DEF ResetUnlink, Places
  <2>2. KernelTypes'
    BY <1>9, BoundFacts DEF ResetUnlink, KernelTypes
  <2>3. hist' \in HistType
    <3>1. PICK b \in BOOLEAN :
             b = (hist.orphan \/ \E p \in Procs \ {"reset"} : proc[p].fd = path /\ path # 0)
      BY DEF HistType
    <3> QED
      BY <1>9, <3>1, HistGrows DEF ResetUnlink
  <2> QED
    BY <1>9, <2>1, <2>2, <2>3, Frames DEF ResetUnlink, claims
<1>10. CASE ResetConfig
  <2>1. HostTypes'
    BY <1>10, HostChanges DEF ResetConfig, bounds
  <2> QED
    BY <1>10, <2>1, Goes, Frames DEF ResetConfig, Places, claims
<1>11. CASE ResetStopped
  <2>1. proc' \in [Procs -> ProcType]
    BY <1>11, Goes DEF ResetStopped, Places
  <2>2. HostTypes'
    BY <1>11, HostChanges DEF ResetStopped, host
  <2> QED
    BY <1>11, <2>1, <2>2, Frames DEF ResetStopped, claims
<1> QED
  BY <1>1, <1>2, <1>3, <1>4, <1>6, <1>7, <1>8, <1>9, <1>10, <1>11 DEF Reset

\* Crashes, time, and people.
LEMMA CrashTypes ==
  ASSUME Types, NEW p \in Procs, Crash(p),
         \A q \in Procs : proc[q].at \in Claiming => proc[q].run \in Runs,
         Removing => proc["cleanup"].run \in Runs
  PROVE  Types'
<1> USE DEF Types
<1>1. KernelTypes'
  BY DEF Crash, Unlocked, KernelTypes
<1>2. HostTypes'
  BY HostChanges DEF Crash, host
<1>3. hist' \in HistType
  <2>1. PICK S, L, G :
           /\ S = hist.silent \cup ({p} \cap Starters)
           /\ L = IF proc[p].at = "claiming" THEN hist.lost \cup {proc[p].run} ELSE hist.lost
           /\ G = IF p = "cleanup" /\ proc[p].at = "deleting"
                  THEN hist.gone \cup {proc[p].run} ELSE hist.gone
    OBVIOUS
  <2>2. S \in SUBSET Starters /\ L \in SUBSET Runs /\ G \in SUBSET Runs
    BY <2>1 DEF HistType, Claiming, Removing, At
  <2>3. hist' = [hist EXCEPT !.silent = S, !.lost = L, !.gone = G]
    BY <2>1 DEF Crash
  <2> QED
    BY <2>2, <2>3 DEF HistType
<1>4. txn' \in Procs \cup {Nobody}
  BY DEF Crash, StoreTypes
<1> QED
  BY <1>1, <1>2, <1>3, <1>4, Ends, Frames DEF Crash, StoreTypes, claims, disk

LEMMA WorldTypes ==
  ASSUME Types, Expire \/ (\E r \in Runs : Age(r)) \/ (\E i \in Issues : Human(i))
  PROVE  Types'
<1> USE DEF Types
<1>2. CASE Expire
  <2>1. beat' \in BeatType
    BY <1>2 DEF Expire, BeatType, HostTypes
  <2>2. faults' \in Nat
    BY <1>2, BoundFacts DEF Expire, Faults, HostTypes
  <2>3. HostTypes'
    BY <1>2, <2>1, <2>2 DEF Expire, HostTypes, host
  <2> QED
    BY <1>2, <2>3, Frames DEF Expire, claims
<1>3. CASE \E r \in Runs : Age(r)
  <2>1. runs' \in [Runs -> RowType]
    <3>1. PICK r \in Runs : runs' = [runs EXCEPT ![r].old = TRUE]
      BY <1>3 DEF Age
    <3>2. PICK status \in Statuses : status = "none"
      BY DEF Statuses
    <3> QED
      BY <3>1, <3>2, RowChanges
  <2> QED
    BY <1>3, <2>1, Frames DEF Age, claims, RunTypes
<1>4. CASE \E i \in Issues : Human(i)
  <2>1. issue' \in [Issues -> IssueType]
    BY <1>4 DEF Human, RunTypes, IssueType
  <2>2. HostTypes'
    BY <1>4, HostChanges DEF Human, host
  <2> QED
    BY <1>4, <2>1, <2>2, Frames DEF Human, claims, RunTypes
<1> QED
  BY <1>2, <1>3, <1>4

-----------------------------------------------------------------------------
(* The lock, its file, and the heartbeat *)

LEMMA PlacesAre ==
  ASSUME NEW p \in Procs
  PROVE  /\ p \in Starters \cup {"issue", "stop", "cleanup", "reset"}
         /\ p \in Starters => p \notin {"issue", "stop", "cleanup", "reset"}
         /\ p \in Starters => PlacesOf(p) = {"idle", "gone", "diagnosed", "opened",
              "locked", "owner", "started", "polling", "stopping", "stopped"} \cup Claiming
         /\ p = "issue" => PlacesOf(p) = {"idle", "gone"} \cup Claiming
         /\ p = "stop" => PlacesOf(p) = {"idle", "gone", "stopped"}
         /\ p = "cleanup" => PlacesOf(p) = {"idle", "gone", "listed", "reserved",
                                            "workers", "deleting"}
         /\ p = "reset" => PlacesOf(p) = {"idle", "gone", "planned", "opened", "locked",
              "owner", "applied", "workers", "trees", "dropping", "unlinking", "unlinked",
              "stopped"}
BY ProcFacts DEF Commands, PlacesOf

\* A step of p that neither takes nor drops the lock.
Quietly(p) ==
  /\ \A q \in Procs : q # p => proc'[q] = proc[q]
  /\ proc'[p].fd = proc[p].fd
  /\ proc[p].at # "gone" /\ proc'[p].at \in PlacesOf(p)
  /\ Holds(p)' => Holds(p)
  /\ proc'[p].at \in {"opened", "locked"} => proc[p].at \in {"opened", "locked"}
  /\ Unlinker(p) => Unlinker(p)'
  /\ p \in Starters /\ Beats(p) => Beats(p)' \/ p \in hist'.silent
  /\ proc'[p].at \in Claiming \cup {"reserved", "workers", "deleting"} =>
       proc'[p].run \in Runs \/ p = "reset"
KeepsLock == /\ UNCHANGED <<path, flock>> /\ hist'.orphan = hist.orphan
             /\ hist.silent \subseteq hist'.silent

LEMMA QuietlyKeeps ==
  ASSUME LockInv, Types', NEW p \in Procs, Quietly(p), KeepsLock,
         UNCHANGED beat \/ ~beat'.live
           \/ (beat'.pid = p /\ p \in Starters /\ Beats(p)')
  PROVE  LockInv'
<1> USE DEF LockInv, Quietly, KeepsLock
<1>1. InPlace'
  BY DEF InPlace
<1>2. LockHeld'
  BY DEF LockHeld, Holds
<1>3. OneFile'
  BY DEF OneFile, Unlinker
<1>4. BeatHeld'
  <2> SUFFICES ASSUME beat'.live
               PROVE  \E q \in Starters : q = beat'.pid /\ (q \in hist'.silent \/ Beats(q)')
    BY DEF BeatHeld
  <2>1. CASE beat'.pid = p /\ p \in Starters /\ Beats(p)'
    BY <2>1
  <2>2. CASE UNCHANGED beat
    <3>1. PICK q \in Starters : q = beat.pid /\ (q \in hist.silent \/ Beats(q))
      BY <2>2 DEF BeatHeld
    <3>2. q \in hist'.silent \/ Beats(q)'
      <4>1. CASE q = p
        BY <3>1, <4>1
      <4>2. CASE q # p
        <5>1. proc'[q] = proc[q]
          BY <3>1, <4>2 DEF Procs
        <5> QED
          BY <3>1, <5>1 DEF Beats
      <4> QED
        BY <4>1, <4>2
    <3> QED
      BY <2>2, <3>1, <3>2
  <2> QED
    BY <2>1, <2>2
<1>5. Assigned'
  <2>1. \A q \in Procs : proc'[q].at \in Claiming => proc'[q].run \in Runs
    BY PlacesAre DEF Assigned, InPlace, Claiming
  <2>2. Removing' => proc'["cleanup"].run \in Runs
    BY DEF Assigned, Removing, At
  <2> QED
    BY <2>1, <2>2 DEF Assigned
<1> QED
  BY <1>1, <1>2, <1>3, <1>4, <1>5

\* A process ends, and with it what it holds of the lock.
LEMMA EndsKeeps ==
  ASSUME LockInv, Types', NEW p \in Procs, proc' = [proc EXCEPT ![p] = Done],
         UNCHANGED path, flock' = flock \/ flock' = Unlocked(p),
         hist'.orphan = hist.orphan, hist.silent \subseteq hist'.silent,
         UNCHANGED beat \/ ~beat'.live,
         p \in Starters /\ Beats(p) => p \in hist'.silent
  PROVE  LockInv'
<1> USE DEF LockInv
<1>0. /\ proc'[p] = Done /\ proc'[p].at = "gone" /\ proc'[p].fd = 0
      /\ \A q \in Procs : q # p => proc'[q] = proc[q]
  BY Ends DEF Types
<1>1. InPlace'
  BY <1>0, PlacesAre DEF InPlace
<1>2. LockHeld'
  BY <1>0 DEF LockHeld, Holds, Unlocked, Types, KernelTypes
<1>3. OneFile'
  BY <1>0 DEF OneFile, Unlinker
<1>4. BeatHeld'
  BY <1>0 DEF BeatHeld, Beats, Claiming
<1>5. Assigned'
  BY <1>0 DEF Assigned, Removing, At, Claiming
<1> QED
  BY <1>1, <1>2, <1>3, <1>4, <1>5

\* A step that moves no process.
LEMMA StaysKeeps ==
  ASSUME LockInv, Types', UNCHANGED proc, KeepsLock,
         UNCHANGED beat \/ ~beat'.live \/ (\E q \in Starters : q = beat'.pid /\ Beats(q))
  PROVE  LockInv'
BY DEF LockInv, KeepsLock, InPlace, LockHeld, Holds, OneFile, Unlinker, BeatHeld, Beats,
   Assigned, Removing, At

LEMMA LockStarts == Init => LockInv
<1> SUFFICES ASSUME Init PROVE LockInv
  OBVIOUS
<1>1. \A p \in Procs : proc[p] = Idle
  BY DEF Init
<1>2. InPlace
  BY <1>1, PlacesAre DEF InPlace, Idle
<1> QED
  BY <1>1, <1>2, TypesStart DEF Init, LockInv, LockHeld, Holds, OneFile, BeatHeld, Assigned,
     Removing, At, Idle, Claiming

LEMMA TypesKept ==
  ASSUME LockInv, Next
  PROVE  Types'
<1> USE DEF LockInv
<1>0. /\ \A p \in Procs : proc[p].at \in Claiming => proc[p].run \in Runs
      /\ Removing => proc["cleanup"].run \in Runs
  BY DEF Assigned
<1>1. ASSUME NEW p \in Procs, OpenLock(p) \/ TryLock(p) \/ RecordOwner(p) \/ Release(p)
      PROVE  Types'
  BY <1>1, LockTypes
<1>2. ASSUME NEW p \in Procs, Claim(p) PROVE Types'
  BY <1>0, <1>2, ClaimTypes
<1>3. ASSUME NEW p \in Procs, Crash(p) PROVE Types'
  BY <1>0, <1>3, CrashTypes
<1>4. ASSUME NEW p \in Starters, Start(p) PROVE Types'
  BY <1>4, StartTypes
<1>5. CASE requestCoordinatorStop
  BY <1>5, StopTypes
<1>6. CASE Cleanup
  <2>1. "cleanup" \in Procs
    BY <1>6 DEF Cleanup, CleanupPlan, BeginCleanup, CleanupWorkers, CleanupTree,
       CleanupCommit, CleanupRollback, CleanupIdle, At
  <2> QED
    BY <1>0, <1>6, <2>1, CleanupTypes
<1>7. CASE Reset
  <2>1. "reset" \in Procs
    BY <1>7 DEF Reset, ResetPlan, applyResetLifecycleTransition, ResetApplied, ResetReplan,
       ResetWorkers, ResetTrees, ResetStore, ResetUnlink, ResetConfig, ResetStopped, At
  <2> QED
    BY <1>0, <1>7, <2>1, ResetTypes
<1>8. CASE Expire \/ (\E r \in Runs : Age(r)) \/ (\E i \in Issues : Human(i))
  BY <1>8, WorldTypes
<1> QED
  BY <1>1, <1>2, <1>3, <1>4, <1>5, <1>6, <1>7, <1>8 DEF Next

\* The lock under every step.
LEMMA LockSteps ==
  ASSUME LockInv, Types', NEW p \in Procs,
         OpenLock(p) \/ TryLock(p) \/ RecordOwner(p) \/ Release(p)
  PROVE  LockInv'
<1> USE DEF LockInv
<1>0. /\ proc \in [Procs -> ProcType] /\ path \in 0..MaxInodes
      /\ flock \in [Inodes -> Procs \cup {Nobody}]
  BY DEF Types, KernelTypes
<1>1. CASE OpenLock(p)
  <2>1. PICK n \in 1..MaxInodes :
           /\ proc' = [proc EXCEPT ![p] = [proc[p] EXCEPT !.at = "opened", !.fd = n]]
           /\ path' = n
    <3>1. CASE path # 0
      <4>1. path \in 1..MaxInodes
        BY <1>0, <3>1, BoundFacts
      <4>2. /\ proc' = [proc EXCEPT ![p] = [proc[p] EXCEPT !.at = "opened", !.fd = path]]
            /\ path' = path
        BY <1>0, <1>1, <3>1 DEF OpenLock, ProcType
      <4> QED
        BY <4>1, <4>2
    <3>2. CASE path = 0
      <4>1. made + 1 \in 1..MaxInodes
        BY <1>1, <3>2, BoundFacts DEF OpenLock, Types, KernelTypes
      <4> QED
        BY <1>0, <1>1, <3>2, <4>1 DEF OpenLock, ProcType
    <3> QED
      BY <3>1, <3>2
  <2>2. /\ proc'[p].at = "opened" /\ proc'[p].fd = n
        /\ \A q \in Procs : q # p => proc'[q] = proc[q]
    BY <1>0, <2>1 DEF ProcType
  <2>3. /\ proc[p].at \in {"diagnosed", "planned"} /\ p \in Starters \cup {"reset"}
        /\ UNCHANGED <<flock, beat, hist>> /\ (path # 0 => path' = path)
    BY <1>1, PlacesAre DEF OpenLock, At, InPlace, Claiming
  <2>4. InPlace'
    BY <2>2, <2>3, PlacesAre DEF InPlace
  <2>5. LockHeld'
    BY <2>2, <2>3, BoundFacts DEF LockHeld, Holds
  <2>6. OneFile'
    <3>1. ASSUME ~hist.orphan, NEW q \in Procs, proc'[q].fd # 0, ~Unlinker(q)'
          PROVE  proc'[q].fd = path'
      BY <2>1, <2>2, <2>3, <3>1 DEF OneFile, Unlinker
    <3> QED
      BY <2>2, <2>3, <3>1 DEF OneFile
  <2>7. BeatHeld'
    BY <2>2, <2>3 DEF BeatHeld, Beats, Procs, Claiming
  <2>8. Assigned'
    BY <2>2, <2>3 DEF Assigned, Removing, At, Claiming
  <2> QED
    BY <2>4, <2>5, <2>6, <2>7, <2>8
<1>2. CASE TryLock(p)
  <2>1. /\ proc[p].at = "opened" /\ proc[p].fd \in Inodes /\ p \in Starters \cup {"reset"}
        /\ UNCHANGED <<path, beat, hist>>
    BY <1>2, PlacesAre DEF TryLock, At, LockHeld, InPlace, Claiming
  <2>2. CASE LockIsFree(proc[p].fd)
    <3>1. flock' = [flock EXCEPT ![proc[p].fd] = p] /\ Goto(p, "locked")
      BY <1>2, <2>2 DEF TryLock
    <3>2. /\ proc'[p].at = "locked" /\ proc'[p].fd = proc[p].fd
          /\ \A q \in Procs : q # p => proc'[q] = proc[q]
      BY <1>0, <3>1, Goes DEF Places
    <3>3. InPlace'
      BY <2>1, <3>2, PlacesAre DEF InPlace
    <3>4. LockHeld'
      BY <1>0, <2>1, <2>2, <3>1, <3>2, ProcFacts DEF LockHeld, Holds, LockIsFree
    <3>5. OneFile'
      BY <2>1, <3>2 DEF OneFile, Unlinker
    <3>6. BeatHeld'
      BY <2>1, <3>2 DEF BeatHeld, Beats, Procs, Claiming
    <3>7. Assigned'
      BY <2>1, <3>2 DEF Assigned, Removing, At, Claiming
    <3> QED
      BY <3>3, <3>4, <3>5, <3>6, <3>7
  <2>3. CASE ~LockIsFree(proc[p].fd)
    <3>1. ~Beats(p)
      BY <2>1 DEF Beats, Claiming
    <3>2. proc' = [proc EXCEPT ![p] = Done] /\ UNCHANGED flock
      BY <1>2, <2>3 DEF TryLock
    <3> QED
      BY <2>1, <3>1, <3>2, EndsKeeps
  <2> QED
    BY <2>2, <2>3
<1>3. CASE RecordOwner(p)
  <2>1. Quietly(p)
    BY <1>0, <1>3, Goes, PlacesAre DEF RecordOwner, At, Quietly, Holds, Unlinker, Beats, Claiming,
       Places, InPlace
  <2>2. KeepsLock /\ UNCHANGED beat
    BY <1>3 DEF RecordOwner, KeepsLock
  <2> QED
    BY <2>1, <2>2, QuietlyKeeps
<1>4. CASE Release(p)
  <2>1. ~Beats(p)
    BY <1>4 DEF Release, At, Beats, Claiming
  <2> QED
    BY <1>4, <2>1, EndsKeeps DEF Release, release
<1> QED
  BY <1>1, <1>2, <1>3, <1>4

LEMMA LockStart ==
  ASSUME LockInv, Types', NEW p \in Starters, Start(p)
  PROVE  LockInv'
<1> USE DEF LockInv
<1>0. /\ proc \in [Procs -> ProcType] /\ p \in Procs /\ hist \in HistType
      /\ proc[p].at \in PlacesOf(p)
  BY DEF Types, Procs, InPlace
<1>1. ASSUME NEW where \in {"diagnosed", "started", "polling", "stopping", "stopped"}, Goto(p, where),
             \/ where = "diagnosed" /\ proc[p].at = "idle"
             \/ where = "started" /\ proc[p].at = "owner"
             \/ where \in {"polling", "stopping"} /\ proc[p].at \in {"started", "polling"}
             \/ where = "stopped" /\ proc[p].at = "stopping"
                  /\ (~beat'.live \/ p \in hist'.silent),
             KeepsLock, UNCHANGED beat \/ (beat'.pid = p /\ where = "started") \/ ~beat'.live
      PROVE  LockInv'
  <2>1. where \in Places
    BY DEF Places
  <2>2. /\ proc'[p].at = where /\ proc'[p].fd = proc[p].fd
        /\ \A q \in Procs : q # p => proc'[q] = proc[q]
    BY <1>0, <1>1, <2>1, Goes
  <2>3. CASE ~(where = "stopped" /\ ~beat'.live)
    <3>1. Quietly(p)
      BY <1>0, <1>1, <2>2, <2>3, PlacesAre DEF Quietly, Holds, Unlinker, Beats, Claiming
    <3>2. UNCHANGED beat \/ ~beat'.live \/ (beat'.pid = p /\ p \in Starters /\ Beats(p)')
      BY <1>1, <2>2 DEF Beats
    <3> QED
      BY <1>0, <1>1, <3>1, <3>2, QuietlyKeeps
  <2>4. CASE where = "stopped" /\ ~beat'.live
    <3>1. InPlace'
      BY <1>0, <2>2, <2>4, PlacesAre DEF InPlace
    <3>2. LockHeld'
      BY <1>0, <1>1, <2>2, <2>4, PlacesAre DEF LockHeld, Holds, KeepsLock
    <3>3. OneFile'
      BY <1>0, <1>1, <2>2, <2>4, PlacesAre DEF OneFile, Unlinker, KeepsLock
    <3>4. BeatHeld'
      BY <2>4 DEF BeatHeld
    <3>5. Assigned'
      BY <1>0, <2>2, <2>4, PlacesAre DEF Assigned, Removing, At, Claiming
    <3> QED
      BY <3>1, <3>2, <3>3, <3>4, <3>5
  <2> QED
    BY <2>3, <2>4
<1>2. CASE startupDiagnosis(p)
  BY <1>1, <1>2 DEF startupDiagnosis, At, kernel, KeepsLock
<1>3. CASE startSupervisorHeartbeat(p)
  BY <1>1, <1>3 DEF startSupervisorHeartbeat, SaveSupervisorHeartbeat, At, kernel, KeepsLock
<1>4. CASE Renew(p)
  <2>1. Beats(p)
    BY <1>4, <1>0, PlacesAre DEF Renew, Running, Beats, Claiming
  <2>2. beat'.pid = p /\ UNCHANGED proc /\ KeepsLock
    BY <1>4 DEF Renew, SaveSupervisorHeartbeat, KeepsLock, kernel
  <2> QED
    BY <2>1, <2>2, StaysKeeps
<1>5. CASE reconcileRegisteredRun(p)
  BY <1>1, <1>5 DEF reconcileRegisteredRun, At, kernel, KeepsLock
<1>6. CASE EndLoop(p)
  BY <1>1, <1>6 DEF EndLoop, At, kernel, KeepsLock
<1>7. CASE StopHeartbeat(p)
  <2>1. KeepsLock
    BY <1>0, <1>7 DEF StopHeartbeat, KeepsLock, kernel, HistType
  <2>2. ~beat'.live \/ (UNCHANGED beat /\ p \in hist'.silent)
    BY <1>0, <1>7 DEF StopHeartbeat, SaveSupervisorHeartbeat, HistType
  <2> QED
    BY <1>1, <1>7, <2>1, <2>2 DEF StopHeartbeat, At
<1>8. CASE drainPendingEffect(p) \/ observeLifecycle(p) \/ driveRun(p) \/ Retry(p)
  <2>1. UNCHANGED proc /\ UNCHANGED beat /\ KeepsLock
    BY <1>8 DEF drainPendingEffect, observeLifecycle, driveRun, Retry, kernel, KeepsLock
  <2> QED
    BY <2>1, StaysKeeps
<1> QED
  BY <1>2, <1>3, <1>4, <1>5, <1>6, <1>7, <1>8 DEF Start

LEMMA LockClaim ==
  ASSUME LockInv, Types', NEW p \in Procs, Claim(p)
  PROVE  LockInv'
<1> USE DEF LockInv
<1>0. /\ proc \in [Procs -> ProcType] /\ hist \in HistType
      /\ proc[p].at \in PlacesOf(p) /\ (proc[p].at \in Claiming => proc[p].run \in Runs)
  BY DEF Types, InPlace, Assigned
<1>a. proc[p].at \in Claiming => p \in Starters \cup {"issue"} /\ (p \in Starters => Beats(p))
  BY <1>0, PlacesAre DEF Claiming, Beats
\* The claim goes on.
<1>1. ASSUME NEW where \in Claiming, Goto(p, where), proc[p].at \in Claiming,
             KeepsLock, UNCHANGED beat
      PROVE  LockInv'
  <2>1. where \in Places
    BY PlaceFacts
  <2>2. Quietly(p)
    BY <1>0, <1>1, <1>a, <2>1, Goes, PlacesAre DEF Quietly, Holds, Unlinker, Beats, Claiming
  <2> QED
    BY <1>1, <2>2, QuietlyKeeps
\* It returns.
<1>2. ASSUME Return(p) \/ ReturnError(p), proc[p].at \in Claiming, KeepsLock, UNCHANGED beat
      PROVE  LockInv'
  <2>1. CASE p \in Starters
    <3>1. Quietly(p)
      BY <1>0, <1>2, <2>1, Returns, PlacesAre DEF Quietly, Holds, Unlinker, Beats, Claiming
    <3> QED
      BY <1>2, <3>1, QuietlyKeeps
  <2>2. CASE p \notin Starters
    <3>1. proc' = [proc EXCEPT ![p] = Done]
      BY <1>2, <2>2 DEF Return, ReturnError
    <3> QED
      BY <1>2, <2>2, <3>1, EndsKeeps DEF KeepsLock
  <2> QED
    BY <2>1, <2>2
<1>3. CASE ClaimBegin(p)
  <2>1. PICK n \in Runs :
           /\ proc' = [proc EXCEPT ![p] = [proc[p] EXCEPT !.at = "claiming", !.run = n]]
           /\ hist' = IF Resetting THEN [hist EXCEPT !.late = @ \cup {n}] ELSE hist
    BY <1>0, <1>3 DEF ClaimBegin, Unclaimed, ProcType
  <2>2. /\ proc'[p].at = "claiming" /\ proc'[p].fd = proc[p].fd /\ proc'[p].run = n
        /\ \A q \in Procs : q # p => proc'[q] = proc[q]
    BY <1>0, <2>1 DEF ProcType
  <2>3. \/ p \in Starters /\ proc[p].at = "polling"
        \/ p = "issue" /\ proc[p].at = "idle"
    BY <1>3 DEF ClaimBegin, At
  <2>4. Quietly(p)
    BY <1>0, <2>2, <2>3, PlacesAre DEF Quietly, Holds, Unlinker, Beats, Claiming
  <2>5. KeepsLock
    BY <1>0, <1>3, <2>1 DEF ClaimBegin, KeepsLock, kernel, HistType
  <2> QED
    BY <1>3, <2>4, <2>5, QuietlyKeeps DEF ClaimBegin
<1>4. CASE ClaimSave(p)
  BY <1>1, <1>4 DEF ClaimSave, At, Claiming, KeepsLock, kernel
<1>5. ASSUME cleanupWorkspace(p, 0) \/ cleanupWorkspace(p, 1)
      PROVE  hist'.orphan = hist.orphan /\ hist.silent \subseteq hist'.silent
  BY <1>0, <1>5 DEF cleanupWorkspace, HistType
<1>6. CASE ClaimRefused(p)
  <2>1. proc[p].at \in Claiming /\ ReturnError(p) /\ UNCHANGED beat /\ KeepsLock
    BY <1>5, <1>6 DEF ClaimRefused, At, Claiming, KeepsLock, kernel
  <2> QED
    BY <1>2, <2>1
<1>7. CASE ClaimProject(p)
  <2>1. proc[p].at \in Claiming /\ Return(p) /\ UNCHANGED beat /\ KeepsLock
    BY <1>7 DEF ClaimProject, At, Claiming, KeepsLock, kernel
  <2> QED
    BY <1>2, <2>1
<1>8. CASE ClaimInterrupted(p)
  <2>1. proc[p].at \in Claiming /\ UNCHANGED beat /\ KeepsLock /\ "failing" \in Claiming
    BY <1>8 DEF ClaimInterrupted, At, Claiming, KeepsLock, kernel
  <2>2. Goto(p, "failing") \/ Return(p)
    BY <1>8 DEF ClaimInterrupted
  <2> QED
    BY <1>1, <1>2, <2>1, <2>2
<1>9. CASE FailClaimAbandon(p)
  BY <1>1, <1>9 DEF FailClaimAbandon, At, Claiming, KeepsLock, kernel
<1>10. CASE FailClaimRecord(p)
  <2>1. /\ proc[p].at \in Claiming /\ Goto(p, "removing") /\ "removing" \in Claiming
        /\ UNCHANGED beat
    BY <1>10 DEF FailClaimRecord, At, Claiming
  <2>2. KeepsLock
    BY <1>0, <1>10 DEF FailClaimRecord, KeepsLock, kernel, HistType
  <2> QED
    BY <1>1, <2>1, <2>2
<1>11. CASE FailClaimRemove(p)
  <2>1. proc[p].at \in Claiming /\ ReturnError(p) /\ UNCHANGED beat /\ KeepsLock
    BY <1>5, <1>11 DEF FailClaimRemove, At, Claiming, KeepsLock, kernel
  <2> QED
    BY <1>2, <2>1
<1> QED
  BY <1>3, <1>4, <1>6, <1>7, <1>8, <1>9, <1>10, <1>11 DEF Claim

LEMMA LockStop ==
  ASSUME LockInv, Types', requestCoordinatorStop
  PROVE  LockInv'
<1> USE DEF LockInv
<1>0. /\ proc \in [Procs -> ProcType] /\ "stop" \in Procs /\ path \in 0..MaxInodes
      /\ flock \in [Inodes -> Procs \cup {Nobody}] /\ proc["stop"].at = "idle"
      /\ "stop" \notin Starters
  BY ProcFacts DEF Types, KernelTypes, requestCoordinatorStop, At, Commands
<1>1. CASE path # 0 /\ LockIsFree(path)
  <2>1. /\ proc'["stop"].at = "stopped" /\ proc'["stop"].fd = path
        /\ \A q \in Procs : q # "stop" => proc'[q] = proc[q]
        /\ flock' = [flock EXCEPT ![path] = "stop"]
        /\ UNCHANGED <<path, beat, hist>>
    BY <1>0, <1>1 DEF requestCoordinatorStop, Idle
  <2>2. path \in Inodes
    BY <1>0, <1>1, BoundFacts
  <2>3. InPlace'
    BY <1>0, <2>1, PlacesAre DEF InPlace
  <2>4. LockHeld'
    BY <1>0, <1>1, <2>1, <2>2, ProcFacts DEF LockHeld, Holds, LockIsFree
  <2>5. OneFile'
    BY <1>0, <2>1 DEF OneFile, Unlinker
  <2>6. BeatHeld'
    BY <1>0, <2>1 DEF BeatHeld, Beats, Procs
  <2>7. Assigned'
    BY <1>0, <2>1 DEF Assigned, Removing, At, Claiming
  <2> QED
    BY <2>3, <2>4, <2>5, <2>6, <2>7
<1>2. CASE ~(path # 0 /\ LockIsFree(path))
  <2>1. /\ proc' = [proc EXCEPT !["stop"] = Done]
        /\ UNCHANGED <<path, flock, beat, hist>>
    BY <1>2 DEF requestCoordinatorStop
  <2> QED
    BY <1>0, <2>1, EndsKeeps
<1> QED
  BY <1>1, <1>2

LEMMA LockCleanup ==
  ASSUME LockInv, Types', Cleanup
  PROVE  LockInv'
<1> USE DEF LockInv
<1>0. /\ proc \in [Procs -> ProcType] /\ hist \in HistType /\ "cleanup" \in Procs
      /\ UNCHANGED <<path, flock, beat>> /\ proc["cleanup"].at # "gone"
  BY DEF Types, Cleanup, CleanupPlan, BeginCleanup, CleanupWorkers, CleanupTree,
     CleanupCommit, CleanupRollback, CleanupIdle, At, kernel
<1>1. KeepsLock
  BY <1>0 DEF Cleanup, CleanupPlan, BeginCleanup, CleanupWorkers, CleanupTree,
     CleanupCommit, CleanupRollback, CleanupIdle, HistType, KeepsLock
<1>2. CASE proc' = [proc EXCEPT !["cleanup"] = Done]
  <2>1. "cleanup" \notin Starters
    BY ProcFacts DEF Commands
  <2> QED
    BY <1>0, <1>1, <1>2, <2>1, EndsKeeps DEF KeepsLock
<1>3. ASSUME NEW where \in {"listed", "workers", "deleting"}, Goto("cleanup", where),
             where = "listed" \/ Removing
      PROVE  LockInv'
  <2>1. where \in Places
    BY DEF Places
  <2>2. /\ proc'["cleanup"].at = where /\ proc'["cleanup"].fd = proc["cleanup"].fd
        /\ proc'["cleanup"].run = proc["cleanup"].run
        /\ \A q \in Procs : q # "cleanup" => proc'[q] = proc[q]
    BY <1>0, <1>3, <2>1, Goes
  <2>3. Quietly("cleanup")
    BY <1>0, <1>3, <2>2, PlacesAre, ProcFacts DEF Quietly, Holds, Unlinker, Beats, Claiming,
       Assigned, Commands
  <2> QED
    BY <1>0, <1>1, <2>3, QuietlyKeeps
<1>4. CASE CleanupPlan
  BY <1>3, <1>4 DEF CleanupPlan
<1>5. CASE BeginCleanup
  <2>1. PICK r \in plans.cleanup :
           IF r \in Rows /\ ~CleanupEligible(r)
           THEN proc' = [proc EXCEPT !["cleanup"] = Done]
           ELSE proc' = [proc EXCEPT !["cleanup"].at = "reserved", !["cleanup"].run = r]
    BY <1>5 DEF BeginCleanup
  <2>2. CASE proc' = [proc EXCEPT !["cleanup"].at = "reserved", !["cleanup"].run = r]
    <3>1. r \in Runs
      BY DEF Types, StoreTypes, PlanType
    <3>2. /\ proc'["cleanup"].at = "reserved" /\ proc'["cleanup"].fd = proc["cleanup"].fd
          /\ proc'["cleanup"].run = r
          /\ \A q \in Procs : q # "cleanup" => proc'[q] = proc[q]
      BY <1>0, <2>2 DEF ProcType
    <3>3. Quietly("cleanup")
      BY <1>0, <3>1, <3>2, PlacesAre, ProcFacts DEF Quietly, Holds, Unlinker, Beats, Claiming,
         Commands
    <3> QED
      BY <1>0, <1>1, <3>3, QuietlyKeeps
  <2> QED
    BY <1>2, <2>1, <2>2
<1>6. CASE CleanupWorkers \/ CleanupTree
  BY <1>3, <1>6 DEF CleanupWorkers, CleanupTree, Removing
<1>7. CASE CleanupCommit
  BY <1>2, <1>3, <1>7 DEF CleanupCommit
<1>8. CASE CleanupRollback \/ CleanupIdle
  BY <1>2, <1>8 DEF CleanupRollback, CleanupIdle
<1> QED
  BY <1>4, <1>5, <1>6, <1>7, <1>8 DEF Cleanup

LEMMA LockReset ==
  ASSUME LockInv, Types', Reset
  PROVE  LockInv'
<1> USE DEF LockInv
<1>0. /\ proc \in [Procs -> ProcType] /\ hist \in HistType /\ "reset" \in Procs
      /\ proc["reset"].at # "gone" /\ "reset" \notin Starters
  BY ProcFacts DEF Types, Reset, ResetPlan, applyResetLifecycleTransition, ResetApplied,
     ResetReplan, ResetWorkers, ResetTrees, ResetStore, ResetUnlink, ResetConfig,
     ResetStopped, At, Commands
<1>1. ASSUME NEW where \in {"applied", "workers", "trees", "dropping", "unlinking", "stopped"},
             proc'["reset"].at = where, proc'["reset"].fd = proc["reset"].fd,
             \A q \in Procs : q # "reset" => proc'[q] = proc[q],
             proc["reset"].at \in {"owner", "applied", "workers", "trees", "dropping",
                                   "unlinking", "unlinked"},
             where # "stopped" => proc["reset"].at # "unlinked",
             KeepsLock, UNCHANGED beat \/ ~beat'.live
      PROVE  LockInv'
  <2>1. Quietly("reset")
    BY <1>0, <1>1, PlacesAre DEF Quietly, Holds, Unlinker, Beats
  <2> QED
    BY <1>0, <1>1, <2>1, QuietlyKeeps
<1>2. ASSUME NEW where \in Places, Goto("reset", where)
      PROVE  /\ proc'["reset"].at = where /\ proc'["reset"].fd = proc["reset"].fd
             /\ \A q \in Procs : q # "reset" => proc'[q] = proc[q]
  BY <1>0, <1>2, Goes
<1>3. {"applied", "workers", "trees", "dropping", "unlinking", "unlinked", "stopped"} \subseteq Places
  BY DEF Places
<1>4. CASE ResetPlan
  <2>1. UNCHANGED <<path, flock, beat, hist>> /\ proc["reset"].at = "idle"
    BY <1>4 DEF ResetPlan, kernel, At
  <2>2. CASE coordinatorLockHeld \/ Blocked
    BY <1>0, <1>4, <2>1, <2>2, EndsKeeps DEF ResetPlan
  <2>3. CASE ~(coordinatorLockHeld \/ Blocked)
    <3>1. proc' = [proc EXCEPT !["reset"] = [Idle EXCEPT !.at = "planned"]]
      BY <1>4, <2>3 DEF ResetPlan
    <3>2. /\ proc'["reset"].at = "planned" /\ proc'["reset"].fd = 0
          /\ \A q \in Procs : q # "reset" => proc'[q] = proc[q]
      BY <1>0, <3>1 DEF Idle
    <3>3. InPlace'
      BY <1>0, <3>2, PlacesAre DEF InPlace
    <3>4. LockHeld'
      BY <1>0, <2>1, <3>2 DEF LockHeld, Holds
    <3>5. OneFile'
      BY <1>0, <2>1, <3>2 DEF OneFile, Unlinker
    <3>6. BeatHeld'
      BY <1>0, <2>1, <3>2 DEF BeatHeld, Beats, Procs
    <3>7. Assigned'
      BY <1>0, <2>1, <3>2, ProcFacts DEF Assigned, Removing, At, Claiming
    <3> QED
      BY <3>3, <3>4, <3>5, <3>6, <3>7
  <2> QED
    BY <2>2, <2>3
<1>5. CASE applyResetLifecycleTransition
  <2>1. UNCHANGED proc /\ UNCHANGED beat /\ KeepsLock
    BY <1>5 DEF applyResetLifecycleTransition, kernel, KeepsLock
  <2> QED
    BY <2>1, StaysKeeps
<1>6. CASE ResetApplied
  <2>1. KeepsLock
    BY <1>0, <1>6 DEF ResetApplied, KeepsLock, kernel, HistType
  <2> QED
    BY <1>1, <1>2, <1>3, <1>6, <2>1 DEF ResetApplied, At
<1>7. CASE ResetReplan
  BY <1>1, <1>2, <1>3, <1>7 DEF ResetReplan, At, KeepsLock, kernel
<1>8. ASSUME NEW S, NEW T, NEW done \in {"trees", "dropping"}, Attempt(S, done, T)
      PROVE  /\ proc'["reset"].at = done /\ proc'["reset"].fd = proc["reset"].fd
             /\ \A q \in Procs : q # "reset" => proc'[q] = proc[q]
  BY <1>0, <1>8 DEF Attempt, ProcType
<1>9. CASE ResetWorkers
  <2>1. /\ proc'["reset"].at = "trees" /\ proc'["reset"].fd = proc["reset"].fd
        /\ \A q \in Procs : q # "reset" => proc'[q] = proc[q]
    BY <1>8, <1>9 DEF ResetWorkers
  <2>2. KeepsLock /\ UNCHANGED beat /\ proc["reset"].at = "workers"
    BY <1>9 DEF ResetWorkers, KeepsLock, kernel, At
  <2> QED
    BY <1>1, <2>1, <2>2
<1>10. CASE ResetTrees
  <2>1. /\ proc'["reset"].at = "dropping" /\ proc'["reset"].fd = proc["reset"].fd
        /\ \A q \in Procs : q # "reset" => proc'[q] = proc[q]
    BY <1>8, <1>10 DEF ResetTrees
  <2>2. KeepsLock /\ UNCHANGED beat /\ proc["reset"].at = "trees"
    BY <1>0, <1>10 DEF ResetTrees, KeepsLock, kernel, At, HistType
  <2> QED
    BY <1>1, <2>1, <2>2
<1>11. CASE ResetStore
  <2>1. UNCHANGED beat \/ ~beat'.live
    BY <1>11 DEF ResetStore
  <2>2. KeepsLock /\ proc["reset"].at = "dropping"
    BY <1>11 DEF ResetStore, KeepsLock, kernel, At
  <2>3. Goto("reset", "stopped") \/ Goto("reset", "unlinking")
    BY <1>11 DEF ResetStore
  <2> QED
    BY <1>1, <1>2, <1>3, <2>1, <2>2, <2>3
<1>12. CASE ResetUnlink
  <2>1. /\ proc'["reset"].at = "unlinked" /\ proc'["reset"].fd = proc["reset"].fd
        /\ \A q \in Procs : q # "reset" => proc'[q] = proc[q]
        /\ proc["reset"].at = "unlinking"
    BY <1>2, <1>3, <1>12 DEF ResetUnlink, At
  <2>2. /\ UNCHANGED <<flock, beat>> /\ hist'.silent = hist.silent
        /\ hist'.orphan = (hist.orphan \/
             \E q \in Procs \ {"reset"} : proc[q].fd = path /\ path # 0)
    BY <1>0, <1>12 DEF ResetUnlink, HistType
  <2>3. InPlace'
    BY <1>0, <2>1, PlacesAre DEF InPlace
  <2>4. LockHeld'
    BY <1>0, <2>1, <2>2 DEF LockHeld, Holds
  <2>5. OneFile'
    <3>1. ASSUME ~hist'.orphan, NEW q \in Procs, proc'[q].fd # 0, ~Unlinker(q)'
          PROVE  FALSE
      <4>1. q # "reset"
        BY <2>1, <3>1 DEF Unlinker
      <4>2. proc[q].fd = path /\ path # 0
        BY <2>1, <2>2, <3>1, <4>1 DEF OneFile, Unlinker
      <4> QED
        BY <2>2, <3>1, <4>1, <4>2
    <3> QED
      BY <1>0, <2>1, <3>1 DEF OneFile
  <2>6. BeatHeld'
    BY <1>0, <2>1, <2>2 DEF BeatHeld, Beats, Procs
  <2>7. Assigned'
    BY <1>0, <2>1, ProcFacts DEF Assigned, Removing, At, Claiming
  <2> QED
    BY <2>3, <2>4, <2>5, <2>6, <2>7
<1>13. CASE ResetConfig
  BY <1>1, <1>2, <1>3, <1>13 DEF ResetConfig, At, KeepsLock, kernel
<1>14. CASE ResetStopped
  <2>1. /\ proc["reset"].at \in {"owner", "dropping", "unlinking", "unlinked"}
        /\ Goto("reset", "stopped") /\ KeepsLock /\ UNCHANGED beat
    BY <1>14 DEF ResetStopped, At, KeepsLock, kernel
  <2> QED
    BY <1>1, <1>2, <1>3, <2>1
<1> QED
  BY <1>4, <1>5, <1>6, <1>7, <1>9, <1>10, <1>11, <1>12, <1>13, <1>14 DEF Reset

LEMMA LockCrash ==
  ASSUME LockInv, Types', NEW p \in Procs, Crash(p)
  PROVE  LockInv'
<1>1. /\ hist'.orphan = hist.orphan /\ hist'.silent = hist.silent \cup ({p} \cap Starters)
  BY DEF Crash, LockInv, Types, HistType
<1> QED
  BY <1>1, EndsKeeps DEF Crash

LEMMA LockWorld ==
  ASSUME LockInv, Types', Expire \/ (\E r \in Runs : Age(r)) \/ (\E i \in Issues : Human(i))
  PROVE  LockInv'
<1>1. UNCHANGED proc /\ KeepsLock
  BY DEF Expire, Age, Human, KeepsLock, kernel
<1>2. UNCHANGED beat \/ ~beat'.live
  BY DEF Expire, Age, Human, LockInv, Types, HostTypes, BeatType
<1> QED
  BY <1>1, <1>2, StaysKeeps

LEMMA LockStep == LockInv /\ [Next]_vars => LockInv'
<1>1. ASSUME LockInv, Next PROVE LockInv'
  BY <1>1, TypesKept, LockSteps, LockStart, LockClaim, LockStop, LockCleanup, LockReset,
     LockCrash, LockWorld DEF Next
<1>2. ASSUME LockInv, UNCHANGED vars PROVE LockInv'
  <2>1. UNCHANGED proc /\ KeepsLock /\ UNCHANGED beat
    BY <1>2 DEF vars, kernel, KeepsLock
  <2>2. Types'
    BY <1>2, Frames DEF vars, LockInv, Types, claims
  <2> QED
    BY <1>2, <2>1, <2>2, StaysKeeps
<1> QED
  BY <1>1, <1>2

LEMMA LockAlways == Spec => []LockInv
BY LockStarts, LockStep, PTL DEF Spec

\* Every variable keeps its type, and every process is where its command can be.
THEOREM HostTypeCorrect == Spec => []TypeOK
<1>1. LockInv => TypeOK
  BY TypesAre DEF LockInv
<1> QED
  BY LockAlways, <1>1, PTL

\* lock.go:57 - two coordinators, or one and a confirmed reset, never work at
\* the same time unless a reset unlinked the lock file under an opener.
THEOREM CoordinatorsExclude == Spec => []OneCoordinator
<1>1. LockInv => OneCoordinator
  <2> SUFFICES ASSUME LockInv, ~hist.orphan, NEW p \in Procs, NEW q \in Procs,
                      Working(p), Working(q)
               PROVE  p = q
    BY DEF OneCoordinator
  <2> USE DEF LockInv
  <2>1. ASSUME NEW x \in Procs, Working(x)
        PROVE  Holds(x) /\ ~Unlinker(x)
    BY <2>1, PlacesAre DEF InPlace, Working, Running, At, Holds, Unlinker, Claiming
  <2>2. ASSUME NEW x \in Procs, Working(x)
        PROVE  proc[x].fd = path /\ flock[path] = x
    <3>1. proc[x].fd \in Inodes /\ flock[proc[x].fd] = x /\ ~Unlinker(x)
      BY <2>1, <2>2 DEF LockHeld
    <3>2. proc[x].fd # 0
      BY <3>1, BoundFacts
    <3> QED
      BY <3>1, <3>2 DEF OneFile
  <2> QED
    BY <2>2
<1> QED
  BY LockAlways, <1>1, PTL

\* supervisor.go:37 - an unexpired heartbeat names the owner of a lock, or a
\* process that could not write an expired one.
THEOREM HeartbeatOwned == Spec => []HeartbeatHasOwner
<1>1. LockInv => HeartbeatHasOwner
  <2> SUFFICES ASSUME LockInv, beat.live, beat.pid \notin hist.silent
               PROVE  \E n \in Inodes : flock[n] = beat.pid
    BY DEF HeartbeatHasOwner
  <2>1. PICK q \in Starters : q = beat.pid /\ Beats(q)
    BY DEF LockInv, BeatHeld
  <2>2. q \in Procs /\ Holds(q)
    BY <2>1, PlacesAre DEF Beats, Holds, Procs, Claiming
  <2> QED
    BY <2>1, <2>2 DEF LockInv, LockHeld
<1> QED
  BY LockAlways, <1>1, PTL

-----------------------------------------------------------------------------
(* Rows, worktrees and worker resources: what a step does to one run *)

Others(p) == \A q \in Procs : q # p => proc'[q] = proc[q]
Grows == /\ hist.lost \subseteq hist'.lost /\ hist.gone \subseteq hist'.gone
         /\ hist.late \subseteq hist'.late
SameRun(r) == /\ runs'[r] = runs[r] /\ of'[r] = of[r]
              /\ r \in tree' <=> r \in tree
              /\ r \in box' <=> r \in box
SamePlans(r) == /\ r \in plans'.cleanup => r \in plans.cleanup
                /\ r \in plans'.reset <=> r \in plans.reset

\* A step of p that is not about run r, nor about a reset's removals.
Apart(p, r) ==
  /\ Others(p) /\ SameRun(r) /\ SamePlans(r) /\ Grows /\ cut' = cut
  /\ p # "cleanup" /\ txn = "cleanup" => txn' = "cleanup"
  /\ ~InClaimOf(p, r) /\ ~InClaimOf(p, r)'
  /\ p = "cleanup" => ~RemovedRun(r) /\ ~RemovedRun(r)'
  /\ p = "reset" => ~Resetting'

LEMMA ApartKeeps ==
  ASSUME NEW r \in Runs, RunOK(r), NEW p \in Procs, Apart(p, r)
  PROVE  RunOK(r)'
<1> USE DEF RunOK, Apart, SameRun, SamePlans, Others, Grows
<1>1. /\ r \in Rows' <=> r \in Rows
      /\ r \in Current' <=> r \in Current
      /\ Past(r) => Past(r)'
  BY DEF Rows, Current, Past
<1>2. /\ \A q \in Procs : InClaimOf(q, r)' => InClaimOf(q, r) /\ q # p /\ proc'[q] = proc[q]
      /\ \A q \in Procs : InClaimOf(q, r) => InClaimOf(q, r)'
      /\ Claimed(r)' <=> Claimed(r)
  BY DEF InClaimOf, Claimed
<1>3. /\ RemovedRun(r)' <=> RemovedRun(r)
      /\ RemovedRun(r) => p # "cleanup" /\ proc'["cleanup"] = proc["cleanup"]
  BY DEF RemovedRun, Removing, At
<1>4. /\ Resetting' => Resetting /\ "reset" \in Procs /\ proc'["reset"] = proc["reset"]
      /\ \A places \in SUBSET {"workers", "trees", "dropping"} : ResetAt(places)' => Resetting' /\ ResetAt(places)
  BY DEF Resetting, ResetAt, At
<1>5. ClaimedOnce(r)'
  BY <1>1, <1>2, <1>3 DEF ClaimedOnce
<1>6. ClaimOwns(r)'
  <2>1. ASSUME NEW q \in Procs, InClaimOf(q, r)' PROVE ClaimOK(q, r)'
    BY <1>1, <1>2, <1>3, <1>4, <2>1 DEF ClaimOwns, ClaimOK
  <2> QED
    BY <2>1 DEF ClaimOwns
<1>7. CleanupKnows(r)'
  BY <1>1, <1>3 DEF CleanupKnows
<1>8. ResetKnows(r)'
  BY <1>1, <1>4 DEF ResetKnows
<1>9. RowHasTree(r)'
  BY <1>1, <1>3 DEF RowHasTree, At
<1>10. BoxHasRow(r)'
  BY <1>1 DEF BoxHasRow
<1>11. TreeHasRow(r)'
  BY <1>1, <1>2 DEF TreeHasRow
<1> QED
  BY <1>5, <1>6, <1>7, <1>8, <1>9, <1>10, <1>11

\* A step that moves no process and changes at most the rows' contents: a
\* change that could make a row live again finds the write reservation free.
RowsOnly == /\ UNCHANGED <<proc, of, cut, txn, tree, box, plans>>
            /\ Grows
KeepsRow(r) == /\ r \in Rows' <=> r \in Rows
               /\ runs'[r].old => runs[r].old \/ (r \in Rows /\ ~Claimed(r))
               /\ r \in Current' => r \in Current \/ Writable

LEMMA RowsKeep ==
  ASSUME NEW r \in Runs, RunOK(r), RowsOnly, KeepsRow(r)
  PROVE  RunOK(r)'
<1> USE DEF RunOK, RowsOnly, KeepsRow, Grows
<1>1. /\ \A q \in Procs : InClaimOf(q, r)' <=> InClaimOf(q, r)
      /\ Claimed(r)' <=> Claimed(r)
      /\ RemovedRun(r)' <=> RemovedRun(r)
      /\ Past(r) => Past(r)'
      /\ Resetting' <=> Resetting
      /\ \A places : ResetAt(places)' <=> ResetAt(places)
  BY DEF InClaimOf, Claimed, RemovedRun, Removing, Past, Resetting, ResetAt, At
<1>2. ClaimedOnce(r)'
  BY <1>1 DEF ClaimedOnce
<1>3. ClaimOwns(r)'
  <2>1. ASSUME NEW q \in Procs, InClaimOf(q, r)' PROVE ClaimOK(q, r)'
    BY <1>1, <2>1 DEF ClaimOwns, ClaimOK, Claimed
  <2> QED
    BY <2>1 DEF ClaimOwns
<1>4. CleanupKnows(r)'
  <2>1. RemovedRun(r) => "cleanup" \in Procs
    BY DEF RemovedRun, Removing, At
  <2>2. "cleanup" \in Procs => ~(Writable /\ txn = "cleanup")
    BY ProcFacts DEF Writable
  <2> QED
    BY <1>1, <2>1, <2>2 DEF CleanupKnows
<1>5. ResetKnows(r)'
  BY <1>1 DEF ResetKnows
<1>6. RowHasTree(r)'
  BY <1>1 DEF RowHasTree, At
<1>7. BoxHasRow(r)' /\ TreeHasRow(r)'
  BY <1>1 DEF BoxHasRow, TreeHasRow
<1> QED
  BY <1>2, <1>3, <1>4, <1>5, <1>6, <1>7

\* The run x of a claim in progress.
LEMMA ClaimKnows ==
  ASSUME LockInv, NEW p \in Procs, NEW x \in Runs, InClaimOf(p, x), RunOK(x)
  PROVE  /\ p \notin {"cleanup", "reset", "stop"} /\ of[x] # 0
         /\ ClaimOK(p, x)
         /\ \A q \in Procs : InClaimOf(q, x) => q = p
<1>1. proc[p].at \in Claiming /\ proc[p].at \in PlacesOf(p)
  BY DEF InClaimOf, LockInv, InPlace
<1>2. p \notin {"cleanup", "reset", "stop"}
  BY <1>1, PlacesAre DEF Claiming
<1> QED
  BY <1>2 DEF RunOK, ClaimedOnce, ClaimOwns, Claimed

\* A claim goes on, with its row stored.
LEMMA ClaimMoves ==
  ASSUME LockInv, NEW p \in Procs, NEW x \in Runs, InClaimOf(p, x), RunOK(x),
         InClaimOf(p, x)', proc'[p].at # "claiming", Others(p), Grows,
         UNCHANGED <<of, cut, txn, tree, box, plans>>,
         p \in cut \/ x \in Rows', x \in Rows => x \in Rows', ~runs'[x].old
  PROVE  RunOK(x)'
<1> USE DEF Others, Grows
<1>0. /\ p \notin {"cleanup", "reset", "stop"} /\ of[x] # 0 /\ ClaimOK(p, x)
      /\ \A q \in Procs : InClaimOf(q, x) => q = p
  BY ClaimKnows
<1>1. /\ \A q \in Procs : InClaimOf(q, x)' => q = p
      /\ Claimed(x)' /\ ~RemovedRun(x)'
      /\ Past(x) => Past(x)'
      /\ Resetting' <=> Resetting
      /\ \A places : ResetAt(places)' <=> ResetAt(places)
      /\ "reset" \in Procs => proc'["reset"] = proc["reset"]
  BY <1>0 DEF InClaimOf, Claimed, RemovedRun, Removing, Past, Resetting, ResetAt, At, ClaimOK
<1>2. ClaimedOnce(x)'
  BY <1>0, <1>1 DEF ClaimedOnce
<1>3. ClaimOwns(x)'
  BY <1>0, <1>1 DEF ClaimOwns, ClaimOK
<1>4. CleanupKnows(x)'
  BY <1>0, <1>1 DEF CleanupKnows, ClaimOK
<1>5. ResetKnows(x)'
  <2>1. ResetAt({"workers", "trees", "dropping"}) => Resetting
    BY DEF ResetAt, Resetting
  <2>2. \A places : ResetAt(places) => "reset" \in Procs
    BY DEF ResetAt, At
  <2> QED
    BY <1>0, <1>1, <2>1, <2>2 DEF ResetKnows, RunOK, ClaimOK
<1>6. RowHasTree(x)' /\ BoxHasRow(x)' /\ TreeHasRow(x)'
  BY <1>0, <1>1 DEF RowHasTree, BoxHasRow, TreeHasRow, RunOK, ClaimOK
<1> QED
  BY <1>2, <1>3, <1>4, <1>5, <1>6 DEF RunOK

\* A claim ends: its run is stored with its worktree, or that is removed, or
\* its removal was refused.
LEMMA ClaimEnds ==
  ASSUME LockInv, NEW p \in Procs, NEW x \in Runs, InClaimOf(p, x), RunOK(x),
         ~InClaimOf(p, x)', Others(p), Grows,
         UNCHANGED <<of, cut, box, plans>>,
         x \in Rows => x \in Rows',
         tree' \subseteq tree, x \in tree => x \in tree' \/ x \in hist'.gone,
         x \in tree' => x \in Rows' \cup hist'.lost \cup hist'.late
  PROVE  RunOK(x)'
<1> USE DEF Others, Grows
<1>0. /\ p \notin {"cleanup", "reset", "stop"} /\ of[x] # 0 /\ ClaimOK(p, x)
      /\ \A q \in Procs : InClaimOf(q, x) => q = p
  BY ClaimKnows
<1>1. /\ \A q \in Procs : ~InClaimOf(q, x)'
      /\ ~RemovedRun(x)'
      /\ Past(x) => Past(x)'
      /\ Resetting' <=> Resetting
      /\ \A places : ResetAt(places)' <=> ResetAt(places)
      /\ "reset" \in Procs => proc'["reset"] = proc["reset"]
  BY <1>0 DEF InClaimOf, RemovedRun, Removing, Past, Resetting, ResetAt, At, ClaimOK
<1>2. ClaimedOnce(x)'
  BY <1>0, <1>1 DEF ClaimedOnce
<1>3. ClaimOwns(x)'
  BY <1>1 DEF ClaimOwns
<1>4. CleanupKnows(x)'
  BY <1>0, <1>1 DEF CleanupKnows, ClaimOK
<1>5. ResetKnows(x)'
  <2>1. ResetAt({"workers", "trees", "dropping"}) => Resetting
    BY DEF ResetAt, Resetting
  <2>2. \A places : ResetAt(places) => "reset" \in Procs
    BY DEF ResetAt, At
  <2> QED
    BY <1>0, <1>1, <2>1, <2>2 DEF ResetKnows, RunOK, ClaimOK
<1>6. RowHasTree(x)' /\ BoxHasRow(x)' /\ TreeHasRow(x)'
  BY <1>0, <1>1 DEF RowHasTree, BoxHasRow, TreeHasRow, RunOK, ClaimOK, Past
<1> QED
  BY <1>2, <1>3, <1>4, <1>5, <1>6 DEF RunOK

-----------------------------------------------------------------------------
(* The steps that are about no run's resources *)

\* Where a process is about a run, or a reset past its lifecycle pass.
Busy == Claiming \cup {"reserved", "workers", "deleting", "applied", "trees", "dropping"}

LEMMA IdlyKeeps ==
  ASSUME Resources, NEW p \in Procs, Others(p), Grows,
         UNCHANGED <<runs, of, cut, tree, box, plans>>,
         txn = "cleanup" => txn' = "cleanup",
         p # "reset" => proc[p].at \notin Busy, p = "reset" => proc[p].at \notin Claiming,
         proc'[p].at \notin Busy
  PROVE  Resources'
<1>1. ASSUME NEW r \in Runs PROVE Apart(p, r)
  BY DEF Apart, SameRun, SamePlans, InClaimOf, RemovedRun, Removing, Resetting, At, Busy
<1> QED
  BY <1>1, ApartKeeps DEF Resources

LEMMA StillKeeps ==
  ASSUME Resources, RowsOnly, UNCHANGED runs
  PROVE  Resources'
<1>1. ASSUME NEW r \in Runs PROVE KeepsRow(r)
  BY DEF KeepsRow, Rows, Current
<1> QED
  BY <1>1, RowsKeep DEF Resources

LEMMA LockRuns ==
  ASSUME LockInv, Resources, NEW p \in Procs,
         OpenLock(p) \/ TryLock(p) \/ RecordOwner(p) \/ Release(p)
  PROVE  Resources'
<1>0. proc \in [Procs -> ProcType]
  BY DEF LockInv, Types
<1>1. UNCHANGED <<runs, of, cut, tree, box, plans, txn, hist>>
  BY DEF OpenLock, TryLock, RecordOwner, Release, claims, disk
<1>2. /\ Others(p) /\ proc'[p].at \in {"opened", "locked", "owner", "gone"}
      /\ proc[p].at \in {"diagnosed", "planned", "opened", "locked", "stopped"}
  <2>1. CASE OpenLock(p)
    <3>1. \E n : proc' = [proc EXCEPT ![p] = [proc[p] EXCEPT !.at = "opened", !.fd = n]]
      BY <1>0, <2>1 DEF OpenLock, ProcType
    <3> QED
      BY <1>0, <2>1, <3>1 DEF OpenLock, At, Others, ProcType
  <2>2. CASE TryLock(p)
    BY <1>0, <2>2, Goes, Ends DEF TryLock, At, Others, Places
  <2>3. CASE RecordOwner(p)
    BY <1>0, <2>3, Goes DEF RecordOwner, At, Others, Places
  <2>4. CASE Release(p)
    BY <1>0, <2>4, Ends DEF Release, At, Others
  <2> QED
    BY <2>1, <2>2, <2>3, <2>4
<1>3. proc[p].at \notin Busy /\ proc'[p].at \notin Busy
  BY <1>2 DEF Busy, Claiming
<1> QED
  BY <1>1, <1>2, <1>3, IdlyKeeps DEF Grows, Busy

\* The rows and the resources under a step of factory start.
LEMMA TransitionRows ==
  ASSUME RunTypes, NEW x \in Runs, NEW status \in Statuses, status # "none", x \in Rows,
         Transition(x, status) \/ runs' = SetStatus(x, status)
  PROVE  /\ \A r \in Runs : /\ r \in Rows' <=> r \in Rows
                            /\ runs'[r].old => runs[r].old
         /\ \A r \in Runs : r # x => runs'[r] = runs[r]
<1>1. runs' = SetStatus(x, status) \/ runs' = [runs EXCEPT ![x].pending = status]
  BY DEF Transition
<1>2. CASE runs' = SetStatus(x, status)
  BY <1>2 DEF SetStatus, RunTypes, RowType, Rows
<1>3. CASE runs' = [runs EXCEPT ![x].pending = status]
  BY <1>3 DEF RunTypes, RowType, Rows
<1> QED
  BY <1>1, <1>2, <1>3

LEMMA WritableRows ==
  ASSUME LockInv, Resources, RowsOnly, Writable, NEW x \in Rows, NEW status \in Statuses,
         status # "none", Transition(x, status) \/ runs' = SetStatus(x, status)
  PROVE  Resources'
<1>1. x \in Runs /\ RunTypes
  BY DEF Rows, LockInv, Types
<1>2. ASSUME NEW r \in Runs PROVE KeepsRow(r)
  BY <1>1, TransitionRows DEF KeepsRow
<1> QED
  BY <1>2, RowsKeep DEF Resources

\* Two processes hold the lock only if one of them is a reset that has
\* unlinked its file.
LEMMA OneHolder ==
  ASSUME LockInv, NEW p \in Procs, NEW q \in Procs, Holds(p), Holds(q), ~hist.orphan,
         ~Unlinker(p), ~Unlinker(q)
  PROVE  p = q
<1>1. /\ proc[p].fd \in Inodes /\ flock[proc[p].fd] = p
      /\ proc[q].fd \in Inodes /\ flock[proc[q].fd] = q
  BY DEF LockInv, LockHeld
<1>2. proc[p].fd = path /\ proc[q].fd = path
  BY <1>1, BoundFacts DEF LockInv, OneFile
<1> QED
  BY <1>1, <1>2

\* While a reset removes resources, no coordinator runs.
LEMMA ResetAlone ==
  ASSUME LockInv, NEW where \in {"applied", "workers", "trees", "dropping", "unlinking"},
         At("reset", where), NEW p \in Starters
  PROVE  proc[p].at \in {"idle", "gone", "diagnosed", "opened"}
<1>1. "reset" \in Procs /\ p \in Procs /\ p # "reset"
  BY ProcFacts DEF At, Procs, Commands
<1>2. ~hist.orphan /\ ~Unlinker("reset") /\ ~Unlinker(p) /\ Holds("reset")
  BY <1>1 DEF LockInv, OneFile, Unlinker, Holds, At
<1>3. ~Holds(p)
  BY <1>1, <1>2, OneHolder
<1>4. p \notin {"issue", "cleanup"} /\ proc[p].at \in PlacesOf(p)
  BY <1>1, PlacesAre DEF LockInv, InPlace
<1> QED
  BY <1>1, <1>3, <1>4, PlacesAre DEF Holds, Claiming

LEMMA StartRuns ==
  ASSUME LockInv, Resources, NEW p \in Starters, Start(p)
  PROVE  Resources'
<1>0. /\ proc \in [Procs -> ProcType] /\ p \in Procs /\ hist \in HistType
      /\ RunTypes /\ p \notin {"cleanup", "reset"}
  BY ProcFacts DEF LockInv, Types, Procs, Commands
<1>1. CASE startupDiagnosis(p) \/ startSupervisorHeartbeat(p) \/ reconcileRegisteredRun(p)
           \/ EndLoop(p) \/ StopHeartbeat(p)
  <2>1. UNCHANGED <<runs, of, cut, tree, box, plans, txn>>
    BY <1>1 DEF startupDiagnosis, startSupervisorHeartbeat, reconcileRegisteredRun,
       EndLoop, StopHeartbeat, claims, disk
  <2>2. Grows
    BY <1>0, <1>1 DEF startupDiagnosis, startSupervisorHeartbeat, reconcileRegisteredRun,
       EndLoop, StopHeartbeat, Grows, HistType
  <2>3. \E where \in {"diagnosed", "started", "polling", "stopping", "stopped"} : Goto(p, where)
    BY <1>1 DEF startupDiagnosis, startSupervisorHeartbeat, reconcileRegisteredRun,
       EndLoop, StopHeartbeat
  <2>4. Others(p) /\ proc'[p].at \in {"diagnosed", "started", "polling", "stopping", "stopped"}
    BY <1>0, <2>3, Goes DEF Others, Places
  <2>5. proc[p].at \in {"idle", "owner", "started", "polling", "stopping"}
    BY <1>1 DEF startupDiagnosis, startSupervisorHeartbeat, reconcileRegisteredRun,
       EndLoop, StopHeartbeat, At
  <2>6. proc[p].at \notin Busy /\ proc'[p].at \notin Busy
    BY <2>4, <2>5 DEF Busy, Claiming
  <2> QED
    BY <1>0, <2>1, <2>2, <2>4, <2>6, IdlyKeeps
<1>2. CASE Renew(p)
  BY <1>2, StillKeeps DEF Renew, RowsOnly, Grows, claims, disk
<1>3. CASE drainPendingEffect(p)
  <2>1. PICK x \in Rows : /\ runs[x].pending # "none" /\ runs' = SetStatus(x, runs[x].pending)
    BY <1>3 DEF drainPendingEffect, Observed, Current
  <2>2. PICK status \in Statuses : status = runs[x].pending
    BY <1>0 DEF RunTypes, RowType, Rows
  <2>3. RowsOnly /\ Writable
    BY <1>3 DEF drainPendingEffect, RowsOnly, Grows, claims, disk, Observing
  <2> QED
    BY <2>1, <2>2, <2>3, WritableRows
<1>4. CASE observeLifecycle(p)
  <2>1. PICK x \in Rows : Outcome(x) # "unchanged" /\ Transition(x, Outcome(x))
    BY <1>4 DEF observeLifecycle, Current
  <2>2. Outcome(x) \in Statuses \ {"none"}
    BY <2>1 DEF Outcome, Statuses, Terminal
  <2>3. RowsOnly /\ Writable
    BY <1>4 DEF observeLifecycle, RowsOnly, Grows, claims, disk, Observing
  <2> QED
    BY <2>1, <2>2, <2>3, WritableRows
<1>5. CASE Retry(p)
  <2>1. PICK x \in Rows : Transition(x, "active")
    BY <1>5 DEF Retry, Observed, Current
  <2>2. "active" \in Statuses \ {"none"}
    BY DEF Statuses
  <2>3. RowsOnly /\ Writable
    BY <1>5 DEF Retry, RowsOnly, Grows, claims, disk
  <2> QED
    BY <2>1, <2>2, <2>3, WritableRows
<1>6. CASE driveRun(p)
  <2>1. PICK x \in Current : box' = box \cup {x}
    BY <1>6 DEF driveRun
  <2>2. /\ UNCHANGED <<runs, of, cut, txn, tree, proc, plans, hist>> /\ Writable
        /\ proc[p].at = "polling"
    BY <1>6 DEF driveRun, claims, At
  <2>3. ASSUME NEW r \in Runs, r # x PROVE RunOK(r)'
    <3>1. Apart(p, r)
      BY <1>0, <2>1, <2>2, <2>3 DEF Apart, SameRun, SamePlans, Others, Grows, InClaimOf, Claiming
    <3> QED
      BY <1>0, <3>1, ApartKeeps DEF Resources
  <2>4. RunOK(x)'
    <3>1. x \in Rows /\ x \in Runs /\ RunOK(x)
      BY DEF Current, Rows, Resources
    <3>2. ~ResetAt({"trees", "dropping"})
      BY <1>0, <2>2, ResetAlone DEF ResetAt
    <3>3. "cleanup" \in Procs => txn # "cleanup"
      BY <2>2, ProcFacts DEF Writable
    <3>4. RemovedRun(x) => "cleanup" \in Procs
      BY DEF RemovedRun, Removing, At
    <3>5. ClaimedOnce(x)' /\ ClaimOwns(x)'
      BY <2>2, <3>1 DEF RunOK, ClaimedOnce, ClaimOwns, ClaimOK, InClaimOf, Claimed, RemovedRun,
         Removing, At, Rows, Past, Resetting
    <3>6. CleanupKnows(x)'
      BY <2>2, <3>1, <3>3, <3>4 DEF RunOK, CleanupKnows, RemovedRun, Removing, At, Rows
    <3>7. ResetKnows(x)'
      BY <2>2, <3>1, <3>2 DEF RunOK, ResetKnows, ResetAt, At, Rows
    <3>8. RowHasTree(x)' /\ BoxHasRow(x)' /\ TreeHasRow(x)'
      BY <2>2, <3>1 DEF RunOK, RowHasTree, BoxHasRow, TreeHasRow, InClaimOf, Claimed, RemovedRun,
         Removing, At, Rows, Past
    <3> QED
      BY <3>5, <3>6, <3>7, <3>8 DEF RunOK
  <2> QED
    BY <2>3, <2>4 DEF Resources
<1> QED
  BY <1>1, <1>2, <1>3, <1>4, <1>5, <1>6 DEF Start

\* The steps of time and of people, and factory stop.
LEMMA WorldRuns ==
  ASSUME LockInv, Resources,
         \/ requestCoordinatorStop \/ Expire
         \/ \E r \in Runs : Age(r)
         \/ \E i \in Issues : Human(i)
  PROVE  Resources'
<1>1. CASE requestCoordinatorStop
  <2>1. UNCHANGED <<runs, of, cut, tree, box, plans, txn, hist>> /\ "stop" \in Procs
        /\ proc["stop"].at = "idle"
    BY <1>1 DEF requestCoordinatorStop, claims, disk, At
  <2>2. Others("stop") /\ proc'["stop"].at \in {"stopped", "gone"}
    <3>1. \/ proc' = [proc EXCEPT !["stop"] = [Idle EXCEPT !.at = "stopped", !.fd = path]]
          \/ proc' = [proc EXCEPT !["stop"] = Done]
      BY <1>1 DEF requestCoordinatorStop
    <3> QED
      BY <2>1, <3>1 DEF Others, LockInv, Types, Done, Idle
  <2>3. proc["stop"].at \notin Busy /\ proc'["stop"].at \notin Busy
    BY <2>1, <2>2 DEF Busy, Claiming
  <2> QED
    BY <2>1, <2>2, <2>3, IdlyKeeps DEF Grows
<1>2. CASE Expire \/ \E i \in Issues : Human(i)
  BY <1>2, StillKeeps DEF Expire, Human, RowsOnly, Grows, claims, disk
<1>3. ASSUME NEW x \in Runs, Age(x) PROVE Resources'
  <2>1. /\ runs' = [runs EXCEPT ![x].old = TRUE] /\ runs[x].status \in Terminal
        /\ \A p \in Procs : proc[p].run # x
    BY <1>3 DEF Age
  <2>2. RowsOnly
    BY <1>3 DEF Age, RowsOnly, Grows, claims, disk
  <2>3. ASSUME NEW r \in Runs PROVE KeepsRow(r)
    <3>1. runs'[r].status = runs[r].status /\ (r # x => runs'[r] = runs[r])
      BY <2>1 DEF LockInv, Types, RunTypes, RowType
    <3>2. ~Claimed(x)
      BY <2>1 DEF Claimed, InClaimOf
    <3>3. x \in Rows
      BY <2>1 DEF Rows, Terminal
    <3> QED
      BY <3>1, <3>2, <3>3 DEF KeepsRow, Rows, Current
  <2> QED
    BY <2>2, <2>3, RowsKeep DEF Resources
<1> QED
  BY <1>1, <1>2, <1>3

-----------------------------------------------------------------------------
(* The steps of a claim *)

\* A step of a claim leaves the other runs alone.
LEMMA ClaimApart ==
  ASSUME LockInv, Resources, NEW p \in Procs, NEW x \in Runs, InClaimOf(p, x),
         Others(p), Grows, UNCHANGED <<of, cut, box, plans>>,
         txn = "cleanup" => txn' = "cleanup",
         \A r \in Runs : r # x => runs'[r] = runs[r] /\ (r \in tree' <=> r \in tree),
         ~(proc'[p].at \in Claiming /\ proc'[p].run # x),
         RunOK(x)'
  PROVE  Resources'
<1>1. p \notin {"cleanup", "reset"}
  BY ClaimKnows DEF Resources
<1>2. ASSUME NEW r \in Runs, r # x PROVE RunOK(r)'
  <2>1. Apart(p, r)
    BY <1>1, <1>2 DEF Apart, SameRun, SamePlans, InClaimOf
  <2> QED
    BY <2>1, ApartKeeps DEF Resources
<1> QED
  BY <1>2 DEF Resources

LEMMA RemovalGrows ==
  ASSUME hist \in HistType, NEW p \in Procs, NEW n \in {0, 1}, cleanupWorkspace(p, n)
  PROVE  /\ Grows /\ tree' \subseteq tree
         /\ \/ tree' = tree \ {proc[p].run} /\ proc[p].run \in hist'.gone
            \/ tree' = tree /\ proc[p].run \in hist'.lost
BY DEF cleanupWorkspace, Grows, HistType

\* The row of a claim that goes on.
LEMMA ClaimRow ==
  ASSUME LockInv, NEW p \in Procs, NEW x \in Runs, InClaimOf(p, x), RunOK(x),
         proc[p].at # "claiming",
         \/ UNCHANGED runs \/ runs' = [runs EXCEPT ![x].pending = "none"]
         \/ p \notin cut /\ (\/ runs' = [runs EXCEPT ![x].pending = "active"]
                             \/ runs' = SetStatus(x, "active") \/ runs' = SetStatus(x, "failed"))
  PROVE  /\ \A r \in Runs : r # x => runs'[r] = runs[r]
         /\ x \in Rows => x \in Rows'
         /\ p \in cut \/ x \in Rows'
         /\ ~runs'[x].old
<1>1. ClaimOK(p, x)
  BY ClaimKnows
<1>2. runs \in [Runs -> RowType]
  BY DEF LockInv, Types, RunTypes
<1>3. ~runs[x].old /\ (p \in cut \/ x \in Rows)
  BY <1>1 DEF ClaimOK
<1>4. CASE UNCHANGED runs
  BY <1>3, <1>4 DEF Rows
<1>5. CASE runs' = [runs EXCEPT ![x].pending = "none"]
  BY <1>2, <1>3, <1>5 DEF Rows, RowType
<1>6. CASE runs' = [runs EXCEPT ![x].pending = "active"]
  BY <1>2, <1>3, <1>6 DEF Rows, RowType
<1>7. CASE runs' = SetStatus(x, "active") \/ runs' = SetStatus(x, "failed")
  BY <1>2, <1>3, <1>7 DEF Rows, RowType, SetStatus
<1> QED
  BY <1>4, <1>5, <1>6, <1>7

LEMMA ClaimBegins ==
  ASSUME LockInv, OnlyOperatorsCut, Resources, NEW p \in Procs, ClaimBegin(p)
  PROVE  Resources'
<1>0. proc \in [Procs -> ProcType] /\ hist \in HistType
  BY DEF LockInv, Types
<1>1. PICK i \in Issues, n \in Unclaimed :
         /\ Create(i, n)
         /\ proc' = [proc EXCEPT ![p].at = "claiming", ![p].run = n]
         /\ hist' = IF Resetting THEN [hist EXCEPT !.late = @ \cup {n}] ELSE hist
  BY DEF ClaimBegin
<1>2. /\ UNCHANGED <<runs, cut, txn, box, plans>>
      /\ p \notin cut /\ p \notin {"cleanup", "reset"} /\ proc[p].at \notin Claiming
  BY ProcFacts DEF ClaimBegin, At, OnlyOperatorsCut, Commands, Claiming
<1>3. /\ proc'[p].at = "claiming" /\ proc'[p].run = n /\ Others(p)
  BY <1>0, <1>1 DEF ProcType, Others
<1>4. n \in Runs /\ of[n] = 0 /\ i \in Nat \ {0}
  BY HostAssumption DEF Unclaimed
<1>5. Grows /\ (Resetting => n \in hist'.late)
  BY <1>0, <1>1, <1>4 DEF Grows, HistType
<1>6. of'[n] = i /\ tree' = tree \cup {n} /\ \A r \in Runs : r # n => of'[r] = of[r]
  BY <1>1, <1>4 DEF Create, LockInv, Types, RunTypes
<1>7. ASSUME NEW r \in Runs, r # n PROVE RunOK(r)'
  <2>1. Apart(p, r)
    BY <1>2, <1>3, <1>5, <1>6, <1>7 DEF Apart, SameRun, SamePlans, InClaimOf
  <2> QED
    BY <2>1, ApartKeeps DEF Resources
<1>8. RunOK(n)'
  <2>1. /\ n \notin Rows /\ n \notin tree /\ n \notin box /\ ~Claimed(n)
        /\ n \notin plans.cleanup /\ n \notin plans.reset /\ ~RemovedRun(n)
    BY <1>4 DEF Resources, RunOK, ClaimedOnce
  <2>2. /\ n \notin Rows' /\ n \in tree' /\ n \notin box'
        /\ n \notin plans'.cleanup /\ n \notin plans'.reset /\ ~RemovedRun(n)'
        /\ InClaimOf(p, n)' /\ Claimed(n)'
        /\ \A q \in Procs : InClaimOf(q, n)' => q = p
        /\ Resetting' => Resetting
    BY <1>2, <1>3, <1>6, <2>1 DEF Rows, RemovedRun, Removing, At, InClaimOf, Claiming,
       Claimed, Others, Resetting
  <2>3. ClaimedOnce(n)'
    BY <1>4, <1>6, <2>2 DEF ClaimedOnce
  <2>4. ClaimOwns(n)'
    <3>1. ~runs'[n].old
      BY <1>2, <2>1, <1>4 DEF Resources, RunOK, ClaimedOnce
    <3> QED
      BY <1>2, <1>3, <1>5, <2>2, <3>1 DEF ClaimOwns, ClaimOK
  <2>5. CleanupKnows(n)' /\ ResetKnows(n)'
    BY <2>2 DEF CleanupKnows, ResetKnows
  <2>6. RowHasTree(n)' /\ BoxHasRow(n)' /\ TreeHasRow(n)'
    BY <2>2 DEF RowHasTree, BoxHasRow, TreeHasRow
  <2> QED
    BY <2>3, <2>4, <2>5, <2>6 DEF RunOK
<1> QED
  BY <1>7, <1>8, <1>4 DEF Resources

LEMMA ClaimGoes ==
  ASSUME LockInv, Resources, NEW p \in Procs, NEW x \in Runs, InClaimOf(p, x), Claim(p)
  PROVE  Resources'
<1>0. /\ proc \in [Procs -> ProcType] /\ hist \in HistType /\ runs \in [Runs -> RowType]
      /\ proc[p].run = x /\ proc[p].at \in Claiming
      /\ RunOK(x) /\ ClaimOK(p, x)
  BY ClaimKnows DEF LockInv, Types, RunTypes, InClaimOf, Resources
<1>1. ~ClaimBegin(p)
  BY <1>0, ClaimKnows DEF ClaimBegin, At, Claiming, Resources
<1>2. ASSUME NEW where \in {"saved", "failing", "abandoned", "removing"}, Goto(p, where)
      PROVE  Others(p) /\ proc'[p].at = where /\ proc'[p].run = x /\ InClaimOf(p, x)'
  BY <1>0, <1>2, Goes DEF Others, Places, Claiming, InClaimOf
<1>3. ASSUME Return(p) \/ ReturnError(p)
      PROVE  Others(p) /\ proc'[p].run = 0 /\ proc'[p].at \notin Claiming /\ ~InClaimOf(p, x)'
  BY <1>0, <1>3, Returns DEF Others, Claiming, InClaimOf
<1>4. ASSUME NEW where \in {"saved", "failing", "abandoned", "removing"}, Goto(p, where),
             UNCHANGED <<of, cut, txn, box, tree, plans>>, Grows,
             \A r \in Runs : r # x => runs'[r] = runs[r],
             x \in Rows => x \in Rows', p \in cut \/ x \in Rows', ~runs'[x].old
      PROVE  Resources'
  <2>1. Others(p) /\ proc'[p].at = where /\ proc'[p].run = x /\ InClaimOf(p, x)'
    BY <1>2, <1>4
  <2>2. RunOK(x)'
    BY <1>0, <1>4, <2>1, ClaimMoves
  <2> QED
    BY <1>4, <2>1, <2>2, ClaimApart
<1>5. ASSUME Return(p) \/ ReturnError(p), Grows, UNCHANGED <<of, cut, txn, box, plans>>,
             \A r \in Runs : r # x => runs'[r] = runs[r] /\ (r \in tree' <=> r \in tree),
             x \in Rows => x \in Rows',
             tree' \subseteq tree, x \in tree => x \in tree' \/ x \in hist'.gone,
             x \in tree' => x \in Rows' \cup hist'.lost \cup hist'.late
      PROVE  Resources'
  <2>1. Others(p) /\ proc'[p].run = 0 /\ proc'[p].at \notin Claiming /\ ~InClaimOf(p, x)'
    BY <1>3, <1>5
  <2>2. RunOK(x)'
    BY <1>0, <1>5, <2>1, ClaimEnds
  <2> QED
    BY <1>5, <2>1, <2>2, ClaimApart
<1>6. CASE ClaimSave(p)
  <2>1. /\ Goto(p, "saved") /\ UNCHANGED <<of, cut, txn, box, tree, plans, hist>>
        /\ proc[p].at = "claiming"
        /\ \/ p \in cut /\ UNCHANGED runs
           \/ runs' = [runs EXCEPT ![x] = [NoRow EXCEPT !.status = "active"]]
    BY <1>0, <1>6 DEF ClaimSave, claims, disk, At
  <2>2. /\ p \in cut \/ x \in Rows'
        /\ x \in Rows => x \in Rows'
        /\ ~runs'[x].old
        /\ \A r \in Runs : r # x => runs'[r] = runs[r]
    BY <1>0, <2>1 DEF Rows, NoRow, ClaimOK
  <2> QED
    BY <1>4, <2>1, <2>2 DEF Grows
<1>7. CASE ClaimRefused(p) \/ FailClaimRemove(p)
  <2>1. /\ ReturnError(p) /\ UNCHANGED <<of, cut, txn, box, plans, runs>>
        /\ cleanupWorkspace(p, 0) \/ cleanupWorkspace(p, 1)
    BY <1>7 DEF ClaimRefused, FailClaimRemove, claims
  <2>2. /\ Grows /\ tree' \subseteq tree
        /\ \/ tree' = tree \ {x} /\ x \in hist'.gone
           \/ tree' = tree /\ x \in hist'.lost
    BY <1>0, <2>1, RemovalGrows
  <2> QED
    BY <1>5, <2>1, <2>2 DEF Rows
<1>8. CASE ClaimProject(p)
  <2>1. /\ Return(p) /\ UNCHANGED <<of, cut, txn, box, tree, plans, hist>>
        /\ proc[p].at = "saved"
        /\ UNCHANGED runs \/ (p \notin cut /\ runs' = SetStatus(x, "active"))
    BY <1>0, <1>8 DEF ClaimProject, claims, disk, At
  <2>2. /\ \A r \in Runs : r # x => runs'[r] = runs[r]
        /\ x \in Rows => x \in Rows'
        /\ p \in cut \/ x \in Rows'
    BY <1>0, <2>1, ClaimRow
  <2>3. p \in cut => x \in hist'.late
    BY <1>0, <2>1 DEF ClaimOK
  <2> QED
    BY <1>5, <2>1, <2>2, <2>3 DEF Grows
<1>9. CASE ClaimInterrupted(p)
  <2>1. /\ UNCHANGED <<of, cut, txn, box, tree, plans, hist>> /\ proc[p].at = "saved"
        /\ UNCHANGED runs \/ (p \notin cut /\ runs' = [runs EXCEPT ![x].pending = "active"])
        /\ Goto(p, "failing") \/ Return(p)
    BY <1>0, <1>9 DEF ClaimInterrupted, claims, disk, At
  <2>2. /\ \A r \in Runs : r # x => runs'[r] = runs[r]
        /\ x \in Rows => x \in Rows'
        /\ p \in cut \/ x \in Rows'
        /\ ~runs'[x].old
    BY <1>0, <2>1, ClaimRow
  <2>3. p \in cut => x \in hist'.late
    BY <1>0, <2>1 DEF ClaimOK
  <2>4. CASE Goto(p, "failing")
    BY <1>4, <2>1, <2>2, <2>4 DEF Grows
  <2>5. CASE Return(p)
    BY <1>5, <2>1, <2>2, <2>3, <2>5 DEF Grows
  <2> QED
    BY <2>1, <2>4, <2>5
<1>10. CASE FailClaimAbandon(p)
  <2>1. /\ Goto(p, "abandoned") /\ UNCHANGED <<of, cut, txn, box, tree, plans, hist>>
        /\ proc[p].at = "failing"
        /\ UNCHANGED runs \/ runs' = [runs EXCEPT ![x].pending = "none"]
    BY <1>0, <1>10 DEF FailClaimAbandon, claims, disk, At
  <2>2. /\ \A r \in Runs : r # x => runs'[r] = runs[r]
        /\ x \in Rows => x \in Rows'
        /\ p \in cut \/ x \in Rows'
        /\ ~runs'[x].old
    BY <1>0, <2>1, ClaimRow
  <2> QED
    BY <1>4, <2>1, <2>2 DEF Grows
<1>11. CASE FailClaimRecord(p)
  <2>1. /\ Goto(p, "removing") /\ UNCHANGED <<of, cut, txn, box, tree, plans>>
        /\ proc[p].at = "abandoned"
        /\ UNCHANGED runs \/ (p \notin cut /\ runs' = SetStatus(x, "failed"))
    BY <1>0, <1>11 DEF FailClaimRecord, claims, disk, At
  <2>2. /\ \A r \in Runs : r # x => runs'[r] = runs[r]
        /\ x \in Rows => x \in Rows'
        /\ p \in cut \/ x \in Rows'
        /\ ~runs'[x].old
    BY <1>0, <2>1, ClaimRow
  <2>3. Grows
    BY <1>0, <1>11 DEF FailClaimRecord, Grows, HistType
  <2> QED
    BY <1>4, <2>1, <2>2, <2>3
<1> QED
  BY <1>1, <1>6, <1>7, <1>8, <1>9, <1>10, <1>11 DEF Claim

LEMMA ClaimRuns ==
  ASSUME LockInv, OnlyOperatorsCut, Resources, NEW p \in Procs, Claim(p)
  PROVE  Resources'
<1>1. ASSUME ~ClaimBegin(p) PROVE \E x \in Runs : InClaimOf(p, x)
  <2>1. proc[p].at \in Claiming
    BY <1>1 DEF Claim, ClaimSave, ClaimRefused, ClaimProject, ClaimInterrupted, FailClaimAbandon,
       FailClaimRecord, FailClaimRemove, At, Claiming
  <2> QED
    BY <2>1 DEF LockInv, Assigned, InClaimOf
<1> QED
  BY <1>1, ClaimBegins, ClaimGoes

-----------------------------------------------------------------------------
(* The steps of factory cleanup *)

\* The run x that a cleanup removes, or one that its removal leaves: the
\* cleanup goes on, or ends with the removal done or recorded.
LEMMA RemovalKeeps ==
  ASSUME LockInv, NEW x \in Runs, RunOK(x), "cleanup" \in Procs, RemovedRun(x),
         Others("cleanup"), Grows, proc'["cleanup"].at \notin Claiming,
         UNCHANGED <<of, cut, plans>>,
         tree' \subseteq tree, box' \subseteq box,
         x \in Rows' => runs'[x] = runs[x],
         x \in Rows => x \in Rows' \/ (x \notin box' /\ x \notin tree'),
         RemovedRun(x)' /\ "cleanup" \notin cut =>
           /\ txn' = txn
           /\ proc'["cleanup"].at \in {"workers", "deleting"} => x \notin box'
           /\ proc'["cleanup"].at = "deleting" => x \notin tree',
         x \in Rows' /\ "cleanup" \notin cut => \/ tree' = tree /\ ~At("cleanup", "deleting")
                                                \/ At("cleanup", "deleting")' /\ RemovedRun(x)'
                                                \/ x \in hist'.gone
  PROVE  RunOK(x)'
<1> USE DEF RunOK, Others, Grows
<1>1. /\ \A q \in Procs : ~InClaimOf(q, x)
      /\ \A q \in Procs : ~InClaimOf(q, x)'
      /\ of[x] # 0 /\ ~Claimed(x) /\ ~Claimed(x)'
  BY DEF ClaimOwns, ClaimOK, ClaimedOnce, InClaimOf, Claimed
<1>2. /\ Past(x) => Past(x)'
      /\ \A places : ResetAt(places)' <=> ResetAt(places)
      /\ \A places : ResetAt(places) => proc'["reset"] = proc["reset"]
      /\ x \in Rows' => x \in Rows /\ (x \in Current' => x \in Current)
  BY DEF Past, ResetAt, At, Rows, Current
<1>3. ClaimedOnce(x)' /\ ClaimOwns(x)'
  BY <1>1 DEF ClaimedOnce, ClaimOwns
<1>4. CleanupKnows(x)'
  BY <1>2 DEF CleanupKnows, Current
<1>5. ResetKnows(x)'
  BY <1>2 DEF ResetKnows
<1>6. RowHasTree(x)'
  BY <1>2 DEF RowHasTree, CleanupKnows, Past
<1>7. BoxHasRow(x)' /\ TreeHasRow(x)'
  BY <1>1, <1>2 DEF BoxHasRow, TreeHasRow
<1> QED
  BY <1>3, <1>4, <1>5, <1>6, <1>7

\* A step of the cleanup that removes x leaves the other runs alone.
LEMMA RemovalApart ==
  ASSUME Resources, NEW x \in Runs, "cleanup" \in Procs,
         proc["cleanup"].at \notin Claiming, proc'["cleanup"].at \notin Claiming,
         Removing => proc["cleanup"].run = x, Removing' => proc'["cleanup"].run = x,
         Others("cleanup"), Grows, UNCHANGED <<of, cut>>,
         \A r \in Runs : r # x => /\ runs'[r] = runs[r] /\ SamePlans(r)
                                  /\ r \in tree' <=> r \in tree
                                  /\ r \in box' <=> r \in box,
         RunOK(x)'
  PROVE  Resources'
<1>1. ASSUME NEW r \in Runs, r # x PROVE RunOK(r)'
  <2>1. Apart("cleanup", r)
    BY <1>1 DEF Apart, SameRun, InClaimOf, RemovedRun
  <2> QED
    BY <2>1, ApartKeeps DEF Resources
<1> QED
  BY <1>1 DEF Resources

LEMMA CleanupRuns ==
  ASSUME LockInv, OnlyOperatorsCut, Resources, Cleanup
  PROVE  Resources'
<1>0. /\ proc \in [Procs -> ProcType] /\ hist \in HistType /\ runs \in [Runs -> RowType]
      /\ plans \in PlanType /\ "cleanup" \in Procs /\ "cleanup" # "reset"
      /\ proc["cleanup"].at \in {"idle", "listed", "reserved", "workers", "deleting"}
      /\ proc["cleanup"].at \notin Claiming
  <2>1. /\ "cleanup" \in Procs
        /\ proc["cleanup"].at \in {"idle", "listed", "reserved", "workers", "deleting"}
    BY DEF Cleanup, CleanupPlan, BeginCleanup, CleanupWorkers, CleanupTree, CleanupCommit,
       CleanupRollback, CleanupIdle, At
  <2> QED
    BY <2>1 DEF LockInv, Types, RunTypes, StoreTypes, Claiming
<1>1. ASSUME NEW where \in {"listed", "workers", "deleting"}, Goto("cleanup", where)
      PROVE  /\ Others("cleanup") /\ proc'["cleanup"].at = where
             /\ proc'["cleanup"].run = proc["cleanup"].run
  BY <1>0, <1>1, Goes DEF Others, Places
<1>2. ASSUME proc' = [proc EXCEPT !["cleanup"] = Done]
      PROVE  Others("cleanup") /\ proc'["cleanup"].at = "gone"
  BY <1>0, <1>2, Ends DEF Others
<1>3. /\ "listed" \notin Busy /\ "gone" \notin Busy /\ "idle" \notin Busy
      /\ \A where \in {"gone", "listed", "reserved", "workers", "deleting"} : where \notin Claiming
  BY DEF Busy, Claiming
<1>4. CASE CleanupPlan
  <2>1. /\ UNCHANGED <<runs, of, cut, txn, tree, box, hist>> /\ proc["cleanup"].at = "idle"
        /\ plans'.reset = plans.reset /\ plans'.cleanup = {r \in Rows : cleanupTarget(r)}
        /\ Goto("cleanup", "listed")
    BY <1>0, <1>4 DEF CleanupPlan, claims, disk, At, PlanType
  <2>2. Others("cleanup") /\ proc'["cleanup"].at = "listed" /\ "cleanup" \notin cut
    BY <1>0, <1>1, <2>1 DEF OnlyOperatorsCut
  <2>3. ASSUME NEW r \in Runs PROVE RunOK(r)'
    <3>1. RunOK(r) /\ Rows' = Rows
      BY <2>1 DEF Resources, Rows
    <3>2. /\ \A q \in Procs : InClaimOf(q, r)' <=> InClaimOf(q, r)
          /\ \A q \in Procs : InClaimOf(q, r) => q # "cleanup" /\ proc'[q] = proc[q]
          /\ Claimed(r)' <=> Claimed(r)
          /\ ~RemovedRun(r) /\ ~RemovedRun(r)'
          /\ Past(r)' <=> Past(r)
          /\ Resetting' <=> Resetting
          /\ \A places : ResetAt(places)' <=> ResetAt(places)
          /\ \A places : ResetAt(places) => proc'["reset"] = proc["reset"]
      BY <1>0, <1>3, <2>1, <2>2 DEF Others, InClaimOf, Claimed, RemovedRun, Removing, Past, Resetting,
         ResetAt, At
    <3>3. r \in plans'.cleanup => r \in Rows /\ runs[r].old
      BY <2>1 DEF cleanupTarget
    <3>4. ClaimedOnce(r)'
      BY <2>1, <3>1, <3>2, <3>3 DEF RunOK, ClaimedOnce
    <3>5. ClaimOwns(r)'
      <4>1. ASSUME NEW q \in Procs, InClaimOf(q, r)' PROVE ClaimOK(q, r)'
        BY <2>1, <3>1, <3>2, <3>3, <4>1 DEF RunOK, ClaimOwns, ClaimOK
      <4> QED
        BY <4>1 DEF ClaimOwns
    <3>6. CleanupKnows(r)'
      BY <2>1, <2>2, <3>2 DEF CleanupKnows
    <3>7. ResetKnows(r)'
      BY <2>1, <3>1, <3>2 DEF RunOK, ResetKnows
    <3>8. RowHasTree(r)'
      BY <2>1, <3>1, <3>2 DEF RunOK, RowHasTree
    <3>9. BoxHasRow(r)' /\ TreeHasRow(r)'
      BY <2>1, <3>1, <3>2 DEF RunOK, BoxHasRow, TreeHasRow
    <3> QED
      BY <3>4, <3>5, <3>6, <3>7, <3>8, <3>9 DEF RunOK
  <2> QED
    BY <2>3 DEF Resources
<1>5. CASE CleanupIdle
  <2>1. /\ UNCHANGED <<runs, of, cut, txn, tree, box, plans, hist>> /\ proc["cleanup"].at = "listed"
        /\ proc' = [proc EXCEPT !["cleanup"] = Done]
    BY <1>5 DEF CleanupIdle, claims, disk, At
  <2> QED
    BY <1>0, <1>2, <1>3, <2>1, IdlyKeeps DEF Grows
<1>6. CASE BeginCleanup
  <2>1. PICK x \in plans.cleanup :
          IF x \in Rows /\ ~CleanupEligible(x)
          THEN proc' = [proc EXCEPT !["cleanup"] = Done] /\ UNCHANGED <<txn, plans>>
          ELSE /\ txn' = "cleanup" /\ plans' = [plans EXCEPT !.cleanup = @ \ {x}]
               /\ proc' = [proc EXCEPT !["cleanup"].at = "reserved", !["cleanup"].run = x]
    BY <1>6 DEF BeginCleanup
  <2>2. /\ UNCHANGED <<runs, of, cut, tree, box, hist>> /\ proc["cleanup"].at = "listed"
        /\ x \in Runs /\ RunOK(x)
    BY <1>0, <1>6, <2>1 DEF BeginCleanup, claims, disk, At, PlanType, Resources
  <2>3. CASE x \in Rows /\ ~CleanupEligible(x)
    BY <1>0, <1>2, <1>3, <2>1, <2>2, <2>3, IdlyKeeps DEF Grows
  <2>4. CASE ~(x \in Rows /\ ~CleanupEligible(x))
    <3>1. /\ txn' = "cleanup" /\ plans'.cleanup = plans.cleanup \ {x} /\ plans'.reset = plans.reset
          /\ proc'["cleanup"].at = "reserved" /\ proc'["cleanup"].run = x /\ Others("cleanup")
      BY <1>0, <2>1, <2>4 DEF PlanType, ProcType, Others
    <3>2. /\ \A q \in Procs : ~InClaimOf(q, x)
          /\ \A q \in Procs : ~InClaimOf(q, x)'
          /\ of[x] # 0 /\ ~Claimed(x) /\ ~Claimed(x)'
      BY <1>0, <1>3, <2>2, <3>1 DEF RunOK, ClaimOwns, ClaimOK, ClaimedOnce, InClaimOf, Claimed, Others
    <3>3. /\ ~RemovedRun(x) /\ Rows' = Rows /\ Current' = Current
          /\ Past(x)' <=> Past(x)
          /\ \A places : ResetAt(places)' <=> ResetAt(places)
          /\ \A places : ResetAt(places) => proc'["reset"] = proc["reset"]
      BY <1>0, <2>2, <3>1 DEF Others, RemovedRun, Removing, Past, ResetAt, At, Rows, Current
    <3>4. x \notin Current
      BY <2>4 DEF Current, CleanupEligible
    <3>5. ClaimedOnce(x)' /\ ClaimOwns(x)'
      BY <2>2, <3>2 DEF ClaimedOnce, ClaimOwns
    <3>6. CleanupKnows(x)'
      BY <2>1, <2>2, <3>1, <3>3, <3>4 DEF RunOK, CleanupKnows
    <3>7. ResetKnows(x)'
      BY <2>2, <3>1, <3>3 DEF RunOK, ResetKnows
    <3>8. RowHasTree(x)'
      BY <2>2, <3>3 DEF RunOK, RowHasTree
    <3>9. BoxHasRow(x)' /\ TreeHasRow(x)'
      BY <2>2, <3>2, <3>3 DEF RunOK, BoxHasRow, TreeHasRow
    <3>10. RunOK(x)'
      BY <3>5, <3>6, <3>7, <3>8, <3>9 DEF RunOK
    <3>11. ~Removing /\ \A r \in Runs : SamePlans(r)
      BY <2>2, <3>1 DEF Removing, At, SamePlans
    <3> QED
      BY <1>0, <1>3, <2>2, <3>1, <3>10, <3>11, RemovalApart DEF Grows
  <2> QED
    BY <2>3, <2>4
<1>7. ASSUME Removing
      PROVE  \E x \in Runs : x = proc["cleanup"].run /\ RemovedRun(x) /\ RunOK(x)
  BY <1>7 DEF LockInv, Assigned, RemovedRun, Resources
<1>8. CASE CleanupWorkers
  <2>1. Removing /\ proc["cleanup"].at = "reserved" /\ Goto("cleanup", "workers")
    BY <1>8 DEF CleanupWorkers, Removing, At
  <2>2. PICK x \in Runs : x = proc["cleanup"].run /\ RemovedRun(x) /\ RunOK(x)
    BY <1>7, <2>1
  <2>3. UNCHANGED <<runs, of, cut, txn, tree, plans, hist>> /\ box' = box \ {x}
    BY <1>8, <2>2 DEF CleanupWorkers, claims
  <2>4. /\ proc'["cleanup"].at = "workers" /\ Others("cleanup") /\ Grows
        /\ proc'["cleanup"].run = x
    BY <1>1, <2>1, <2>2, <2>3 DEF Grows
  <2>5. RunOK(x)'
    BY <1>0, <1>3, <2>1, <2>2, <2>3, <2>4, RemovalKeeps DEF Rows, At
  <2> QED
    BY <1>0, <1>3, <2>2, <2>3, <2>4, <2>5, RemovalApart DEF SamePlans
<1>9. CASE CleanupTree
  <2>1. Removing /\ proc["cleanup"].at = "workers" /\ Goto("cleanup", "deleting")
    BY <1>9 DEF CleanupTree, Removing, At
  <2>2. PICK x \in Runs : x = proc["cleanup"].run /\ RemovedRun(x) /\ RunOK(x)
    BY <1>7, <2>1
  <2>3. UNCHANGED <<runs, of, cut, txn, box, plans, hist>> /\ tree' = tree \ {x}
    BY <1>9, <2>2 DEF CleanupTree, claims
  <2>4. /\ proc'["cleanup"].at = "deleting" /\ Others("cleanup") /\ Grows
        /\ proc'["cleanup"].run = x /\ RemovedRun(x)' /\ At("cleanup", "deleting")'
    BY <1>0, <1>1, <2>1, <2>2, <2>3 DEF Grows, RemovedRun, Removing, At
  <2>5. "cleanup" \notin cut => x \notin box
    BY <2>1, <2>2 DEF RunOK, CleanupKnows
  <2>6. RunOK(x)'
    BY <1>0, <1>3, <2>2, <2>3, <2>4, <2>5, RemovalKeeps DEF Rows
  <2> QED
    BY <1>0, <1>3, <2>2, <2>3, <2>4, <2>6, RemovalApart DEF SamePlans
<1>10. CASE CleanupCommit
  <2>1. Removing /\ proc["cleanup"].at = "deleting"
        /\ \/ proc' = [proc EXCEPT !["cleanup"] = Done]
           \/ Goto("cleanup", "listed")
    BY <1>10 DEF CleanupCommit, Removing, At
  <2>2. PICK x \in Runs : x = proc["cleanup"].run /\ RemovedRun(x) /\ RunOK(x)
    BY <1>7, <2>1
  <2>3. /\ UNCHANGED <<of, cut, tree, box, plans, hist>>
        /\ IF "cleanup" \in cut THEN UNCHANGED runs ELSE runs' = [runs EXCEPT ![x] = NoRow]
    BY <1>10, <2>2 DEF CleanupCommit, claims, disk, Delete
  <2>4. /\ proc'["cleanup"].at \in {"gone", "listed"} /\ Others("cleanup") /\ Grows
        /\ ~RemovedRun(x)' /\ ~Removing'
    BY <1>0, <1>1, <1>2, <2>1, <2>3 DEF Grows, RemovedRun, Removing, At
  <2>5. "cleanup" \notin cut => x \notin box /\ x \notin tree
    BY <2>1, <2>2 DEF RunOK, CleanupKnows
  <2>6. /\ \A r \in Runs : r # x => runs'[r] = runs[r]
        /\ x \in Rows' => runs'[x] = runs[x] /\ "cleanup" \in cut
        /\ x \notin Rows \/ x \in Rows' \/ "cleanup" \notin cut
    <3>1. "cleanup" \in cut => x \notin Rows
      BY <2>2 DEF RunOK, CleanupKnows
    <3> QED
      BY <1>0, <2>3, <3>1 DEF Rows, NoRow
  <2>7. RunOK(x)'
    BY <1>0, <1>3, <2>2, <2>3, <2>4, <2>5, <2>6, RemovalKeeps
  <2> QED
    BY <1>0, <1>3, <2>2, <2>3, <2>4, <2>6, <2>7, RemovalApart DEF SamePlans
<1>11. CASE CleanupRollback
  <2>1. Removing /\ proc' = [proc EXCEPT !["cleanup"] = Done]
    BY <1>11 DEF CleanupRollback, Removing, At
  <2>2. PICK x \in Runs : x = proc["cleanup"].run /\ RemovedRun(x) /\ RunOK(x)
    BY <1>7, <2>1
  <2>3. /\ UNCHANGED <<runs, of, cut, tree, box, plans>> /\ Grows
        /\ At("cleanup", "deleting") => x \in hist'.gone
    BY <1>0, <1>11, <2>2 DEF CleanupRollback, claims, disk, Grows, HistType
  <2>4. /\ proc'["cleanup"].at = "gone" /\ Others("cleanup") /\ ~RemovedRun(x)' /\ ~Removing'
    BY <1>0, <1>2, <2>1 DEF RemovedRun, Removing, At
  <2>5. RunOK(x)'
    BY <1>0, <1>3, <2>2, <2>3, <2>4, RemovalKeeps DEF Rows
  <2> QED
    BY <1>0, <1>3, <2>2, <2>3, <2>4, <2>5, RemovalApart DEF SamePlans
<1> QED
  BY <1>4, <1>5, <1>6, <1>8, <1>9, <1>10, <1>11 DEF Cleanup

-----------------------------------------------------------------------------
(* The steps of factory reset *)

LEMMA ResetRuns ==
  ASSUME LockInv, OnlyOperatorsCut, Resources, Reset
  PROVE  Resources'
<1>0. /\ proc \in [Procs -> ProcType] /\ hist \in HistType /\ runs \in [Runs -> RowType]
      /\ plans \in PlanType /\ "reset" \in Procs /\ "reset" # "cleanup" /\ RunTypes
      /\ tree \subseteq Runs /\ box \subseteq Runs
  BY DEF LockInv, Types, RunTypes, StoreTypes, Reset, ResetPlan, applyResetLifecycleTransition,
     ResetApplied, ResetReplan, ResetWorkers, ResetTrees, ResetStore, ResetUnlink,
     ResetConfig, ResetStopped, At
<1>1. ASSUME NEW where \in {"applied", "workers", "unlinking", "unlinked", "stopped"},
             Goto("reset", where)
      PROVE  /\ Others("reset") /\ proc'["reset"].at = where
             /\ proc'["reset"].bad = proc["reset"].bad
  BY <1>0, <1>1, Goes DEF Others, Places
<1>2. /\ "unlinked" \notin Busy /\ "stopped" \notin Busy /\ "planned" \notin Busy
      /\ "gone" \notin Busy /\ "unlinking" \notin Busy
  BY DEF Busy, Claiming
<1>3. proc["reset"].at \notin Claiming
  BY <1>0, PlacesAre DEF LockInv, InPlace, Claiming
\* A step that leaves the removals behind.
<1>4. ASSUME Others("reset"), proc'["reset"].at \in {"unlinked", "stopped", "planned", "gone"},
             UNCHANGED <<runs, of, cut, txn, tree, box, plans>>, Grows
      PROVE  Resources'
  BY <1>0, <1>2, <1>3, <1>4, IdlyKeeps
\* What a step of the reset leaves of the other processes.
<1>5. ASSUME NEW r \in Runs, Others("reset"), proc'["reset"].at \notin Claiming
      PROVE  /\ \A q \in Procs : InClaimOf(q, r)' <=> InClaimOf(q, r)
             /\ \A q \in Procs : InClaimOf(q, r) => q # "reset" /\ proc'[q] = proc[q]
             /\ Claimed(r)' <=> Claimed(r)
             /\ RemovedRun(r)' <=> RemovedRun(r)
             /\ At("cleanup", "deleting")' <=> At("cleanup", "deleting")
             /\ "cleanup" \in Procs => proc'["cleanup"] = proc["cleanup"]
  BY <1>0, <1>3, <1>5 DEF Others, InClaimOf, Claimed, RemovedRun, Removing, At
<1>6. CASE ResetPlan \/ ResetUnlink \/ ResetConfig \/ ResetStopped
  <2>1. /\ UNCHANGED <<runs, of, cut, txn, tree, box, plans>> /\ Grows
    BY <1>0, <1>6 DEF ResetPlan, ResetUnlink, ResetConfig, ResetStopped, claims, disk, Grows, HistType
  <2>2. CASE ResetPlan
    <3>1. \/ proc' = [proc EXCEPT !["reset"] = Done]
          \/ proc' = [proc EXCEPT !["reset"] = [Idle EXCEPT !.at = "planned"]]
      BY <2>2 DEF ResetPlan
    <3>2. Others("reset") /\ proc'["reset"].at \in {"planned", "gone"}
      BY <1>0, <3>1 DEF Others, Done, Idle
    <3> QED
      BY <1>4, <2>1, <3>2
  <2>3. CASE ResetUnlink \/ ResetConfig \/ ResetStopped
    <3>1. Goto("reset", "unlinked") \/ Goto("reset", "stopped")
      BY <2>3 DEF ResetUnlink, ResetConfig, ResetStopped
    <3> QED
      BY <1>1, <1>4, <2>1, <3>1
  <2> QED
    BY <1>6, <2>2, <2>3
<1>7. CASE applyResetLifecycleTransition
  <2>1. PICK x \in Rows : Outcome(x) # "unchanged" /\ Transition(x, Outcome(x))
    BY <1>7 DEF applyResetLifecycleTransition, Current
  <2>2. Outcome(x) \in Statuses \ {"none"}
    BY <2>1 DEF Outcome, Statuses, Terminal
  <2>3. RowsOnly /\ Writable
    BY <1>7 DEF applyResetLifecycleTransition, RowsOnly, Grows, claims, disk
  <2> QED
    BY <2>1, <2>2, <2>3, WritableRows
<1>8. CASE ResetApplied
  <2>1. UNCHANGED <<runs, of, cut, txn, tree, box, plans>> /\ Grows
    BY <1>0, <1>8 DEF ResetApplied, claims, disk, Grows, HistType
  <2>2. CASE Goto("reset", "stopped")
    BY <1>1, <1>4, <2>1, <2>2
  <2>3. CASE ~Goto("reset", "stopped")
    <3>1. Goto("reset", "applied") /\ hist' = [hist EXCEPT !.late = @ \cup InClaim]
      BY <1>8, <2>3 DEF ResetApplied
    <3>2. Others("reset") /\ proc'["reset"].at = "applied" /\ "applied" \notin Claiming
          /\ InClaim \subseteq hist'.late
      BY <1>0, <1>1, <3>1 DEF HistType, Claiming
    <3>3. ASSUME NEW r \in Runs PROVE RunOK(r)'
      <4>1. RunOK(r) /\ Rows' = Rows /\ Current' = Current /\ (Past(r) => Past(r)')
        BY <2>1 DEF Resources, Rows, Current, Past, Grows
      <4>2. Claimed(r) => r \in hist'.late
        BY <3>2 DEF Claimed, InClaimOf, InClaim
      <4>3. /\ \A q \in Procs : InClaimOf(q, r)' <=> InClaimOf(q, r)
            /\ \A q \in Procs : InClaimOf(q, r) => q # "reset" /\ proc'[q] = proc[q]
            /\ Claimed(r)' <=> Claimed(r)
            /\ RemovedRun(r)' <=> RemovedRun(r)
            /\ At("cleanup", "deleting")' <=> At("cleanup", "deleting")
            /\ "cleanup" \in Procs => proc'["cleanup"] = proc["cleanup"]
        BY <1>5, <3>2
      <4>4. ClaimedOnce(r)'
        BY <2>1, <4>1, <4>3 DEF RunOK, ClaimedOnce
      <4>5. ClaimOwns(r)'
        <5>1. ASSUME NEW q \in Procs, InClaimOf(q, r)' PROVE ClaimOK(q, r)'
          BY <2>1, <4>1, <4>2, <4>3, <5>1 DEF RunOK, ClaimOwns, ClaimOK, Claimed
        <5> QED
          BY <5>1 DEF ClaimOwns
      <4>6. CleanupKnows(r)'
        <5>1. RemovedRun(r) => "cleanup" \in Procs
          BY DEF RemovedRun, Removing, At
        <5> QED
          BY <2>1, <4>1, <4>3, <5>1 DEF RunOK, CleanupKnows
      <4>7. ResetKnows(r)'
        BY <3>2 DEF ResetKnows, ResetAt, At
      <4>8. RowHasTree(r)'
        BY <2>1, <4>1, <4>3 DEF RunOK, RowHasTree
      <4>9. BoxHasRow(r)' /\ TreeHasRow(r)'
        BY <2>1, <4>1, <4>3 DEF RunOK, BoxHasRow, TreeHasRow, Grows
      <4> QED
        BY <4>4, <4>5, <4>6, <4>7, <4>8, <4>9 DEF RunOK
    <3> QED
      BY <3>3 DEF Resources
  <2> QED
    BY <2>2, <2>3
\* From here the rows, and what the other processes do, are as they were.
<1>9. ASSUME Others("reset"), proc'["reset"].at \notin Claiming, Resetting,
             UNCHANGED <<runs, of, cut, txn>>, Grows, plans'.cleanup = plans.cleanup,
             plans'.reset \in {plans.reset, Rows},
             box' \subseteq box, tree' \subseteq tree,
             \A r \in plans'.reset : r \in tree => r \in tree' \/ r \in hist'.gone,
             \A r \in Runs : r \notin plans'.reset => (r \in tree <=> r \in tree'),
             \A r \in Runs : ResetKnows(r)'
      PROVE  Resources'
  <2>1. ASSUME NEW r \in Runs PROVE RunOK(r)'
    <3>1. RunOK(r) /\ Rows' = Rows /\ Current' = Current /\ (Past(r) => Past(r)')
      BY <1>9 DEF Resources, Rows, Current, Past, Grows
    <3>2. /\ \A q \in Procs : InClaimOf(q, r)' <=> InClaimOf(q, r)
          /\ \A q \in Procs : InClaimOf(q, r) => q # "reset" /\ proc'[q] = proc[q]
          /\ Claimed(r)' <=> Claimed(r)
          /\ RemovedRun(r)' <=> RemovedRun(r)
          /\ At("cleanup", "deleting")' <=> At("cleanup", "deleting")
          /\ "cleanup" \in Procs => proc'["cleanup"] = proc["cleanup"]
      BY <1>5, <1>9
    <3>3. ClaimedOnce(r)'
      BY <1>9, <3>1, <3>2 DEF RunOK, ClaimedOnce
    <3>4. ClaimOwns(r)'
      <4>1. ASSUME NEW q \in Procs, InClaimOf(q, r)' PROVE ClaimOK(q, r)'
        <5>1. InClaimOf(q, r) /\ ClaimOK(q, r) /\ proc'[q] = proc[q]
          BY <3>1, <3>2, <4>1 DEF RunOK, ClaimOwns
        <5>2. r \in tree' \/ Past(r)'
          BY <1>9, <3>1, <5>1 DEF ClaimOK, Past
        <5>3. proc[q].at = "claiming" => r \notin plans'.reset /\ r \in tree'
          BY <1>9, <5>1 DEF ClaimOK
        <5> QED
          BY <1>9, <3>1, <3>2, <5>1, <5>2, <5>3 DEF ClaimOK, Grows
      <4> QED
        BY <4>1 DEF ClaimOwns
    <3>5. CleanupKnows(r)'
      <4>1. RemovedRun(r) => "cleanup" \in Procs
        BY DEF RemovedRun, Removing, At
      <4> QED
        BY <1>9, <3>1, <3>2, <4>1 DEF RunOK, CleanupKnows
    <3>6. RowHasTree(r)'
      BY <1>9, <3>1, <3>2 DEF RunOK, RowHasTree, Past
    <3>7. BoxHasRow(r)' /\ TreeHasRow(r)'
      BY <1>9, <3>1, <3>2 DEF RunOK, BoxHasRow, TreeHasRow, Grows
    <3> QED
      BY <1>9, <3>3, <3>4, <3>5, <3>6, <3>7 DEF RunOK
  <2> QED
    BY <2>1 DEF Resources
<1>10. CASE ResetReplan
  <2>1. /\ UNCHANGED <<runs, of, cut, txn, tree, box, hist>> /\ proc["reset"].at = "applied"
    BY <1>10 DEF ResetReplan, claims, disk, At
  <2>2. CASE Goto("reset", "stopped")  /\ UNCHANGED plans
    BY <1>1, <1>4, <2>1, <2>2 DEF Grows
  <2>3. CASE ~(Goto("reset", "stopped") /\ UNCHANGED plans)
    <3>1. /\ Goto("reset", "workers") /\ plans'.reset = Rows /\ plans'.cleanup = plans.cleanup
      BY <1>0, <1>10, <2>3 DEF ResetReplan, PlanType
    <3>2. Others("reset") /\ proc'["reset"].at = "workers" /\ "workers" \notin Claiming
      BY <1>1, <3>1 DEF Claiming
    <3>3. ASSUME NEW r \in Runs PROVE ResetKnows(r)'
      BY <2>1, <3>1, <3>2 DEF ResetKnows, ResetAt, At, Rows
    <3>4. Resetting
      BY <1>0, <2>1 DEF Resetting, At
    <3> QED
      BY <1>9, <2>1, <3>1, <3>2, <3>3, <3>4 DEF Grows
  <2> QED
    BY <2>2, <2>3
<1>11. ASSUME NEW S, NEW T, NEW done \in {"trees", "dropping"}, Attempt(S, done, T)
       PROVE  /\ Others("reset") /\ proc'["reset"].at = done /\ T \subseteq S
              /\ S \ plans.reset \subseteq T
              /\ \/ proc'["reset"].bad
                 \/ proc'["reset"].bad = proc["reset"].bad /\ T = S \ plans.reset
  <2>1. \/ T = S \ plans.reset /\ proc' = [proc EXCEPT !["reset"].at = done]
        \/ /\ \E r \in plans.reset \cap S : T = (S \ plans.reset) \cup {r}
           /\ proc' = [proc EXCEPT !["reset"] = [proc["reset"] EXCEPT !.at = done, !.bad = TRUE]]
    BY <1>0, <1>11 DEF Attempt, ProcType
  <2> QED
    BY <1>0, <2>1 DEF Others, ProcType
<1>12. ASSUME NEW r \in Runs PROVE ResetKnows(r)
  BY <1>12 DEF Resources, RunOK
<1>13. CASE ResetWorkers
  <2>1. /\ UNCHANGED <<runs, of, cut, txn, tree, plans, hist>> /\ proc["reset"].at = "workers"
        /\ Attempt(box, "trees", box')
    BY <1>13 DEF ResetWorkers, claims, At
  <2>2. /\ Others("reset") /\ proc'["reset"].at = "trees" /\ box' \subseteq box
        /\ \/ proc'["reset"].bad
           \/ proc'["reset"].bad = proc["reset"].bad /\ box' = box \ plans.reset
    BY <1>11, <2>1
  <2>3. ASSUME NEW r \in Runs PROVE ResetKnows(r)'
    BY <1>0, <1>12, <2>1, <2>2 DEF ResetKnows, ResetAt, At, Rows
  <2>4. Resetting /\ "trees" \notin Claiming
    BY <1>0, <2>1 DEF Resetting, At, Claiming
  <2> QED
    BY <1>9, <2>1, <2>2, <2>3, <2>4 DEF Grows
<1>14. CASE ResetTrees
  <2>1. /\ UNCHANGED <<runs, of, cut, txn, box, plans>> /\ proc["reset"].at = "trees"
        /\ Attempt(tree, "dropping", tree')
        /\ hist' = [hist EXCEPT !.gone = @ \cup (plans.reset \ tree')]
    BY <1>14 DEF ResetTrees, claims, At
  <2>2. /\ Others("reset") /\ proc'["reset"].at = "dropping" /\ tree' \subseteq tree
        /\ tree \ plans.reset \subseteq tree'
        /\ \/ proc'["reset"].bad
           \/ proc'["reset"].bad = proc["reset"].bad /\ tree' = tree \ plans.reset
    BY <1>11, <2>1
  <2>3. Grows /\ \A r \in plans.reset : r \in tree' \/ r \in hist'.gone
    BY <1>0, <2>1 DEF Grows, HistType
  <2>4. ASSUME NEW r \in Runs PROVE ResetKnows(r)'
    BY <1>0, <1>12, <2>1, <2>2, <2>3 DEF ResetKnows, ResetAt, At, Rows, Grows
  <2>5. Resetting /\ "dropping" \notin Claiming
    BY <1>0, <2>1 DEF Resetting, At, Claiming
  <2> QED
    BY <1>9, <2>1, <2>2, <2>3, <2>4, <2>5
<1>15. CASE ResetStore
  <2>1. UNCHANGED <<of, tree, box, plans, hist>> /\ proc["reset"].at = "dropping"
    BY <1>15 DEF ResetStore, disk, At
  <2>2. CASE Incomplete
    <3>1. Goto("reset", "stopped") /\ UNCHANGED <<runs, cut, txn>>
      BY <1>15, <2>2 DEF ResetStore
    <3> QED
      BY <1>1, <1>4, <2>1, <3>1 DEF Grows
  <2>3. CASE ~Incomplete
    <3>1. /\ Goto("reset", "unlinking") /\ runs' = [r \in Runs |-> NoRow] /\ ~proc["reset"].bad
          /\ cut \subseteq cut'
          /\ \A p \in Procs : proc[p].at \in Claiming \/ proc[p].at \in {"listed", "reserved", "workers", "deleting"}
                                => p \in cut'
      BY <1>15, <2>3 DEF ResetStore, Incomplete
    <3>2. /\ Others("reset") /\ proc'["reset"].at = "unlinking" /\ "unlinking" \notin Claiming
      BY <1>1, <3>1 DEF Claiming
    <3>3. ~Resetting' /\ Resetting /\ \A places \in SUBSET {"workers", "trees", "dropping"} : ~ResetAt(places)'
      BY <1>0, <2>1, <3>2 DEF Resetting, ResetAt, At
    <3>4. ASSUME NEW r \in Runs PROVE RunOK(r)'
      <4>1. RunOK(r) /\ r \notin Rows' /\ ~runs'[r].old /\ (Past(r)' <=> Past(r))
        BY <2>1, <3>1 DEF Resources, Rows, NoRow, Past
      <4>2. /\ \A q \in Procs : InClaimOf(q, r)' <=> InClaimOf(q, r)
            /\ \A q \in Procs : InClaimOf(q, r) => q # "reset" /\ proc'[q] = proc[q]
            /\ Claimed(r)' <=> Claimed(r)
            /\ RemovedRun(r)' <=> RemovedRun(r)
            /\ "cleanup" \in Procs => proc'["cleanup"] = proc["cleanup"]
        BY <1>5, <3>2
      <4>3. ClaimedOnce(r)'
        BY <2>1, <4>1, <4>2 DEF RunOK, ClaimedOnce
      <4>4. ClaimOwns(r)'
        <5>1. ASSUME NEW q \in Procs, InClaimOf(q, r)' PROVE ClaimOK(q, r)'
          <6>1. InClaimOf(q, r) /\ ClaimOK(q, r) /\ proc'[q] = proc[q] /\ q \in cut'
            BY <3>1, <4>1, <4>2, <5>1 DEF RunOK, ClaimOwns, InClaimOf
          <6> QED
            BY <2>1, <3>3, <4>1, <4>2, <6>1 DEF ClaimOK
        <5> QED
          BY <5>1 DEF ClaimOwns
      <4>5. CleanupKnows(r)'
        <5>1. RemovedRun(r) => "cleanup" \in cut'
          BY <3>1 DEF RemovedRun, Removing, At
        <5> QED
          BY <4>1, <4>2, <5>1 DEF CleanupKnows
      <4>6. ResetKnows(r)'
        BY <3>3 DEF ResetKnows
      <4>7. RowHasTree(r)'
        BY <4>1 DEF RowHasTree
      <4>8. BoxHasRow(r)' /\ TreeHasRow(r)'
        <5>1. ResetAt({"workers", "trees", "dropping"}) /\ ResetAt({"trees", "dropping"})
              /\ ResetAt({"dropping"})
          BY <1>0, <2>1 DEF ResetAt, At
        <5>2. r \in Rows => r \in hist.late \/ (r \notin box /\ r \notin tree)
          BY <1>12, <3>1, <5>1 DEF ResetKnows
        <5> QED
          BY <2>1, <4>1, <4>2, <5>2 DEF RunOK, BoxHasRow, TreeHasRow
      <4> QED
        BY <4>3, <4>4, <4>5, <4>6, <4>7, <4>8 DEF RunOK
    <3> QED
      BY <3>4 DEF Resources
  <2> QED
    BY <2>2, <2>3
<1> QED
  BY <1>6, <1>7, <1>8, <1>10, <1>13, <1>14, <1>15 DEF Reset

-----------------------------------------------------------------------------
(* A crash, and what a reset cuts off *)

LEMMA CrashRuns ==
  ASSUME LockInv, Resources, NEW p \in Procs, Crash(p)
  PROVE  Resources'
<1>0. /\ proc \in [Procs -> ProcType] /\ hist \in HistType
      /\ UNCHANGED <<runs, of, cut, tree, box, plans>>
      /\ proc' = [proc EXCEPT ![p] = Done] /\ txn' = IF txn = p THEN Nobody ELSE txn
      /\ hist' = [hist EXCEPT
            !.silent = @ \cup ({p} \cap Starters),
            !.lost = IF proc[p].at = "claiming" THEN @ \cup {proc[p].run} ELSE @,
            !.gone = IF p = "cleanup" /\ proc[p].at = "deleting" THEN @ \cup {proc[p].run} ELSE @]
  BY DEF Crash, LockInv, Types, claims, disk
<1>1. Others(p) /\ proc'[p].at = "gone" /\ proc'[p].run = 0
  BY <1>0, Ends DEF Others
<1>2. /\ Grows
      /\ proc[p].at = "claiming" => proc[p].run \in hist'.lost
      /\ p = "cleanup" /\ proc[p].at = "deleting" => proc[p].run \in hist'.gone
  BY <1>0 DEF Grows, HistType
<1>3. "gone" \notin Busy /\ "gone" \notin Claiming
  BY DEF Busy, Claiming
<1>4. p # "cleanup" /\ txn = "cleanup" => txn' = "cleanup"
  BY <1>0
<1>5. CASE proc[p].at \in Claiming
  <2>1. PICK x \in Runs : x = proc[p].run /\ InClaimOf(p, x) /\ RunOK(x)
    BY <1>5 DEF LockInv, Assigned, InClaimOf, Resources
  <2>2. ClaimOK(p, x) /\ p \notin {"cleanup", "reset"}
    BY <2>1, ClaimKnows
  <2>3. x \in tree' => x \in Rows' \cup hist'.lost \cup hist'.late
    BY <1>0, <1>2, <2>1, <2>2 DEF ClaimOK, Rows, Grows
  <2>4. ~InClaimOf(p, x)' /\ Rows' = Rows
    BY <1>0, <1>1, <1>3 DEF InClaimOf, Rows
  <2>5. RunOK(x)'
    BY <1>0, <1>1, <1>2, <2>1, <2>3, <2>4, ClaimEnds
  <2> QED
    BY <1>0, <1>1, <1>2, <1>3, <1>4, <2>1, <2>2, <2>5, ClaimApart
<1>6. CASE p = "cleanup" /\ Removing
  <2>1. PICK x \in Runs : x = proc["cleanup"].run /\ RemovedRun(x) /\ RunOK(x)
    BY <1>6 DEF LockInv, Assigned, RemovedRun, Resources
  <2>2. ~RemovedRun(x)' /\ ~Removing' /\ Rows' = Rows
    BY <1>0, <1>1, <1>6 DEF RemovedRun, Removing, At, Rows
  <2>3. At("cleanup", "deleting") => x \in hist'.gone
    BY <1>2, <1>6, <2>1 DEF At
  <2>4. proc["cleanup"].at \notin Claiming
    BY <1>6 DEF Removing, At, Claiming
  <2>5. RunOK(x)'
    BY <1>0, <1>1, <1>2, <1>3, <1>6, <2>1, <2>2, <2>3, RemovalKeeps
  <2> QED
    BY <1>0, <1>1, <1>2, <1>3, <1>6, <2>1, <2>2, <2>4, <2>5, RemovalApart DEF SamePlans
<1>7. CASE p = "cleanup" /\ proc[p].at \notin Claiming /\ ~Removing
  <2>1. ASSUME NEW r \in Runs PROVE Apart(p, r)
    BY <1>0, <1>1, <1>2, <1>3, <1>7 DEF Apart, SameRun, SamePlans, InClaimOf, RemovedRun,
       Removing, At
  <2> QED
    BY <2>1, ApartKeeps DEF Resources
<1>8. CASE p # "cleanup" /\ proc[p].at \notin Claiming
  <2>1. ~Resetting' \/ p # "reset"
    BY <1>1 DEF Resetting, At
  <2>2. ASSUME NEW r \in Runs PROVE Apart(p, r)
    BY <1>0, <1>1, <1>2, <1>3, <1>4, <1>8, <2>1 DEF Apart, SameRun, SamePlans, InClaimOf
  <2> QED
    BY <2>2, ApartKeeps DEF Resources
<1> QED
  BY <1>5, <1>6, <1>7, <1>8

\* A step leaves nobody waiting for its command who had begun it.
Begun == \A q \in Procs : proc'[q].at = "idle" => proc[q].at = "idle"

LEMMA GoesBegun ==
  ASSUME proc \in [Procs -> ProcType], NEW p \in Procs,
         \/ \E where \in Places \ {"idle"} : Goto(p, where)
         \/ proc' = [proc EXCEPT ![p] = Done]
         \/ Return(p) \/ ReturnError(p)
  PROVE  Begun
<1>1. CASE \E where \in Places \ {"idle"} : Goto(p, where)
  BY <1>1, Goes DEF Begun
<1>2. CASE proc' = [proc EXCEPT ![p] = Done]
  BY <1>2, Ends DEF Begun
<1>3. CASE Return(p) \/ ReturnError(p)
  BY <1>3, Returns DEF Begun
<1> QED
  BY <1>1, <1>2, <1>3

LEMMA CutKept ==
  ASSUME OnlyOperatorsCut, Types, Begun, cut' = cut
  PROVE  OnlyOperatorsCut'
BY DEF OnlyOperatorsCut, Begun, Types, StoreTypes

LEMMA CutStays ==
  ASSUME LockInv, OnlyOperatorsCut, Next
  PROVE  OnlyOperatorsCut'
<1>0. proc \in [Procs -> ProcType] /\ Types
  BY DEF LockInv, Types
<1>1. ASSUME NEW p \in Procs,
             OpenLock(p) \/ TryLock(p) \/ RecordOwner(p) \/ Release(p) \/ Crash(p)
      PROVE  OnlyOperatorsCut'
  <2>1. cut' = cut
    BY <1>1 DEF OpenLock, TryLock, RecordOwner, Release, Crash, claims
  <2>2. CASE OpenLock(p)
    <3>1. \E n : proc' = [proc EXCEPT ![p] = [proc[p] EXCEPT !.at = "opened", !.fd = n]]
      BY <1>0, <2>2 DEF OpenLock, ProcType
    <3>2. Begun
      BY <1>0, <3>1 DEF Begun, ProcType
    <3> QED
      BY <1>0, <2>1, <3>2, CutKept
  <2>3. CASE TryLock(p) \/ RecordOwner(p) \/ Release(p) \/ Crash(p)
    <3>1. \/ proc' = [proc EXCEPT ![p] = Done]
          \/ Goto(p, "locked") \/ Goto(p, "owner")
      BY <2>3 DEF TryLock, RecordOwner, Release, Crash
    <3>2. Begun
      BY <1>0, <3>1, GoesBegun DEF Places
    <3> QED
      BY <1>0, <2>1, <3>2, CutKept
  <2> QED
    BY <1>1, <2>2, <2>3
<1>2. ASSUME NEW p \in Procs, Claim(p) PROVE OnlyOperatorsCut'
  <2>1. cut' = cut
    BY <1>2 DEF Claim, ClaimBegin, ClaimSave, ClaimRefused, ClaimProject, ClaimInterrupted,
       FailClaimAbandon, FailClaimRecord, FailClaimRemove, claims
  <2>2. CASE ClaimBegin(p)
    <3>1. PICK n \in Runs : proc' = [proc EXCEPT ![p].at = "claiming", ![p].run = n]
      BY <2>2 DEF ClaimBegin, Unclaimed
    <3>2. Begun
      BY <1>0, <3>1 DEF Begun, ProcType
    <3> QED
      BY <1>0, <2>1, <3>2, CutKept
  <2>3. CASE ~ClaimBegin(p)
    <3>1. \/ Goto(p, "saved") \/ Goto(p, "failing") \/ Goto(p, "abandoned") \/ Goto(p, "removing")
          \/ Return(p) \/ ReturnError(p)
      BY <1>2, <2>3 DEF Claim, ClaimSave, ClaimRefused, ClaimProject, ClaimInterrupted,
         FailClaimAbandon, FailClaimRecord, FailClaimRemove
    <3>2. Begun
      BY <1>0, <3>1, GoesBegun DEF Places
    <3> QED
      BY <1>0, <2>1, <3>2, CutKept
  <2> QED
    BY <2>2, <2>3
<1>3. ASSUME UNCHANGED proc, cut' = cut PROVE OnlyOperatorsCut'
  BY <1>0, <1>3, CutKept DEF Begun
<1>4. ASSUME NEW p \in Starters, Start(p) PROVE OnlyOperatorsCut'
  <2>1. cut' = cut /\ p \in Procs
    BY <1>4 DEF Start, startupDiagnosis, startSupervisorHeartbeat, Renew, reconcileRegisteredRun,
       EndLoop, StopHeartbeat, drainPendingEffect, observeLifecycle, driveRun, Retry, claims, Procs
  <2>2. \/ UNCHANGED proc
        \/ \E where \in {"diagnosed", "started", "polling", "stopping", "stopped"} : Goto(p, where)
    BY <1>4 DEF Start, startupDiagnosis, startSupervisorHeartbeat, Renew, reconcileRegisteredRun,
       EndLoop, StopHeartbeat, drainPendingEffect, observeLifecycle, driveRun, Retry
  <2>3. UNCHANGED proc \/ Begun
    BY <1>0, <2>1, <2>2, GoesBegun DEF Places
  <2> QED
    BY <1>0, <1>3, <2>1, <2>3, CutKept
<1>5. CASE requestCoordinatorStop
  <2>1. \/ proc' = [proc EXCEPT !["stop"] = [Idle EXCEPT !.at = "stopped", !.fd = path]]
        \/ proc' = [proc EXCEPT !["stop"] = Done]
    BY <1>5 DEF requestCoordinatorStop
  <2>2. Begun
    BY <1>0, <2>1 DEF Begun, Done, Idle
  <2> QED
    BY <1>0, <1>5, <2>2, CutKept DEF requestCoordinatorStop, claims
<1>6. CASE Cleanup
  <2>1. cut' = cut /\ "cleanup" \in Procs
    BY <1>6 DEF Cleanup, CleanupPlan, BeginCleanup, CleanupWorkers, CleanupTree, CleanupCommit,
       CleanupRollback, CleanupIdle, claims, At
  <2>2. \/ \E where \in {"listed", "workers", "deleting"} : Goto("cleanup", where)
        \/ proc' = [proc EXCEPT !["cleanup"] = Done]
        \/ \E n : proc' = [proc EXCEPT !["cleanup"].at = "reserved", !["cleanup"].run = n]
    BY <1>6 DEF Cleanup, CleanupPlan, BeginCleanup, CleanupWorkers, CleanupTree, CleanupCommit,
       CleanupRollback, CleanupIdle
  <2>3. CASE \E n : proc' = [proc EXCEPT !["cleanup"].at = "reserved", !["cleanup"].run = n]
    <3>1. Begun
      BY <1>0, <2>3 DEF Begun, ProcType
    <3> QED
      BY <1>0, <2>1, <3>1, CutKept
  <2>4. CASE ~\E n : proc' = [proc EXCEPT !["cleanup"].at = "reserved", !["cleanup"].run = n]
    <3>1. Begun
      BY <1>0, <2>1, <2>2, <2>4, GoesBegun DEF Places
    <3> QED
      BY <1>0, <2>1, <3>1, CutKept
  <2> QED
    BY <2>3, <2>4
<1>7. CASE Reset
  <2>1. ("reset" \in Procs /\ proc["reset"].at # "idle") \/ ResetPlan
    BY <1>7 DEF Reset, ResetPlan, applyResetLifecycleTransition, ResetApplied, ResetReplan,
       ResetWorkers, ResetTrees, ResetStore, ResetUnlink, ResetConfig, ResetStopped, At
  <2>2. "reset" \in Procs
    BY <2>1 DEF ResetPlan, At
  <2>3. Begun
    <3>1. CASE ResetWorkers \/ ResetTrees
      <4>1. \/ \E done \in {"trees", "dropping"} : proc' = [proc EXCEPT !["reset"].at = done]
            \/ \E done \in {"trees", "dropping"} :
                 proc' = [proc EXCEPT !["reset"].at = done, !["reset"].bad = TRUE]
        BY <3>1 DEF ResetWorkers, ResetTrees, Attempt
      <4> QED
        BY <1>0, <2>2, <4>1 DEF Begun, ProcType
    <3>2. CASE ResetPlan
      <4>1. \/ proc' = [proc EXCEPT !["reset"] = Done]
            \/ proc' = [proc EXCEPT !["reset"] = [Idle EXCEPT !.at = "planned"]]
        BY <3>2 DEF ResetPlan
      <4> QED
        BY <1>0, <2>2, <4>1 DEF Begun, Done, Idle
    <3>3. CASE ~(ResetWorkers \/ ResetTrees \/ ResetPlan)
      <4>1. \/ UNCHANGED proc
            \/ \E where \in {"applied", "workers", "unlinking", "unlinked", "stopped"} : Goto("reset", where)
        BY <1>7, <3>3 DEF Reset, applyResetLifecycleTransition, ResetApplied, ResetReplan,
           ResetStore, ResetUnlink, ResetConfig, ResetStopped
      <4> QED
        BY <1>0, <2>2, <4>1, GoesBegun DEF Places, Begun
    <3> QED
      BY <3>1, <3>2, <3>3
  <2>4. CASE cut' = cut
    BY <1>0, <2>3, <2>4, CutKept
  <2>5. CASE cut' # cut
    <3>1. /\ At("reset", "dropping")
          /\ cut' = cut \cup {p \in Procs : proc[p].at \in Claiming \cup {"listed", "reserved", "workers", "deleting"}}
      BY <1>7, <2>5 DEF Reset, ResetPlan, applyResetLifecycleTransition, ResetApplied, ResetReplan,
         ResetWorkers, ResetTrees, ResetStore, ResetUnlink, ResetConfig, ResetStopped, claims
    <3>2. ASSUME NEW p \in Procs, proc[p].at \in Claiming \cup {"listed", "reserved", "workers", "deleting"}
          PROVE  p \in {"issue", "cleanup"} /\ proc[p].at # "idle"
      <4>1. p \notin Starters
        BY <3>1, <3>2, ResetAlone DEF Claiming
      <4>2. p # "reset" /\ p # "stop"
        BY <3>1, <3>2, PlacesAre DEF LockInv, InPlace, At, Claiming
      <4> QED
        BY <3>2, <4>1, <4>2, PlacesAre DEF Claiming
    <3> QED
      BY <1>0, <2>3, <3>1, <3>2 DEF OnlyOperatorsCut, Begun, Types, StoreTypes
  <2> QED
    BY <2>4, <2>5
<1>8. CASE Expire \/ (\E r \in Runs : Age(r)) \/ (\E i \in Issues : Human(i))
  BY <1>3, <1>8 DEF Expire, Age, Human, claims
<1> QED
  BY <1>1, <1>2, <1>4, <1>5, <1>6, <1>7, <1>8 DEF Next

LEMMA ResourcesStart == Init => OnlyOperatorsCut /\ Resources
<1> SUFFICES ASSUME Init PROVE OnlyOperatorsCut /\ Resources
  OBVIOUS
<1>1. /\ \A p \in Procs : proc[p] = Idle
      /\ \A r \in Runs : of[r] = 0 /\ runs[r] = NoRow
      /\ cut = {} /\ tree = {} /\ box = {} /\ plans.cleanup = {} /\ plans.reset = {}
  BY DEF Init
<1>2. \A p \in Procs, r \in Runs : ~InClaimOf(p, r)
  BY <1>1 DEF InClaimOf, Idle, Claiming
<1>3. ~Removing /\ Rows = {} /\ \A r \in Runs : ~runs[r].old
  BY <1>1 DEF Removing, At, Idle, Rows, NoRow
<1>4. ASSUME NEW r \in Runs PROVE RunOK(r)
  BY <1>1, <1>2, <1>3 DEF RunOK, ClaimedOnce, ClaimOwns, CleanupKnows, ResetKnows, RowHasTree,
     BoxHasRow, TreeHasRow, Claimed, RemovedRun
<1> QED
  BY <1>1, <1>4 DEF OnlyOperatorsCut, Resources

LEMMA HostAlways == Spec => []HostInv
<1>1. Init => HostInv
  BY LockStarts, ResourcesStart DEF HostInv
<1>2. LockInv /\ [Next]_vars => LockInv'
  BY LockStep
<1>3. HostInv /\ [Next]_vars => HostInv'
  <2>1. ASSUME HostInv, Next PROVE OnlyOperatorsCut' /\ Resources'
    <3>1. OnlyOperatorsCut'
      BY <2>1, CutStays DEF HostInv
    <3>2. Resources'
      BY <2>1, LockRuns, ClaimRuns, CrashRuns, StartRuns, WorldRuns, CleanupRuns, ResetRuns
         DEF HostInv, Next
    <3> QED
      BY <3>1, <3>2
  <2>2. ASSUME HostInv, UNCHANGED vars PROVE OnlyOperatorsCut' /\ Resources'
    <3>1. RowsOnly /\ UNCHANGED runs
      BY <2>2 DEF vars, claims, disk, RowsOnly, Grows
    <3>2. Resources'
      BY <2>2, <3>1, StillKeeps DEF HostInv
    <3> QED
      BY <3>1, <3>2, <2>2 DEF HostInv, OnlyOperatorsCut, RowsOnly
  <2> QED
    BY <1>2, <2>1, <2>2 DEF HostInv
<1> QED
  BY <1>1, <1>3, PTL DEF Spec

\* claim.go:776, cleanup.go:149, reset.go:290 - rows, worktrees and worker
\* resources agree both ways, however claims, a cleanup, a reset, retries and
\* crashes interleave.
THEOREM ResourcesAgree == Spec => []ResourcesFollowRows
<1>1. HostInv => ResourcesFollowRows
  <2> SUFFICES ASSUME HostInv PROVE NoOrphan /\ LiveRunHasTree
    BY DEF ResourcesFollowRows
  <2>0. tree \subseteq Runs /\ box \subseteq Runs /\ \A r \in Runs : RunOK(r)
    BY DEF HostInv, LockInv, Types, StoreTypes, Resources
  <2>1. NoOrphan
    BY <2>0 DEF RunOK, BoxHasRow, TreeHasRow, NoOrphan, Claimed, InClaimOf
  <2>2. LiveRunHasTree
    <3> SUFFICES ASSUME NEW r \in Current PROVE r \in tree \cup hist.gone \cup hist.late
      BY DEF LiveRunHasTree
    <3>1. r \in Runs /\ r \in Rows
      BY DEF Current, Rows
    <3>2. ~(RemovedRun(r) /\ "cleanup" \notin cut)
      BY <2>0, <3>1 DEF RunOK, CleanupKnows
    <3> QED
      BY <2>0, <3>1, <3>2 DEF RunOK, RowHasTree, Past
  <2> QED
    BY <2>1, <2>2
<1> QED
  BY HostAlways, <1>1, PTL
==============================================================================
