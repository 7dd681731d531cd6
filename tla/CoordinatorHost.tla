--------------------------- MODULE CoordinatorHost ---------------------------
(***************************************************************************)
(* The processes of one registered checkout and the local resources they   *)
(* share: factory start (lock.go, supervisor.go, polling.go), which owns   *)
(* the kernel lock, renews the heartbeat row, claims issues (claim.go) and *)
(* observes their lifecycle (lifecycle.go); factory stop; factory issue,   *)
(* which claims without the lock; factory cleanup (cleanup.go); and        *)
(* factory reset (reset.go), which takes the lock, deletes every resource, *)
(* the store, the lock file and the configuration.                         *)
(*                                                                         *)
(* A process runs once, so a process stands for its process id.  What a    *)
(* run does between its claim and its end is in RunProgression, what a     *)
(* journaled transition does step by step in EffectJournal: here it is one *)
(* step that either completes or leaves its reservation behind.            *)
(***************************************************************************)
EXTENDS Naturals, FiniteSets

CONSTANTS Starters,     \* the factory start processes
          Operators,      \* which of the commands below the operator runs
          Issues,       \* issue numbers
          MaxRuns,      \* bound: runs created by claims
          MaxInodes,    \* bound: lock files created at the path
          MaxFaults,    \* bound: failed calls, late renewals and crashes
          MaxCommands,  \* bound: operator commands and human acts on GitHub
          Nobody

Commands == {"stop", "issue", "cleanup", "reset"}
Procs  == Starters \cup Operators
Runs   == 1..MaxRuns
Inodes == 1..MaxInodes

ASSUME HostAssumption ==
    /\ Nobody \notin Starters \cup Commands /\ Starters \cap Commands = {}
    /\ Operators \subseteq Commands
    /\ Issues \subseteq Nat \ {0} /\ MaxRuns \in Nat \ {0} /\ MaxInodes \in Nat \ {0}
    /\ MaxFaults \in Nat /\ MaxCommands \in Nat

VARIABLES
    path,    \* the inode linked at the lock path, 0 for none
    made,    \* inodes created so far
    flock,   \* who holds the advisory lock of an inode
    owner,   \* the process id written in an inode
    config,  \* the host configuration exists
    stored,  \* the operational database exists
    beat,    \* the heartbeat row: who wrote it, and is it unexpired
    runs,    \* the run rows
    of,      \* the issue a run was claimed from, 0 before its claim
    cut,     \* processes whose open store handle is an unlinked file
    txn,     \* who holds SQLite's write reservation across calls
    tree,    \* runs whose worktree and branch exist
    box,     \* runs whose worker resources exist
    issue,   \* GitHub: state and factory label of an issue
    proc,    \* where each process is, its lock descriptor, its run
    plans,   \* the runs planned for removal by cleanup and by reset
    told,    \* processes that received SIGTERM
    hist,    \* what the properties must know of the past
    faults, cmds

kernel == <<path, made, flock, owner>>
host   == <<config, stored>>
disk   == <<tree, box>>
bounds == <<faults, cmds>>
claims == <<of, cut>>
vars   == <<kernel, host, beat, runs, claims, txn, disk, issue, proc, plans, told, hist, bounds>>

Terminal == {"complete", "cancelled", "failed"}
\* status "none": no row.  pending: the status that the reserved transition of
\* the run will store, or "none".
NoRow == [status |-> "none", pending |-> "none", old |-> FALSE]
Idle  == [at |-> "idle", fd |-> 0, run |-> 0, bad |-> FALSE]

LabelOf(status) == IF status = "active" THEN "running" ELSE status

Rows    == {r \in Runs : runs[r].status # "none"}
Current == {r \in Rows : runs[r].status \notin Terminal}

At(p, where) == p \in Procs /\ proc[p].at = where
Goto(p, where) == proc' = [proc EXCEPT ![p].at = where]
Done == [Idle EXCEPT !.at = "gone"]
Faults(n) == faults + n <= MaxFaults /\ faults' = faults + n
Command  == cmds < MaxCommands /\ cmds' = cmds + 1

\* A process that reads and writes the store: the opener creates an absent
\* one, and a write waits for a cleanup that holds the write reservation.
Writable == txn = Nobody

\* Where a process can be: a stage of its command, or not yet or no longer one.
Places == {"idle", "gone", "diagnosed", "planned", "opened", "locked", "owner", "started", "polling", "stopping",
           "stopped", "claiming", "saved", "failing", "abandoned", "removing", "listed", "reserved", "workers",
           "deleting", "applied", "trees", "dropping", "unlinking", "unlinked"}
Statuses == {"none", "active"} \cup Terminal

TypeOK ==
    /\ path \in 0..MaxInodes /\ made \in 0..MaxInodes
    /\ flock \in [Inodes -> Procs \cup {Nobody}] /\ owner \in [Inodes -> Procs \cup {Nobody}]
    /\ config \in BOOLEAN /\ stored \in BOOLEAN
    /\ beat \in [pid : Procs \cup {Nobody}, live : BOOLEAN]
    /\ of \in [Runs -> Issues \cup {0}] /\ cut \subseteq Procs
    /\ runs \in [Runs -> [status : Statuses, pending : Statuses, old : BOOLEAN]]
    /\ txn \in Procs \cup {Nobody} /\ tree \subseteq Runs /\ box \subseteq Runs
    /\ issue \in [Issues -> [state : {"open", "closed", "merged"},
                            label : {"ready", "running"} \cup Terminal]]
    /\ proc \in [Procs -> [at : Places, fd : 0..MaxInodes, run : 0..MaxRuns, bad : BOOLEAN]]
    /\ plans \in [cleanup : SUBSET Runs, reset : SUBSET Runs] /\ told \subseteq Procs
    /\ hist \in [orphan : BOOLEAN, silent : SUBSET Starters, lost : SUBSET Runs,
                 gone : SUBSET Runs, adrift : SUBSET Runs, late : SUBSET Runs]
    /\ faults \in Nat /\ cmds \in Nat


Init ==
    /\ path = 0 /\ made = 0
    /\ flock = [n \in Inodes |-> Nobody] /\ owner = [n \in Inodes |-> Nobody]
    /\ config = TRUE /\ stored = TRUE
    /\ beat = [pid |-> Nobody, live |-> FALSE]
    /\ runs = [r \in Runs |-> NoRow] /\ of = [r \in Runs |-> 0] /\ cut = {} /\ txn = Nobody
    /\ tree = {} /\ box = {}
    /\ issue = [i \in Issues |-> [state |-> "open", label |-> "ready"]]
    /\ proc = [p \in Procs |-> Idle] /\ plans = [cleanup |-> {}, reset |-> {}] /\ told = {}
    /\ hist = [orphan |-> FALSE,  \* the lock file was unlinked under another opener
               silent |-> {},     \* processes that ended without an expired heartbeat
               lost   |-> {},     \* runs whose worktree a claim could not remove
               gone   |-> {},     \* rows kept although their worktree was removed
               adrift |-> {},     \* claims that finished without their label edit
               late   |-> {}]     \* runs whose claim ran beside the end of a reset
    /\ faults = 0 /\ cmds = 0

-----------------------------------------------------------------------------
(***************************************************************************)
(* The kernel lock.  It follows the open file, the path follows the inode. *)
(***************************************************************************)
Unlocked(p) == [n \in Inodes |-> IF flock[n] = p THEN Nobody ELSE flock[n]]

\* openPrivateLockFile with create: the linked inode, or a new one.
OpenLock(p) ==
    /\ At(p, "diagnosed") \/ At(p, "planned")
    /\ IF path # 0
       THEN proc' = [proc EXCEPT ![p].at = "opened", ![p].fd = path] /\ UNCHANGED <<path, made>>
       ELSE /\ made < MaxInodes /\ made' = made + 1 /\ path' = made + 1
            /\ proc' = [proc EXCEPT ![p].at = "opened", ![p].fd = made + 1]
    /\ UNCHANGED <<flock, owner, host, beat, runs, claims, txn, disk, issue, plans, told, hist, bounds>>

\* flock(LOCK_EX|LOCK_NB)
LockIsFree(n) == flock[n] = Nobody

TryLock(p) ==
    /\ At(p, "opened")
    /\ IF LockIsFree(proc[p].fd)
       THEN flock' = [flock EXCEPT ![proc[p].fd] = p] /\ Goto(p, "locked")
       ELSE proc' = [proc EXCEPT ![p] = Done] /\ UNCHANGED flock
    /\ UNCHANGED <<path, made, owner, host, beat, runs, claims, txn, disk, issue, plans, told, hist, bounds>>

\* Truncate, write and sync of the process id.
RecordOwner(p) ==
    /\ At(p, "locked") /\ owner' = [owner EXCEPT ![proc[p].fd] = p] /\ Goto(p, "owner")
    /\ UNCHANGED <<path, made, flock, host, beat, runs, claims, txn, disk, issue, plans, told, hist, bounds>>

\* Mutant: the released lock file is unlinked.
releaseAndUnlink(p) == flock' = Unlocked(p) /\ path' = 0

\* releaseCoordinatorFile: unlock and close, retaining the inode.
release(p) == flock' = Unlocked(p) /\ UNCHANGED path

Release(p) ==
    /\ At(p, "stopped") /\ release(p) /\ proc' = [proc EXCEPT ![p] = Done]
    /\ UNCHANGED <<made, owner, host, beat, runs, claims, txn, disk, issue, plans, told, hist, bounds>>

-----------------------------------------------------------------------------
(***************************************************************************)
(* factory start.                                                          *)
(***************************************************************************)
\* The read-only diagnosis needs the configuration and an existing store.
startupDiagnosis(p) ==
    /\ p \in Starters /\ At(p, "idle") /\ config /\ stored
    /\ Goto(p, "diagnosed")
    /\ UNCHANGED <<kernel, host, beat, runs, claims, txn, disk, issue, plans, told, hist, bounds>>

SaveSupervisorHeartbeat(p, live) == beat' = [pid |-> p, live |-> live]

\* The initial heartbeat; its failure is only reported.
startSupervisorHeartbeat(p) ==
    /\ p \in Starters /\ At(p, "owner") /\ Writable /\ Goto(p, "started") /\ stored' = TRUE
    /\ \/ SaveSupervisorHeartbeat(p, TRUE) /\ UNCHANGED faults
       \/ Faults(1) /\ UNCHANGED beat
    /\ UNCHANGED <<kernel, config, runs, claims, txn, disk, issue, plans, told, hist, cmds>>

Running(p) == p \in Starters /\ proc[p].at \in {"started", "polling", "claiming", "saved",
                                                "reserved", "failing", "abandoned"}

Renew(p) ==
    /\ Running(p) /\ Writable /\ stored /\ SaveSupervisorHeartbeat(p, TRUE) /\ beat' # beat
    /\ UNCHANGED <<kernel, host, runs, claims, txn, disk, issue, proc, plans, told, hist, bounds>>

\* Time passes: a renewal is late, or its writer is gone.
Expire ==
    /\ beat.live /\ beat' = [beat EXCEPT !.live = FALSE]
    /\ IF Running(beat.pid) THEN Faults(1) ELSE UNCHANGED faults
    /\ UNCHANGED <<kernel, host, runs, claims, txn, disk, issue, proc, plans, told, hist, cmds>>

\* reconcileRegisteredRun, then the loop.
reconcileRegisteredRun(p) ==
    /\ At(p, "started") /\ Goto(p, "polling") /\ UNCHANGED faults
    /\ UNCHANGED <<kernel, host, beat, runs, claims, txn, disk, issue, plans, told, hist, cmds>>

\* Mutant: the lock is released before the heartbeat is stopped.
ReleaseFirst(p) ==
    /\ At(p, "started") \/ At(p, "polling")
    /\ (p \in told /\ UNCHANGED faults) \/ Faults(1)
    /\ flock' = Unlocked(p) /\ Goto(p, "stopping")
    /\ UNCHANGED <<path, made, owner, host, beat, runs, claims, txn, disk, issue, plans, told, hist, cmds>>

\* The loop ends: it was told to, or an error reaches Start.
EndLoop(p) ==
    /\ At(p, "started") \/ At(p, "polling")
    /\ (p \in told /\ UNCHANGED faults) \/ Faults(1)
    /\ Goto(p, "stopping")
    /\ UNCHANGED <<kernel, host, beat, runs, claims, txn, disk, issue, plans, told, hist, cmds>>

\* supervisorHeartbeatLoop.stop: an expired heartbeat, best effort.
StopHeartbeat(p) ==
    /\ At(p, "stopping") /\ Goto(p, "stopped")
    /\ \/ Writable /\ SaveSupervisorHeartbeat(p, FALSE) /\ stored' = TRUE /\ UNCHANGED <<faults, hist>>
       \/ Faults(1) /\ hist' = [hist EXCEPT !.silent = @ \cup {p}] /\ UNCHANGED <<beat, stored>>
    /\ UNCHANGED <<kernel, config, runs, claims, txn, disk, issue, plans, told, cmds>>

-----------------------------------------------------------------------------
(***************************************************************************)
(* The journaled transition of a run (applyStateTransition), whole or left *)
(* behind as a reservation.                                                *)
(***************************************************************************)
SetStatus(r, status) ==
    [runs EXCEPT ![r].status = status, ![r].pending = "none", ![r].old = FALSE]
SetLabel(r, status) == [issue EXCEPT ![of[r]].label = LabelOf(status)]

Transition(r, status) ==
    \/ runs' = SetStatus(r, status) /\ issue' = SetLabel(r, status) /\ UNCHANGED faults
    \/ /\ Faults(1) /\ runs' = [runs EXCEPT ![r].pending = status] /\ UNCHANGED issue

\* readReconciliationRun: the active run, or the latest one.
Observed == IF Current # {} THEN Current ELSE {r \in Rows : \A q \in Rows : q <= r}

Observing(p) == (At(p, "started") \/ At(p, "polling")) /\ Writable /\ stored

\* drainPendingEffect: the reserved transition is replayed.
drainPendingEffect(p) ==
    /\ Observing(p)
    /\ \E r \in Observed : /\ runs[r].pending # "none"
                          /\ runs' = SetStatus(r, runs[r].pending)
                          /\ issue' = SetLabel(r, runs[r].pending)
    /\ UNCHANGED <<kernel, host, beat, claims, txn, disk, proc, plans, told, hist, bounds>>

\* classifyLifecycle
Outcome(r) == CASE issue[of[r]].state = "merged" -> "complete"
                [] issue[of[r]].state = "closed" -> "cancelled"
                [] OTHER -> "unchanged"

observeLifecycle(p) ==
    /\ Observing(p)
    /\ \E r \in Current : /\ runs[r].pending = "none" /\ Outcome(r) # "unchanged"
                          /\ Transition(r, Outcome(r))
    /\ UNCHANGED <<kernel, host, beat, claims, txn, disk, proc, plans, told, hist, cmds>>

\* driveRun starts the run's workers.
driveRun(p) ==
    /\ At(p, "polling") /\ Writable /\ stored
    /\ \E r \in Current : runs[r].pending = "none" /\ r \in tree /\ box' = box \cup {r} /\ box' # box
    /\ UNCHANGED <<kernel, host, beat, runs, claims, txn, tree, issue, proc, plans, told, hist, bounds>>

\* handleRetryCommand on the latest run: a cancelled run needs its issue open.
Retry(p) ==
    /\ At(p, "polling") /\ Writable /\ stored /\ Command /\ Current = {}
    /\ \E r \in Observed :
          /\ \/ runs[r].status = "failed"
             \/ runs[r].status = "cancelled" /\ issue[of[r]].state = "open"
          /\ runs[r].pending = "none" /\ Transition(r, "active")
    /\ UNCHANGED <<kernel, host, beat, claims, txn, disk, proc, plans, told, hist>>

-----------------------------------------------------------------------------
(***************************************************************************)
(* ClaimIssue, by the polling loop or by factory issue, which takes no     *)
(* lock.  Its store handle stays open: after a reset it is a handle of an  *)
(* unlinked database, whose rows nobody else reads.                        *)
(***************************************************************************)
Claiming == {"claiming", "saved", "failing", "abandoned", "removing"}

\* A call of the claim may fail: a fault, a cancelled context or a locked database.
MayFail(p) == ((p \in told \/ ~Writable) /\ UNCHANGED faults) \/ Faults(1)

\* The claim returns: its caller goes on, or ends with the error.
Return(p)     == proc' = [proc EXCEPT ![p] = IF p \in Starters THEN [@ EXCEPT !.at = "polling", !.run = 0]
                                                             ELSE Done]
ReturnError(p) == proc' = [proc EXCEPT ![p] = IF p \in Starters THEN [@ EXCEPT !.at = "stopping", !.run = 0]
                                                              ELSE Done]

Eligible(i) == issue[i].state = "open" /\ issue[i].label = "ready"
Unclaimed   == {r \in Runs : of[r] = 0}

\* A reset has finished its lifecycle pass.
Resetting == \E where \in {"applied", "workers", "trees", "dropping"} : At("reset", where)

\* The worktree and branch of a new run.
Create(i, r) == of' = [of EXCEPT ![r] = i] /\ tree' = tree \cup {r}

\* No active run, an eligible issue (the oldest, or the named one), then
\* Create.
ClaimBegin(p) ==
    /\ \/ p \in Starters /\ At(p, "polling") /\ p \notin told /\ UNCHANGED cmds
       \/ p = "issue" /\ At(p, "idle") /\ Command
    /\ config /\ Current = {} /\ Unclaimed # {} /\ stored' = TRUE
    /\ \E i \in Issues, r \in Unclaimed :
          /\ Eligible(i) /\ (p \in Starters => \A j \in Issues : Eligible(j) => i <= j)
          /\ \A q \in Unclaimed : r <= q
          /\ Create(i, r) /\ proc' = [proc EXCEPT ![p].at = "claiming", ![p].run = r]
          /\ hist' = IF Resetting THEN [hist EXCEPT !.late = @ \cup {r}] ELSE hist
    /\ UNCHANGED <<kernel, config, beat, runs, cut, txn, box, issue, plans, told, faults>>

\* SaveRun of the new row; one_active_run admits a single nonterminal row.
ClaimSave(p) ==
    /\ At(p, "claiming") /\ Goto(p, "saved")
    /\ IF p \in cut
       THEN UNCHANGED runs
       ELSE /\ Writable /\ Current = {}
            /\ runs' = [runs EXCEPT ![proc[p].run] = [NoRow EXCEPT !.status = "active"]]
    /\ UNCHANGED <<kernel, host, beat, claims, txn, disk, issue, plans, told, hist, bounds>>

\* Mutant: a refused claim returns without removing its worktree.
leaveWorkspace(p, n) == Faults(n) /\ UNCHANGED <<tree, hist>>

\* cleanupWorkspace: Remove, whose own failure is only joined to the error.
cleanupWorkspace(p, n) ==
    LET r == proc[p].run IN
    \/ Faults(n) /\ tree' = tree \ {r} /\ hist' = [hist EXCEPT !.gone = @ \cup {r}]
    \/ /\ Faults(IF p \in told THEN n ELSE n + 1)
       /\ UNCHANGED tree /\ hist' = [hist EXCEPT !.lost = @ \cup {r}]

\* A second active run, or a failed call before or in SaveRun.
ClaimRefused(p) ==
    /\ At(p, "claiming") /\ ReturnError(p)
    /\ \/ (p \in told \/ (p \notin cut /\ (~Writable \/ Current # {}))) /\ cleanupWorkspace(p, 0)
       \/ cleanupWorkspace(p, 1)
    /\ UNCHANGED <<kernel, host, beat, runs, claims, txn, box, issue, plans, told, cmds>>

\* The claim transition succeeds: the label is edited and the run stored.
ClaimProject(p) ==
    LET r == proc[p].run IN
    /\ At(p, "saved") /\ Return(p)
    /\ issue' = [issue EXCEPT ![of[r]].label = "running"]
    /\ IF p \in cut
       THEN UNCHANGED runs
       ELSE /\ Writable /\ runs[r].pending = "none" /\ Current \subseteq {r}
            /\ runs' = SetStatus(r, "active")
    /\ UNCHANGED <<kernel, host, beat, claims, txn, disk, plans, told, hist, bounds>>

\* It stops half way: its reservation stays unless it was never written, and
\* the label may have been edited.  A host command timeout returns with the
\* reservation kept; any other error fails the claim.
ClaimInterrupted(p) ==
    LET r == proc[p].run IN
    /\ At(p, "saved") /\ UNCHANGED <<kernel, host, beat, claims, txn, disk, plans, told, hist, cmds>>
    /\ \/ MayFail(p)
       \/ p \notin cut /\ (runs[r].pending # "none" \/ ~(Current \subseteq {r})) /\ UNCHANGED faults
    /\ \/ UNCHANGED <<runs, issue>> /\ Goto(p, "failing")
       \/ /\ issue' \in {issue, [issue EXCEPT ![of[r]].label = "running"]}
          /\ IF p \in cut THEN UNCHANGED runs
             ELSE Writable /\ runs[r].pending = "none" /\ runs' = [runs EXCEPT ![r].pending = "active"]
          /\ (faults' > faults /\ Return(p)) \/ Goto(p, "failing")

\* failClaim: the reservation is abandoned, the failed transition applied.
FailClaimAbandon(p) ==
    /\ At(p, "failing") /\ Goto(p, "abandoned")
    /\ IF p \in cut \/ ~Writable THEN UNCHANGED runs
       ELSE runs' = [runs EXCEPT ![proc[p].run].pending = "none"]
    /\ UNCHANGED <<kernel, host, beat, claims, txn, disk, issue, plans, told, hist, bounds>>

\* When the transition fails, the failed status is stored without its label.
FailClaimRecord(p) ==
    LET r == proc[p].run IN
    /\ At(p, "abandoned") /\ Goto(p, "removing")
    /\ \/ /\ issue' = [issue EXCEPT ![of[r]].label = "failed"]
          /\ p \in cut \/ (Writable /\ runs[r].pending = "none")
          /\ UNCHANGED <<hist, faults>>
       \/ MayFail(p) /\ UNCHANGED issue /\ hist' = [hist EXCEPT !.adrift = @ \cup {r}]
    /\ IF p \in cut \/ ~Writable THEN UNCHANGED runs ELSE runs' = SetStatus(r, "failed")
    /\ UNCHANGED <<kernel, host, beat, claims, txn, disk, plans, told, cmds>>

FailClaimRemove(p) ==
    /\ At(p, "removing") /\ cleanupWorkspace(p, 0) /\ ReturnError(p)
    /\ UNCHANGED <<kernel, host, beat, runs, claims, txn, box, issue, plans, told, cmds>>

-----------------------------------------------------------------------------
(***************************************************************************)
(* factory stop (requestCoordinatorStop).                                  *)
(***************************************************************************)
\* An absent file or a free lock means no coordinator; the free lock is held
\* for the length of the test.  A busy one has the process id to signal.
requestCoordinatorStop ==
    /\ At("stop", "idle") /\ Command /\ config
    /\ IF path # 0 /\ LockIsFree(path)
       THEN /\ flock' = [flock EXCEPT ![path] = "stop"]
            /\ proc' = [proc EXCEPT !["stop"] = [Idle EXCEPT !.at = "stopped", !.fd = path]]
            /\ UNCHANGED told
       ELSE /\ proc' = [proc EXCEPT !["stop"] = Done] /\ UNCHANGED flock
            /\ told' = IF path # 0 /\ owner[path] # Nobody THEN told \cup {owner[path]} ELSE told
    /\ UNCHANGED <<path, made, owner, host, beat, runs, claims, txn, disk, issue, plans, hist, faults>>

-----------------------------------------------------------------------------
(***************************************************************************)
(* factory cleanup, confirmed: one transaction per planned run.            *)
(***************************************************************************)
\* Refuses a run whose transition is half done.
validateRunLocalResources(r) == runs[r].pending = "none"

cleanupTarget(r) == runs[r].status \in Terminal /\ runs[r].old /\ validateRunLocalResources(r)

CleanupPlan ==
    /\ At("cleanup", "idle") /\ Command /\ config
    /\ stored' = TRUE
    /\ plans' = [plans EXCEPT !.cleanup = {r \in Rows : cleanupTarget(r)}]
    /\ Goto("cleanup", "listed")
    /\ UNCHANGED <<kernel, config, beat, runs, claims, txn, disk, issue, told, hist, faults>>

\* Mutant: the planned run is taken as it was planned.
EligibleAsPlanned(r) == TRUE

\* BeginCleanup's test under the write reservation; an absent row is a no-op.
CleanupEligible(r) == runs[r].status \in Terminal /\ runs[r].old

BeginCleanup ==
    /\ At("cleanup", "listed") /\ Writable
    /\ \E r \in plans.cleanup :
          /\ \A q \in plans.cleanup : r <= q
          /\ IF r \in Rows /\ ~CleanupEligible(r)
             THEN proc' = [proc EXCEPT !["cleanup"] = Done] /\ UNCHANGED <<txn, plans>>
             ELSE /\ txn' = "cleanup" /\ plans' = [plans EXCEPT !.cleanup = @ \ {r}]
                  /\ proc' = [proc EXCEPT !["cleanup"].at = "reserved", !["cleanup"].run = r]
    /\ UNCHANGED <<kernel, host, beat, runs, claims, disk, issue, told, hist, bounds>>

\* Worker resources, then the worktree, while the reservation is held.
CleanupWorkers ==
    /\ At("cleanup", "reserved") /\ Goto("cleanup", "workers")
    /\ box' = box \ {proc["cleanup"].run}
    /\ UNCHANGED <<kernel, host, beat, runs, claims, txn, tree, issue, plans, told, hist, bounds>>

CleanupTree ==
    /\ At("cleanup", "workers") /\ Goto("cleanup", "deleting")
    /\ tree' = tree \ {proc["cleanup"].run}
    /\ UNCHANGED <<kernel, host, beat, runs, claims, txn, box, issue, plans, told, hist, bounds>>

Delete(r) == runs' = [runs EXCEPT ![r] = NoRow]

\* Delete and Commit; the plan's next run, or the end.
CleanupCommit ==
    /\ At("cleanup", "deleting") /\ txn' = Nobody
    /\ IF "cleanup" \in cut THEN UNCHANGED runs ELSE Delete(proc["cleanup"].run)
    /\ IF plans.cleanup = {} THEN proc' = [proc EXCEPT !["cleanup"] = Done] ELSE Goto("cleanup", "listed")
    /\ UNCHANGED <<kernel, host, beat, claims, disk, issue, plans, told, hist, bounds>>

CleanupRollback ==
    /\ At("cleanup", "reserved") \/ At("cleanup", "workers") \/ At("cleanup", "deleting")
    /\ Faults(1)
    /\ txn' = Nobody /\ proc' = [proc EXCEPT !["cleanup"] = Done]
    /\ hist' = IF At("cleanup", "deleting") THEN [hist EXCEPT !.gone = @ \cup {proc["cleanup"].run}] ELSE hist
    /\ UNCHANGED <<kernel, host, beat, runs, claims, disk, issue, plans, told, cmds>>

CleanupIdle ==
    /\ At("cleanup", "listed") /\ plans.cleanup = {} /\ proc' = [proc EXCEPT !["cleanup"] = Done]
    /\ UNCHANGED <<kernel, host, beat, runs, claims, txn, disk, issue, plans, told, hist, bounds>>

-----------------------------------------------------------------------------
(***************************************************************************)
(* factory reset, confirmed.                                               *)
(***************************************************************************)
InClaim == {proc[p].run : p \in {q \in Procs : proc[q].at \in Claiming}}

\* buildResetPlan's blockers: a reservation, or a run still live on GitHub.
Blocked == \/ \E r \in Rows : ~validateRunLocalResources(r)
           \/ \E r \in Current : Outcome(r) = "unchanged"

coordinatorLockHeld == path # 0 /\ ~LockIsFree(path)

\* The lock is found free, the store opened if it exists, and the plan built.
ResetPlan ==
    /\ At("reset", "idle") /\ Command /\ config
    /\ proc' = [proc EXCEPT !["reset"] = IF coordinatorLockHeld \/ Blocked THEN Done
                                         ELSE [Idle EXCEPT !.at = "planned"]]
    /\ UNCHANGED <<kernel, host, beat, runs, claims, txn, disk, issue, plans, told, hist, faults>>

\* applyResetLifecycleTransitions, run by run.
applyResetLifecycleTransition ==
    /\ At("reset", "owner") /\ Writable
    /\ \E r \in Current : Outcome(r) # "unchanged" /\ Transition(r, Outcome(r))
    /\ UNCHANGED <<kernel, host, beat, claims, txn, disk, proc, plans, told, hist, cmds>>

LifecycleDone == Current = {}

\* The pass ends: every run has ended, or a live one refuses the reset.
ResetApplied ==
    /\ At("reset", "owner")
    /\ IF LifecycleDone
       THEN Goto("reset", "applied") /\ hist' = [hist EXCEPT !.late = @ \cup InClaim]
       ELSE /\ \E r \in Current : Outcome(r) = "unchanged"
            /\ Goto("reset", "stopped") /\ UNCHANGED hist
    /\ UNCHANGED <<kernel, host, beat, runs, claims, txn, disk, issue, plans, told, bounds>>

\* The plan rebuilt from the resulting rows, or a refusal.
ResetReplan ==
    /\ At("reset", "applied")
    /\ IF Blocked
       THEN Goto("reset", "stopped") /\ UNCHANGED plans
       ELSE Goto("reset", "workers") /\ plans' = [plans EXCEPT !.reset = Rows]
    /\ UNCHANGED <<kernel, host, beat, runs, claims, txn, disk, issue, told, hist, bounds>>

\* Every target is tried; one may fail.
Attempt(set, done, set2) ==
    \/ set2 = set \ plans.reset /\ proc' = [proc EXCEPT !["reset"].at = done] /\ UNCHANGED faults
    \/ /\ \E r \in plans.reset \cap set : set2 = (set \ plans.reset) \cup {r}
       /\ IF "reset" \in told THEN UNCHANGED faults ELSE Faults(1)
       /\ proc' = [proc EXCEPT !["reset"].at = done, !["reset"].bad = TRUE]

ResetWorkers ==
    /\ At("reset", "workers") /\ Attempt(box, "trees", box') /\ UNCHANGED tree
    /\ UNCHANGED <<kernel, host, beat, runs, claims, txn, issue, plans, told, hist, cmds>>

ResetTrees ==
    /\ At("reset", "trees") /\ Attempt(tree, "dropping", tree') /\ UNCHANGED box
    /\ hist' = [hist EXCEPT !.gone = @ \cup (plans.reset \ tree')]
    /\ UNCHANGED <<kernel, host, beat, runs, claims, txn, issue, plans, told, cmds>>

\* Mutant: what could not be removed does not keep the store.
NeverIncomplete == FALSE

Incomplete == proc["reset"].bad

\* removeResetStore, unless a target remains.
ResetStore ==
    /\ At("reset", "dropping")
    /\ IF Incomplete
       THEN Goto("reset", "stopped") /\ UNCHANGED <<stored, runs, cut, txn, beat>>
       ELSE /\ Goto("reset", "unlinking") /\ stored' = FALSE
            /\ runs' = [r \in Runs |-> NoRow] /\ txn' = Nobody /\ beat' = [pid |-> Nobody, live |-> FALSE]
            /\ cut' = cut \cup {p \in Procs : proc[p].at \in Claiming \cup {"listed", "reserved", "workers", "deleting"}}
    /\ UNCHANGED <<kernel, config, of, disk, issue, plans, told, hist, bounds>>

\* removeCoordinatorLock: the path goes, an opened inode stays.
ResetUnlink ==
    /\ At("reset", "unlinking") /\ Goto("reset", "unlinked") /\ path' = 0
    /\ hist' = [hist EXCEPT !.orphan = @ \/ \E p \in Procs \ {"reset"} : proc[p].fd = path /\ path # 0]
    /\ UNCHANGED <<made, flock, owner, host, beat, runs, claims, txn, disk, issue, plans, told, bounds>>

ResetConfig ==
    /\ At("reset", "unlinked") /\ Goto("reset", "stopped") /\ config' = FALSE
    /\ UNCHANGED <<kernel, stored, beat, runs, claims, txn, disk, issue, plans, told, hist, bounds>>

\* An adapter check, a removal or the store's closing fails.
ResetStopped ==
    /\ \E where \in {"owner", "dropping", "unlinking", "unlinked"} : At("reset", where)
    /\ Faults(1) /\ Goto("reset", "stopped")
    /\ UNCHANGED <<kernel, host, beat, runs, claims, txn, disk, issue, plans, told, hist, cmds>>

-----------------------------------------------------------------------------
(***************************************************************************)
(* Crashes, and the people on GitHub.                                      *)
(***************************************************************************)
\* The kernel drops the descriptor's lock, SQLite the open transaction.
Crash(p) ==
    /\ proc[p].at \notin {"idle", "gone"} /\ Faults(1)
    /\ flock' = Unlocked(p) /\ proc' = [proc EXCEPT ![p] = Done]
    /\ txn' = IF txn = p THEN Nobody ELSE txn
    /\ hist' = [hist EXCEPT
          !.silent = @ \cup ({p} \cap Starters),
          !.lost = IF proc[p].at = "claiming" THEN @ \cup {proc[p].run} ELSE @,
          !.gone = IF p = "cleanup" /\ proc[p].at = "deleting" THEN @ \cup {proc[p].run} ELSE @]
    /\ UNCHANGED <<path, made, owner, host, beat, runs, claims, disk, issue, plans, told, cmds>>

\* A run ended more than CleanupRetention ago.
Age(r) ==
    /\ runs[r].status \in Terminal /\ ~runs[r].old
    /\ \A p \in Procs : proc[p].run # r
    /\ runs' = [runs EXCEPT ![r].old = TRUE]
    /\ UNCHANGED <<kernel, host, beat, claims, txn, disk, issue, proc, plans, told, hist, bounds>>

\* People close, merge and reopen, and label an ended issue ready again.
Human(i) ==
    /\ Command
    /\ \/ issue[i].state = "open" /\ \E s \in {"closed", "merged"} : issue' = [issue EXCEPT ![i].state = s]
       \/ issue[i].state = "closed" /\ issue' = [issue EXCEPT ![i].state = "open"]
       \/ issue[i].label \in Terminal /\ issue' = [issue EXCEPT ![i].label = "ready"]
    /\ UNCHANGED <<kernel, host, beat, runs, claims, txn, disk, proc, plans, told, hist, faults>>

Start(p) ==
    \/ startupDiagnosis(p) \/ startSupervisorHeartbeat(p) \/ Renew(p) \/ reconcileRegisteredRun(p)
    \/ EndLoop(p) \/ StopHeartbeat(p) \/ drainPendingEffect(p) \/ observeLifecycle(p) \/ driveRun(p) \/ Retry(p)
Claim(p) ==
    \/ ClaimBegin(p) \/ ClaimSave(p) \/ ClaimRefused(p) \/ ClaimProject(p) \/ ClaimInterrupted(p)
    \/ FailClaimAbandon(p) \/ FailClaimRecord(p) \/ FailClaimRemove(p)
Cleanup == CleanupPlan \/ BeginCleanup \/ CleanupWorkers \/ CleanupTree \/ CleanupCommit \/ CleanupRollback \/ CleanupIdle
Reset ==
    \/ ResetPlan \/ applyResetLifecycleTransition \/ ResetApplied \/ ResetReplan \/ ResetWorkers \/ ResetTrees
    \/ ResetStore \/ ResetUnlink \/ ResetConfig \/ ResetStopped

Next ==
    \/ \E p \in Procs : OpenLock(p) \/ TryLock(p) \/ RecordOwner(p) \/ Release(p) \/ Claim(p) \/ Crash(p)
    \/ \E p \in Starters : Start(p)
    \/ requestCoordinatorStop \/ Cleanup \/ Reset \/ Expire
    \/ \E r \in Runs : Age(r)
    \/ \E i \in Issues : Human(i)

Spec == Init /\ [][Next]_vars

-----------------------------------------------------------------------------
(***************************************************************************)
(* Properties.                                                             *)
(***************************************************************************)
Working(p) == \/ Running(p) \/ At(p, "stopping")
              \/ p = "reset" /\ proc[p].at \in {"owner", "applied", "workers", "trees", "dropping", "unlinking"}

\* lock.go:57 and reset.go:324 - coordinators and a confirmed reset exclude one
\* another, whoever is started, stopped, signalled or killed in between, as
\* long as no reset unlinked the lock file under a process that had opened it.
OneCoordinator == hist.orphan \/ \A p, q \in Procs : Working(p) /\ Working(q) => p = q

\* supervisor.go:37 - an unexpired heartbeat names a process that owns the
\* lock, or one that ended without being able to write an expired one.
HeartbeatHasOwner ==
    beat.live => beat.pid \in hist.silent \/ \E n \in Inodes : flock[n] = beat.pid

\* claim.go:208, cleanup.go:149 and reset.go:337 - a worktree or worker
\* resource belongs to a stored run or to a claim in progress, unless git
\* refused its removal or the claim ran beside the end of a reset.
NoOrphan ==
    \A r \in tree \cup box :
       \/ r \in Rows \cup hist.lost \cup hist.late
       \/ \E p \in Procs : proc[p].run = r /\ proc[p].at \in Claiming

\* store/cleanup.go:28 - no run is active without its worktree, however a
\* retry, a cleanup and a claim interleave; a claim that failed, and a cleanup
\* or reset that could not go on to the row, have removed it knowingly.
LiveRunHasTree == \A r \in Current : r \in tree \cup hist.gone \cup hist.late

\* Rows, worktrees and worker resources agree, both ways (claim.go:776,
\* cleanup.go:149, reset.go:290): neither is left without the other.
ResourcesFollowRows == NoOrphan /\ LiveRunHasTree
=============================================================================
