--------------------------- MODULE HeadlessProcess ---------------------------
(***************************************************************************)
(* The detached process of one invocation: the coordinator's side of the   *)
(* protocol (internal/harness/headless.go, internal/worker/headless.go),   *)
(* the helper inside of the worker that starts, inspects and cancels it    *)
(* (cmd/factory-worker-headless), the supervision of worker commands       *)
(* (internal/worker/command.go) and the container (internal/worker/        *)
(* runtime.go).                                                            *)
(*                                                                         *)
(* The helper is several processes that share the invocation's state       *)
(* directory.  `run` and `cancel` serialize on a lock; `inspect` reads     *)
(* without it, and both `run` and `cancel` record the end of the process   *)
(* after they released it.  `run` is started with docker exec -d, which    *)
(* returns before the helper did anything.  inspect and cancel are worker  *)
(* commands: they outlive a coordinator that stops, and a coordinator that *)
(* gives up on one terminates it.                                          *)
(***************************************************************************)
EXTENDS Naturals, FiniteSets

CONSTANTS
    MaxRuns,     \* bound: `run` helpers started
    MaxCommands, \* bound: worker commands that exist at once
    MaxFaults,   \* bound: stops, time limits, lost answers, survivors
    Continued    \* does the invocation continue the session of an earlier one

Runs == 1..MaxRuns
Cmds == 1..MaxCommands

ASSUME ProcessAssumption ==
    /\ MaxRuns \in Nat /\ MaxCommands \in Nat /\ MaxFaults \in Nat
    /\ Continued \subseteq BOOLEAN

VARIABLES
    box,     \* the container
    file,    \* the state directory in the role volume
    lock,    \* the run helper that holds the state lock, or 0
    runner,  \* the run helpers
    child,   \* the native process each of them started
    cmds,    \* the worker commands with their records
    stranger,\* recorded process number that a restart gave to somebody else
    coord,   \* the operation of the coordinator
    row,     \* the invocation row: is its session known, has it ended
    stopped, \* history: a cancel succeeded and nothing was started since
    late,    \* history: a status written without the lock was not true
    faults

vars == <<box, file, lock, runner, child, cmds, stranger, coord, row, stopped, late, faults>>
disk == <<file, lock>>

Active   == {"starting", "running"}
Statuses == Active \cup {"missing", "exited", "cancelled", "lost"}

\* out: the session that the retained stdout names.
NoState   == [status |-> "missing", pid |-> 0, marker |-> FALSE, out |-> "none"]
NoRunner  == [at |-> "none", replace |-> FALSE]
NoCommand == [op |-> "none", at |-> "none", pid |-> 0, status |-> "missing", out |-> "none",
              term |-> "none", mine |-> FALSE]
Idle == [at |-> "idle", op |-> "none", cmd |-> 0]

Sessions == {"none", "expected", "other"}

FileType    == [status : Statuses, pid : {0} \cup Runs, marker : BOOLEAN, out : Sessions]
RunnerType  == [at : {"none", "spawned", "reserved", "cleared", "starting", "child", "pid",
                      "waiting", "ending", "gone"},
                replace : BOOLEAN]
CommandType == [op : {"none", "inspect", "cancel", "gate"},
                at : {"none", "sent", "vetted", "leader", "body", "read", "lost", "alive", "out",
                      "signalled", "dead", "done", "failed", "stuck"},
                pid : {0} \cup Runs, status : Statuses, out : Sessions,
                term : {"none", "asked", "confirmed", "survived"}, mine : BOOLEAN]
CoordType   == [at : {"idle", "ask", "asked", "exec", "persist", "unavailable"},
                op : {"none", "launch", "discover", "watch", "cancel", "settle", "gate"},
                cmd : {0} \cup Cmds]
RowType     == [known : BOOLEAN, ended : BOOLEAN, continued : BOOLEAN, home : BOOLEAN]

TypeOK ==
    /\ box \in {"absent", "stopped", "running"} /\ file \in FileType
    /\ lock \in {0} \cup Runs /\ stranger \in {0} \cup Runs
    /\ runner \in [Runs -> RunnerType] /\ child \in [Runs -> {"none", "alive", "dead"}]
    /\ cmds \in [Cmds -> CommandType] /\ coord \in CoordType /\ row \in RowType
    /\ stopped \in BOOLEAN /\ late \in BOOLEAN /\ faults \in 0..MaxFaults

Init ==
    /\ box = "running"
    /\ file = NoState /\ lock = 0
    /\ runner = [i \in Runs |-> NoRunner] /\ child = [i \in Runs |-> "none"]
    /\ cmds = [c \in Cmds |-> NoCommand]
    /\ stranger = 0 /\ coord = Idle /\ stopped = FALSE /\ late = FALSE /\ faults = 0
    /\ \E b \in Continued : row = [known |-> b, ended |-> FALSE, continued |-> b, home |-> TRUE]

Faults(n) == faults + n <= MaxFaults /\ faults' = faults + n
Free == lock = 0

\* processAlive: also true of a process that was given the number later.
processAlive(p) == p # 0 /\ (child[p] = "alive" \/ stranger = p)

Living == {i \in Runs : child[i] = "alive"}

-----------------------------------------------------------------------------
(* factory-worker-headless run *)

Move(i, where) == runner' = [runner EXCEPT ![i].at = where]
At(i, where)   == runner[i].at = where

\* Mutant: a fresh start takes a cancelled reservation for free.
MayRunCancelled(i) ==
    IF runner[i].replace
    THEN ~(file.status \in Active \cup {"cancelled"} /\ processAlive(file.pid))
    ELSE file.status \in {"missing", "lost", "cancelled"}

\* runProcess up to its check: a fresh start wants no earlier state, a
\* replacement no live process.
MayRun(i) ==
    IF runner[i].replace
    THEN ~(file.status \in Active \cup {"cancelled"} /\ processAlive(file.pid))
    ELSE file.status \in {"missing", "lost"}

Reserve(i) ==
    /\ At(i, "spawned") /\ Free
    /\ IF MayRun(i) THEN Move(i, "reserved") /\ lock' = i
                    ELSE Move(i, "gone") /\ UNCHANGED lock
    /\ UNCHANGED <<box, file, child, cmds, stranger, coord, row, stopped, late, faults>>

\* clearStateForReplacement keeps the status.
clearStateForReplacement(i) ==
    /\ At(i, "reserved") /\ Move(i, "cleared")
    /\ file' = [NoState EXCEPT !.status = file.status]
    /\ UNCHANGED <<box, lock, child, cmds, stranger, coord, row, stopped, late, faults>>

MarkStarting(i) ==
    /\ At(i, "cleared") /\ Move(i, "starting")
    /\ file' = [file EXCEPT !.status = "starting", !.marker = FALSE]
    /\ UNCHANGED <<box, lock, child, cmds, stranger, coord, row, stopped, late, faults>>

\* exec.Cmd.Start, or recordStartFailure when the command can not start.
StartChild(i) ==
    /\ At(i, "starting")
    /\ \/ /\ child' = [child EXCEPT ![i] = "alive"] /\ Move(i, "child")
          /\ UNCHANGED <<disk, faults>>
       \/ /\ Faults(1) /\ Move(i, "gone")
          /\ file' = [file EXCEPT !.status = "exited"] /\ lock' = 0
          /\ UNCHANGED child
    /\ UNCHANGED <<box, cmds, stranger, coord, row, stopped, late>>

RecordPid(i) ==
    /\ At(i, "child") /\ Move(i, "pid")
    /\ file' = [file EXCEPT !.pid = i]
    /\ UNCHANGED <<box, lock, child, cmds, stranger, coord, row, stopped, late, faults>>

\* status running, the check of the cancel marker, and the release of the
\* lock.  The marker is written under the lock, so it is not there; the signal
\* it would send ends nothing that could not end by itself.
Publish(i) ==
    /\ At(i, "pid") /\ Move(i, "waiting")
    /\ file' = [file EXCEPT !.status = "running"] /\ lock' = 0
    /\ UNCHANGED <<box, child, cmds, stranger, coord, row, stopped, late, faults>>

\* The harness names its session in its first machine event.  Output goes to
\* the file that this helper created, which a replacement unlinks.
Reveal(i) ==
    /\ child[i] = "alive" /\ file.out = "none"
    /\ file.pid = i \/ (file.pid = 0 /\ At(i, "child"))
    /\ \E s \in IF runner[i].replace THEN {"expected", "other"} ELSE {"expected"} :
           file' = [file EXCEPT !.out = s]
    /\ UNCHANGED <<box, lock, runner, child, cmds, stranger, coord, row, stopped, late, faults>>

\* The process ends by itself, by a signal or by the memory limit, and Wait
\* returns.  Until Wait runs it is a zombie, which still looks alive.
ChildEnds(i) ==
    /\ child[i] = "alive" /\ At(i, "waiting")
    /\ child' = [child EXCEPT ![i] = "dead"] /\ Move(i, "ending")
    /\ UNCHANGED <<box, disk, cmds, stranger, coord, row, stopped, late, faults>>

\* A status written without the lock.  It is late when it does not tell of
\* the process that the state names by then, and "lost" also when the helper
\* of the process records its end, before or after.
Record(status, i) ==
    /\ file' = [file EXCEPT !.status = status]
    /\ late' = (late \/ lock # 0 \/ file.pid # i
                    \/ (status = "running" /\ ~processAlive(i))
                    \/ (status = "lost" /\ (~At(i, "gone") \/ file.status \notin Active)))

\* The end of runProcess, without the lock.
RecordEnd(i) ==
    /\ At(i, "ending") /\ Move(i, "gone")
    /\ Record(IF file.marker THEN "cancelled" ELSE "exited", i)
    /\ UNCHANGED <<box, lock, child, cmds, stranger, coord, row, stopped, faults>>

-----------------------------------------------------------------------------
(* Worker commands: the supervisor of internal/worker/command.go *)

Set(c, at) == cmds' = [cmds EXCEPT ![c].at = at]

\* A command nobody waits for leaves nothing but its effects.
Ended(c, at) == cmds' = [cmds EXCEPT ![c] = IF @.mine THEN [@ EXCEPT !.at = at, !.pid = 0] ELSE NoCommand]

InBody(c)  == cmds[c].at \in {"body", "read", "lost", "alive", "out", "signalled", "dead"}
HasLeader(c) == InBody(c) \/ cmds[c].at \in {"leader", "stuck"}

\* Mutant: the supervisor starts a command beside one it could not end.
VetAll(c) ==
    /\ cmds[c].at = "sent" /\ Set(c, "vetted")
    /\ UNCHANGED <<box, disk, runner, child, stranger, coord, row, stopped, late, faults>>

\* superviseCommandScript: refused while a cancelled command is still alive.
Vet(c) ==
    /\ cmds[c].at = "sent"
    /\ IF \E d \in Cmds : cmds[d].term # "none" /\ HasLeader(d)
       THEN Ended(c, "failed") ELSE Set(c, "vetted")
    /\ UNCHANGED <<box, disk, runner, child, stranger, coord, row, stopped, late, faults>>

\* Mutant: the leader does not look for a cancellation.
LeadAnyway(c) ==
    /\ \/ cmds[c].at = "vetted" /\ Set(c, "leader")
       \/ cmds[c].at = "leader" /\ Set(c, "body")
    /\ UNCHANGED <<box, disk, runner, child, stranger, coord, row, stopped, late, faults>>

\* The leader records its process group, and then exits when a cancellation
\* was published before.
Lead(c) ==
    /\ \/ cmds[c].at = "vetted" /\ Set(c, "leader")
       \/ /\ cmds[c].at = "leader"
          /\ IF cmds[c].term = "none" THEN Set(c, "body") ELSE Ended(c, "failed")
    /\ UNCHANGED <<box, disk, runner, child, stranger, coord, row, stopped, late, faults>>

\* terminateCommandScript after it published the cancellation: no record ends
\* it, otherwise it kills the group.  What already runs the command may survive.
Settle(c) ==
    /\ cmds[c].term = "asked"
    /\ \/ /\ ~HasLeader(c) /\ cmds' = [cmds EXCEPT ![c].term = "confirmed"]
       \/ /\ HasLeader(c) /\ cmds' = [cmds EXCEPT ![c].term = "confirmed", ![c].at = "failed"]
       \/ /\ InBody(c) /\ cmds' = [cmds EXCEPT ![c].term = "survived", ![c].at = "stuck"]
    /\ UNCHANGED <<box, disk, runner, child, stranger, coord, row, stopped, late, faults>>

-----------------------------------------------------------------------------
(* factory-worker-headless inspect and cancel *)

BodyRest == <<box, lock, runner, child, stranger, coord, row, stopped, faults>>

\* inspectProcess reads the status, then asks whether the recorded process is
\* alive.
ReadStatus(c) ==
    /\ cmds[c].op = "inspect" /\ cmds[c].at = "body"
    /\ cmds' = [cmds EXCEPT ![c].status = file.status,
                            ![c].at = IF file.status \in Active \cup {"cancelled"} THEN "read" ELSE "out"]
    /\ UNCHANGED <<file, late>> /\ UNCHANGED BodyRest

ReadPid(c) ==
    /\ cmds[c].op = "inspect" /\ cmds[c].at = "read"
    /\ LET p == file.pid IN
       cmds' = [cmds EXCEPT ![c].pid = p,
                    ![c].status = IF processAlive(p) THEN "running" ELSE @,
                    ![c].at = IF processAlive(p) THEN "alive"
                              ELSE IF p # 0 /\ cmds[c].status # "cancelled" THEN "lost" ELSE "out"]
    /\ UNCHANGED <<file, late>> /\ UNCHANGED BodyRest

\* Its corrections of the status, without the lock.
MarkAlive(c) ==
    /\ cmds[c].at = "alive" /\ Set(c, "out")
    /\ IF file.status = "cancelled" THEN Record("running", cmds[c].pid) ELSE UNCHANGED <<file, late>>
    /\ UNCHANGED BodyRest

MarkLost(c) ==
    /\ cmds[c].at = "lost"
    /\ cmds' = [cmds EXCEPT ![c].status = "lost", ![c].at = "out"]
    /\ Record("lost", cmds[c].pid)
    /\ UNCHANGED BodyRest

ReadOutput(c) ==
    /\ cmds[c].at = "out"
    /\ cmds' = [cmds EXCEPT ![c] = IF @.mine THEN [@ EXCEPT !.at = "done", !.pid = 0, !.out = file.out] ELSE NoCommand]
    /\ UNCHANGED <<file, late>> /\ UNCHANGED BodyRest

\* Mutant: a cancellation of nothing leaves nothing behind.
CancelWithoutReservation(c) ==
    /\ cmds[c].op = "cancel" /\ cmds[c].at = "body" /\ Free
    /\ IF file.status \in Active /\ file.pid # 0
       THEN /\ file' = [file EXCEPT !.marker = TRUE]
            /\ cmds' = [cmds EXCEPT ![c].pid = file.pid, ![c].at = "signalled"]
       ELSE /\ file' = [file EXCEPT !.status = IF @ \in Active THEN "cancelled" ELSE @]
            /\ Ended(c, "done")
    /\ UNCHANGED late /\ UNCHANGED BodyRest

\* cancelProcess under the lock.  A cancellation of nothing reserves the state
\* against a helper that has not come to the lock yet.
CancelUnderLock(c) ==
    /\ cmds[c].op = "cancel" /\ cmds[c].at = "body" /\ Free
    /\ IF file.status \in Active /\ file.pid # 0
       THEN /\ file' = [file EXCEPT !.marker = TRUE]
            /\ cmds' = [cmds EXCEPT ![c].pid = file.pid, ![c].at = "signalled"]
       ELSE /\ file' = [file EXCEPT !.status = IF @ \in Active \cup {"missing"} THEN "cancelled" ELSE @]
            /\ Ended(c, "done")
    /\ UNCHANGED late /\ UNCHANGED BodyRest

\* cancelPID: the process with that number disappears or survives the kill.
cancelPID(c) ==
    /\ cmds[c].at = "signalled"
    /\ \/ /\ ~processAlive(cmds[c].pid) /\ Set(c, "dead")
          /\ UNCHANGED <<stranger, faults>>
       \/ /\ stranger = cmds[c].pid /\ stranger' = 0 /\ Set(c, "dead") /\ UNCHANGED faults
       \/ /\ processAlive(cmds[c].pid) /\ Faults(1) /\ Ended(c, "failed") /\ UNCHANGED stranger
    /\ UNCHANGED <<box, disk, runner, child, coord, row, stopped, late>>

\* The last write of cancelProcess, after the lock was released.
MarkCancelled(c) ==
    /\ cmds[c].at = "dead" /\ Ended(c, "done")
    /\ file' = [file EXCEPT !.status = "cancelled"]
    /\ UNCHANGED late /\ UNCHANGED BodyRest

\* The command of a gate or a setup, of any length.
EndGate(c) ==
    /\ cmds[c].op = "gate" /\ cmds[c].at = "body" /\ Ended(c, "done")
    /\ UNCHANGED <<file, late>> /\ UNCHANGED BodyRest

-----------------------------------------------------------------------------
(* The coordinator: internal/worker/headless.go and internal/harness/headless.go *)

CoordRest == <<disk, runner, child, stranger, late>>

\* Drop(c): nobody waits for the command any more.
Drop(c) == [cmds EXCEPT ![c] = IF @.at \in {"done", "failed"} THEN NoCommand ELSE [@ EXCEPT !.mine = FALSE]]

Script(op) == CASE op \in {"launch", "discover", "watch"} -> "inspect"
                [] op \in {"cancel", "settle"} -> "cancel"
                [] op = "gate" -> "gate"

\* The operations of the callers: a start or resume, a liveness observation, a
\* cancellation, a command of a gate.
Begin(op) ==
    /\ coord = Idle
    /\ op = "launch" => ~row.ended /\ row.home
    /\ op = "watch"  => row.known /\ ~row.ended
    /\ coord' = [Idle EXCEPT !.at = "ask", !.op = op]
    /\ UNCHANGED <<box, cmds, row, stopped, faults>> /\ UNCHANGED CoordRest

\* The invocation is over (report accepted, run cancelled): FinishHeadless.
FinishHeadless ==
    /\ coord = Idle /\ ~row.ended
    /\ row' = [row EXCEPT !.ended = TRUE]
    /\ coord' = [Idle EXCEPT !.at = "ask", !.op = "cancel"]
    /\ UNCHANGED <<box, cmds, stopped, faults>> /\ UNCHANGED CoordRest

\* waitForNativeSession and launch after it: the session must be the stored one.
\* A launch that finds none cancels what it started.
Discovered(status, out) ==
    IF out # "none"
    THEN IF row.known THEN IF out = "expected" THEN Idle ELSE [Idle EXCEPT !.at = "ask", !.op = "settle"]
                      ELSE [Idle EXCEPT !.at = "persist"]
    ELSE [Idle EXCEPT !.at = "ask",
                      !.op = IF status \in {"exited", "lost", "cancelled"} THEN "settle" ELSE "discover"]

\* Mutant: a launch trusts a process to be gone that it did not see.
StartOverActive(status) ==
    CASE status \in {"exited", "starting"} /\ ~row.known -> [Idle EXCEPT !.at = "ask", !.op = "discover"]
      [] status \in {"cancelled", "lost"} /\ ~row.known -> [Idle EXCEPT !.at = "exec"]
      [] OTHER -> [Idle EXCEPT !.at = "exec"]

\* StartHeadless: what the observed state means to a fresh or a resumed launch.
StartHeadless(status) ==
    CASE status \in Active \/ (status = "exited" /\ ~row.known) -> [Idle EXCEPT !.at = "ask", !.op = "discover"]
      [] (status \in {"exited", "cancelled", "lost"} /\ row.known) \/ (status = "missing" /\ ~row.known)
             -> [Idle EXCEPT !.at = "exec"]
      [] status \in {"cancelled", "lost"} /\ ~row.known -> Idle
      [] status = "missing" /\ row.known -> [Idle EXCEPT !.at = "unavailable"]

Observed(status, out) ==
    CASE coord.op = "launch"   -> StartHeadless(status)
      [] coord.op = "discover" -> Discovered(status, out)
      [] OTHER -> Idle

\* inspectHeadless and finishHeadless: a container that is not there answers
\* for its process; otherwise a command is sent.
Ask ==
    /\ coord.at = "ask"
    /\ \/ /\ box = "running"
          /\ \E c \in Cmds :
                /\ cmds[c] = NoCommand /\ \A d \in Cmds : d < c => cmds[d] # NoCommand
                /\ cmds' = [cmds EXCEPT ![c] = [NoCommand EXCEPT !.op = Script(coord.op), !.at = "sent", !.mine = TRUE]]
                /\ coord' = [coord EXCEPT !.at = "asked", !.cmd = c]
          /\ UNCHANGED stopped
       \/ /\ box # "running"
          /\ coord' = IF Script(coord.op) = "inspect"
                      THEN Observed(IF box = "absent" THEN "missing" ELSE "lost", "none") ELSE Idle
          /\ stopped' = (stopped \/ Script(coord.op) = "cancel")
          /\ UNCHANGED cmds
    /\ UNCHANGED <<box, row, faults>> /\ UNCHANGED CoordRest

Answered ==
    /\ coord.at = "asked"
    /\ LET c == cmds[coord.cmd] IN
       /\ c.at = "done" /\ c.term = "none"
       /\ coord' = Observed(c.status, c.out)
       /\ stopped' = (stopped \/ c.op = "cancel")
    /\ cmds' = Drop(coord.cmd)
    /\ UNCHANGED <<box, row, faults>> /\ UNCHANGED CoordRest

Failed == IF coord.op = "discover" THEN [Idle EXCEPT !.at = "ask", !.op = "settle"] ELSE Idle

\* An error of the command, or the answer of the terminator.
AskFailed ==
    /\ coord.at = "asked"
    /\ cmds[coord.cmd].at = "failed" \/ cmds[coord.cmd].term \in {"confirmed", "survived"}
    /\ coord' = Failed /\ cmds' = Drop(coord.cmd)
    /\ UNCHANGED <<box, row, stopped, faults>> /\ UNCHANGED CoordRest

\* The time of a command is over: RunCommand terminates it, or can not reach
\* the container and reports that the end is unconfirmed.
TimeLimit ==
    /\ coord.at = "asked" /\ cmds[coord.cmd].term = "none" /\ Faults(1)
    /\ \/ /\ cmds' = [cmds EXCEPT ![coord.cmd].term = "asked"]
          /\ UNCHANGED coord
       \/ coord' = Failed /\ cmds' = Drop(coord.cmd)
    /\ UNCHANGED <<box, row, stopped>> /\ UNCHANGED CoordRest

\* The limit of the discovery between two of its inspections.
DiscoveryTimeout ==
    /\ coord.at = "ask" /\ coord.op = "discover" /\ Faults(1)
    /\ coord' = [coord EXCEPT !.op = "settle"]
    /\ UNCHANGED <<box, cmds, row, stopped>> /\ UNCHANGED CoordRest

\* docker exec -d, whose answer may be lost.
Exec ==
    /\ coord.at = "exec"
    /\ IF box = "running"
       THEN /\ \E i \in Runs : /\ At(i, "none") /\ \A j \in Runs : j < i => ~At(j, "none")
                               /\ runner' = [runner EXCEPT ![i] = [at |-> "spawned", replace |-> row.known]]
            /\ \/ coord' = [Idle EXCEPT !.at = "ask", !.op = "discover"] /\ UNCHANGED faults
               \/ coord' = Idle /\ Faults(1)
            /\ stopped' = FALSE
       ELSE coord' = Idle /\ UNCHANGED <<runner, stopped, faults>>
    /\ UNCHANGED <<box, disk, child, cmds, stranger, row, late>>

\* The invocation row gets the session.
Persist ==
    /\ coord.at = "persist"
    /\ row' = [row EXCEPT !.known = TRUE] /\ coord' = Idle
    /\ UNCHANGED <<box, cmds, stopped, faults>> /\ UNCHANGED CoordRest

\* The resume was refused; the caller pauses its run.
GiveUp ==
    /\ coord.at = "unavailable" /\ coord' = Idle
    /\ UNCHANGED <<box, cmds, row, stopped, faults>> /\ UNCHANGED CoordRest

\* The coordinator stops and starts again.  What runs in the worker goes on.
Crash ==
    /\ coord # Idle /\ Faults(1)
    /\ coord' = Idle
    /\ cmds' = IF coord.cmd = 0 THEN cmds ELSE Drop(coord.cmd)
    /\ UNCHANGED <<box, row, stopped>> /\ UNCHANGED CoordRest

-----------------------------------------------------------------------------
(* The container: Start, Resume, Stop and Cleanup of internal/worker/runtime.go *)

\* Everything in it ends, the records of its commands with it.
BoxIs(state) ==
    /\ box' = state
    /\ runner' = [i \in Runs |-> IF At(i, "none") THEN NoRunner ELSE [runner[i] EXCEPT !.at = "gone"]]
    /\ child' = [i \in Runs |-> IF child[i] = "alive" THEN "dead" ELSE child[i]]
    /\ cmds' = [c \in Cmds |-> IF cmds[c].mine THEN [cmds[c] EXCEPT !.at = "failed"] ELSE NoCommand]
    /\ lock' = 0 /\ stranger' = 0

\* Start and Resume: a running container that fits is left alone, a stopped one
\* starts again, and one of another image or without the mounts that the next
\* invocation needs is removed and created anew around the same role volume.
\* A container that starts may give the recorded process number to another.
Start ==
    /\ coord = Idle /\ ~row.ended
    /\ \/ box = "running" /\ BoxIs("absent") /\ UNCHANGED faults
       \/ /\ box # "running" /\ box' = "running"
          /\ \/ UNCHANGED <<stranger, faults>>
             \/ file.pid # 0 /\ Faults(1) /\ stranger' = file.pid
          /\ UNCHANGED <<runner, child, cmds, lock>>
    /\ UNCHANGED <<file, coord, row, stopped, late>>

Stop ==
    /\ coord = Idle /\ box = "running" /\ BoxIs("stopped")
    /\ UNCHANGED <<file, coord, row, stopped, late, faults>>

\* Cleanup removes the container and the role volume of a run that ended.
Cleanup ==
    /\ coord = Idle /\ row.ended /\ row.home
    /\ BoxIs("absent") /\ file' = NoState
    /\ row' = [row EXCEPT !.home = FALSE]
    /\ UNCHANGED <<coord, stopped, late, faults>>

ContainerDies ==
    /\ box = "running" /\ Faults(1) /\ BoxIs("stopped")
    /\ UNCHANGED <<file, coord, row, stopped, late>>

-----------------------------------------------------------------------------

Helper(i) ==
    \/ Reserve(i) \/ clearStateForReplacement(i) \/ MarkStarting(i) \/ StartChild(i) \/ RecordPid(i)
    \/ Publish(i) \/ Reveal(i) \/ ChildEnds(i) \/ RecordEnd(i)

Supervised(c) ==
    \/ Vet(c) \/ Lead(c) \/ Settle(c)
    \/ ReadStatus(c) \/ ReadPid(c) \/ MarkAlive(c) \/ MarkLost(c) \/ ReadOutput(c)
    \/ CancelUnderLock(c) \/ cancelPID(c) \/ MarkCancelled(c) \/ EndGate(c)

Client ==
    \/ \E op \in {"launch", "watch", "cancel", "gate"} : Begin(op)
    \/ FinishHeadless \/ Ask \/ Answered \/ AskFailed \/ TimeLimit \/ DiscoveryTimeout
    \/ Exec \/ Persist \/ GiveUp \/ Crash

Container == Start \/ Stop \/ Cleanup \/ ContainerDies

Next == (\E i \in Runs : Helper(i)) \/ (\E c \in Cmds : Supervised(c)) \/ Client \/ Container

Spec == Init /\ [][Next]_vars

-----------------------------------------------------------------------------

\* An invocation has at most one native process, whatever answers were lost
\* and whoever stopped: runProcess wants a reservation it can take (main.go:137)
\* and a launch adopts the process it finds (worker/headless.go:148).
OneLiving == Cardinality(Living) <= 1

\* A process that was never known to the coordinator stays down after a
\* cancellation answered success: a helper that comes late to the lock finds
\* the reservation (main.go:306).
CancelStaysDown == stopped /\ ~row.known => Living = {}

\* Both hold while the statuses that are written without the lock are true.  A
\* late one hides a live replacement from the next (docs/worker-runtime.md:47).
ProcessIsAccountedFor == late \/ (OneLiving /\ CancelStaysDown)

\* A worker command whose cancellation began never works beside a later one of
\* the coordinator, and does nothing any more once its termination was confirmed
\* (command.go:34, command.go:118, runtime.go:492).
CancelledCommandsAreAlone ==
    \A c \in Cmds : cmds[c].term # "none" =>
        /\ \A d \in Cmds \ {c} : cmds[d].mine /\ InBody(d) => ~(InBody(c) \/ cmds[c].at = "stuck")
        /\ cmds[c].term = "confirmed" => ~InBody(c)

\* A stored session whose role volume is there, in a worker that runs, is never
\* refused for want of state: a continuation resumes it in the next invocation
\* (docs/agent-runtime.md:304, docs/agent-runtime.md:653).
ContinuedSessionStarts == coord.at = "unavailable" => ~row.home \/ box # "running"

=============================================================================
