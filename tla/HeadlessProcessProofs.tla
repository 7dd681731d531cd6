----------------------- MODULE HeadlessProcessProofs -----------------------
(***************************************************************************)
(* Theorems about the detached process of an invocation, for every number  *)
(* of helpers, worker commands and faults, and with or without a session   *)
(* to continue: types; at most one native process, and none after a        *)
(* cancellation, while no status was written late; a cancelled command     *)
(* never works beside a later one.                                         *)
(***************************************************************************)
EXTENDS HeadlessProcess, TLAPS, FiniteSetTheorems

-----------------------------------------------------------------------------
(* What the parts of the protocol know of one another *)

\* The places of a helper between its reservation and the release of the lock.
Locking == {"reserved", "cleared", "starting", "child", "pid"}

\* main.go runProcess: where a helper stands tells what it holds and recorded.
RunnersInv ==
  /\ \A i \in Runs : child[i] = "alive" => runner[i].at \in {"child", "pid", "waiting"}
  /\ \A i \in Runs : lock = i <=> runner[i].at \in Locking
  /\ \A i \in Runs : file.pid = i => runner[i].at \in {"pid", "waiting", "ending", "gone"}
  /\ \A i \in Runs : runner[i].at = "pid" => file.pid = i
  /\ \A i \in Runs : runner[i].at \in {"cleared", "starting", "child"} => file.pid = 0
  /\ \A i \in Runs : runner[i].at \in {"starting", "child", "pid"} => file.status # "missing"
  /\ file.status = "missing" => file.pid = 0
  /\ \A i \in Runs : stranger = i => runner[i].at = "gone"
  /\ ~row.known => \A i \in Runs : ~runner[i].replace

\* command.go: the coordinator waits for one command, the one it sent.
CoordInv ==
  /\ coord.at = "asked" => /\ coord.cmd \in Cmds /\ cmds[coord.cmd].mine
                           /\ cmds[coord.cmd].op = Script(coord.op)
  /\ coord.at # "asked" => coord.cmd = 0
  /\ coord.at \in {"ask", "asked"} => coord.op # "none"
  /\ \A c \in Cmds : cmds[c].mine => coord.at = "asked" /\ coord.cmd = c
  /\ \A c \in Cmds : cmds[c].at = "none" => cmds[c] = NoCommand
  /\ \A c \in Cmds : cmds[c].at \in {"read", "lost", "alive", "out"} => cmds[c].op = "inspect"
  /\ \A c \in Cmds : cmds[c].at \in {"read", "lost", "alive"} => cmds[c].status # "missing"
  /\ \A c \in Cmds : cmds[c].at = "lost" => cmds[c].pid # 0
  /\ \A c \in Cmds : cmds[c].at \in {"signalled", "dead"} => cmds[c].op = "cancel"

\* runtime.go: nothing runs in a container that does not.
BoxInv ==
  box # "running" =>
    /\ lock = 0 /\ stranger = 0
    /\ \A i \in Runs : runner[i].at \in {"none", "gone"}
    /\ \A c \in Cmds : cmds[c] = NoCommand \/ (cmds[c].mine /\ cmds[c].at = "failed")

\* A command that the supervisor let in.
PastVet(c) == cmds[c].at \in {"vetted", "leader"} \/ InBody(c)

\* command.go superviseCommandScript: who was let in met no cancelled command.
AloneInv ==
  /\ \A c \in Cmds : cmds[c].term = "confirmed" => ~InBody(c)
  /\ \A c, d \in Cmds : c # d /\ cmds[c].term # "none" /\ cmds[d].mine /\ PastVet(d)
                          => ~(InBody(c) \/ cmds[c].at = "stuck")

-----------------------------------------------------------------------------
(* What holds of the process while no status was late *)

\* main.go runProcess: a living process holds the lock, or the state names it.
LivingInv ==
  \A i \in Runs : child[i] = "alive" =>
    lock = i \/ (lock = 0 /\ file.pid = i /\ file.status \in {"running", "cancelled"})

\* The state names a process that ended with its container.
Stale == \E p \in Runs : /\ file.pid = p /\ runner[p].at = "gone"
                         /\ file.status \in Active \cup {"lost"} \/ stranger = p

\* A helper that is still to come to the lock finds the state taken.
Barred == lock = 0 /\ \A i \in Runs : runner[i].at = "spawned" => file.status \notin {"missing", "lost"}

\* main.go:306, worker/headless.go:148: what a first start relies on.
FreshInv ==
  /\ file.status = "lost" => Stale
  /\ \A i \in Runs : runner[i].at = "reserved" => file.pid = 0
  /\ Stale => /\ \A i \in Runs : runner[i].at # "spawned"
              /\ box = "running" => coord.at # "exec"
              /\ \A c \in Cmds : cmds[c].mine /\ cmds[c].op = "inspect" /\ cmds[c].status = "missing"
                                   => cmds[c].at \notin {"out", "done"}
  /\ \A i \in Runs : child[i] = "alive" /\ lock = 0 => file.status = "running"
  /\ \A c \in Cmds : cmds[c].at \in {"signalled", "dead"} => /\ cmds[c].pid \in Runs /\ file.pid = cmds[c].pid
                                                             /\ lock = 0
  /\ \A c \in Cmds : cmds[c].at = "dead" => child[cmds[c].pid] # "alive"
  /\ \A c \in Cmds : cmds[c].mine /\ cmds[c].op = "cancel" /\ cmds[c].at \in {"signalled", "dead", "done"} =>
       /\ Barred
       /\ \A i \in Runs : child[i] = "alive" => cmds[c].at = "signalled" /\ i = cmds[c].pid
  /\ stopped => Barred /\ \A i \in Runs : child[i] # "alive"

\* A late status may name a process that ended, and hide the one that lives: of
\* the process nothing is claimed from then on (docs/worker-runtime.md:47).
ProcessInv == late \/ (LivingInv /\ (row.known \/ FreshInv))

\* The inductive invariant.
HeadlessInv == TypeOK /\ RunnersInv /\ CoordInv /\ BoxInv /\ AloneInv /\ ProcessInv

-----------------------------------------------------------------------------
(* Data *)

RunnerPlaces  == {"none", "spawned", "reserved", "cleared", "starting", "child", "pid",
                  "waiting", "ending", "gone"}
CommandPlaces == {"none", "sent", "vetted", "leader", "body", "read", "lost", "alive", "out",
                  "signalled", "dead", "done", "failed", "stuck"}
Terms         == {"none", "asked", "confirmed", "survived"}

LEMMA RunsAre ==
  0 \notin Runs /\ 0 \notin Cmds /\ Runs \subseteq Nat /\ Cmds \subseteq Nat
BY ProcessAssumption DEF Runs, Cmds

LEMMA NullsAre ==
  /\ NoState \in FileType /\ NoState.status = "missing" /\ NoState.pid = 0
  /\ NoRunner \in RunnerType /\ NoRunner.at = "none" /\ ~NoRunner.replace
  /\ NoCommand \in CommandType /\ NoCommand.at = "none" /\ NoCommand.term = "none" /\ NoCommand.op = "none"
  /\ ~NoCommand.mine /\ NoCommand.status = "missing" /\ NoCommand.pid = 0
  /\ Idle \in CoordType /\ Idle.at = "idle" /\ Idle.cmd = 0 /\ Idle.op = "none"
BY DEF NoState, FileType, NoRunner, RunnerType, NoCommand, CommandType, Idle, CoordType, Statuses, Sessions, Active

LEMMA RowIs ==
  ASSUME NEW r \in RowType PROVE r.known \in BOOLEAN /\ r.ended \in BOOLEAN /\ r.home \in BOOLEAN
BY DEF RowType

LEMMA FileStatus ==
  ASSUME NEW f \in FileType, NEW x \in Statuses
  PROVE  /\ [f EXCEPT !.status = x] \in FileType
         /\ [f EXCEPT !.status = x].status = x /\ [f EXCEPT !.status = x].pid = f.pid
BY DEF FileType

LEMMA FilePid ==
  ASSUME NEW f \in FileType, NEW x \in {0} \cup Runs
  PROVE  /\ [f EXCEPT !.pid = x] \in FileType
         /\ [f EXCEPT !.pid = x].status = f.status /\ [f EXCEPT !.pid = x].pid = x
BY DEF FileType

LEMMA FileOut ==
  ASSUME NEW f \in FileType, NEW x \in Sessions
  PROVE  /\ [f EXCEPT !.out = x] \in FileType
         /\ [f EXCEPT !.out = x].status = f.status /\ [f EXCEPT !.out = x].pid = f.pid
BY DEF FileType

LEMMA FileMarked ==
  ASSUME NEW f \in FileType, NEW x \in BOOLEAN
  PROVE  /\ [f EXCEPT !.marker = x] \in FileType
         /\ [f EXCEPT !.marker = x].status = f.status /\ [f EXCEPT !.marker = x].pid = f.pid
BY DEF FileType

LEMMA FileStarting ==
  ASSUME NEW f \in FileType
  PROVE  /\ [f EXCEPT !.status = "starting", !.marker = FALSE] \in FileType
         /\ [f EXCEPT !.status = "starting", !.marker = FALSE].status = "starting"
         /\ [f EXCEPT !.status = "starting", !.marker = FALSE].pid = f.pid
BY DEF FileType, Statuses, Active

LEMMA FileIs ==
  ASSUME NEW f \in FileType
  PROVE  f.status \in Statuses /\ f.pid \in {0} \cup Runs /\ f.out \in Sessions /\ f.marker \in BOOLEAN
BY DEF FileType

LEMMA RunnersAre ==
  ASSUME NEW f \in [Runs -> RunnerType], NEW i \in Runs
  PROVE  f[i] \in RunnerType /\ f[i].at \in RunnerPlaces /\ f[i].replace \in BOOLEAN
BY DEF RunnerType, RunnerPlaces

LEMMA RunnerAt ==
  ASSUME NEW f \in [Runs -> RunnerType], NEW i \in Runs, NEW x \in RunnerPlaces
  PROVE  /\ [f EXCEPT ![i].at = x] \in [Runs -> RunnerType]
         /\ \A j \in Runs : [f EXCEPT ![i].at = x][j].at = IF j = i THEN x ELSE f[j].at
         /\ \A j \in Runs : [f EXCEPT ![i].at = x][j].replace = f[j].replace
<1>1. PICK r \in RunnerType : r = f[i]
  OBVIOUS
<1>a. /\ [r EXCEPT !.at = x] \in RunnerType
      /\ [r EXCEPT !.at = x].at = x /\ [r EXCEPT !.at = x].replace = r.replace
  BY DEF RunnerType, RunnerPlaces
<1>2. PICK t \in RunnerType : t = [r EXCEPT !.at = x] /\ t.at = x /\ t.replace = r.replace
  BY <1>a
<1>3. [f EXCEPT ![i].at = x] = [f EXCEPT ![i] = t]
  BY <1>1, <1>2
<1>4. /\ [f EXCEPT ![i] = t] \in [Runs -> RunnerType]
      /\ \A j \in Runs : [f EXCEPT ![i] = t][j] = IF j = i THEN t ELSE f[j]
  OBVIOUS
<1> QED
  BY <1>1, <1>2, <1>3, <1>4

LEMMA CommandIs ==
  ASSUME NEW f \in [Cmds -> CommandType], NEW c \in Cmds, NEW k \in CommandType
  PROVE  /\ [f EXCEPT ![c] = k] \in [Cmds -> CommandType]
         /\ \A d \in Cmds : [f EXCEPT ![c] = k][d] = IF d = c THEN k ELSE f[d]
OBVIOUS

LEMMA CommandFields ==
  ASSUME NEW k \in CommandType
  PROVE  /\ k.op \in {"none", "inspect", "cancel", "gate"} /\ k.at \in CommandPlaces
         /\ k.pid \in {0} \cup Runs /\ k.status \in Statuses /\ k.out \in Sessions
         /\ k.term \in Terms /\ k.mine \in BOOLEAN
BY DEF CommandType, CommandPlaces, Terms

LEMMA CoordFields ==
  ASSUME NEW r \in CoordType
  PROVE  /\ r.at \in {"idle", "ask", "asked", "exec", "persist", "unavailable"}
         /\ r.op \in {"none", "launch", "discover", "watch", "cancel", "settle", "gate"}
         /\ r.cmd \in {0} \cup Cmds
BY DEF CoordType

\* The records a step of a command leaves.
PlacedAt(k, x)       == [k EXCEPT !.at = x]
EndedAt(k, x)        == IF k.mine THEN [k EXCEPT !.at = x, !.pid = 0] ELSE NoCommand
Settled(k, t)        == [k EXCEPT !.term = t]
SettledAt(k, t, x)   == [k EXCEPT !.term = t, !.at = x]
ReadAs(k, s, x)      == [k EXCEPT !.status = s, !.at = x]
ReadWith(k, p, s, x) == [k EXCEPT !.pid = p, !.status = s, !.at = x]
GivenOut(k, o)       == IF k.mine THEN [k EXCEPT !.at = "done", !.pid = 0, !.out = o] ELSE NoCommand
SignalledTo(k, p)    == [k EXCEPT !.pid = p, !.at = "signalled"]
Dropped(k)           == IF k.at \in {"done", "failed"} THEN NoCommand ELSE [k EXCEPT !.mine = FALSE]

LEMMA PlacedIs ==
  ASSUME NEW k \in CommandType, NEW x \in CommandPlaces
  PROVE  LET n == PlacedAt(k, x) IN
         /\ n \in CommandType /\ n.at = x /\ n.op = k.op /\ n.pid = k.pid /\ n.status = k.status
         /\ n.term = k.term /\ n.mine = k.mine
BY DEF PlacedAt, CommandType, CommandPlaces

LEMMA EndedIs ==
  ASSUME NEW k \in CommandType, NEW x \in CommandPlaces
  PROVE  LET n == EndedAt(k, x) IN
         /\ n \in CommandType /\ n.mine = k.mine /\ n.pid = 0
         /\ IF k.mine THEN n.at = x /\ n.op = k.op /\ n.status = k.status /\ n.term = k.term
                      ELSE n = NoCommand
<1>1. CASE k.mine
  <2>1. LET n == [k EXCEPT !.at = x, !.pid = 0] IN
        /\ n \in CommandType /\ n.at = x /\ n.op = k.op /\ n.status = k.status /\ n.pid = 0
        /\ n.term = k.term /\ n.mine = k.mine
    BY DEF CommandType, CommandPlaces
  <2> QED
    BY <1>1, <2>1 DEF EndedAt
<1>2. CASE ~k.mine
  BY <1>2, NullsAre, CommandFields DEF EndedAt
<1> QED
  BY <1>1, <1>2

LEMMA SettledIs ==
  ASSUME NEW k \in CommandType, NEW t \in Terms
  PROVE  LET n == Settled(k, t) IN
         /\ n \in CommandType /\ n.at = k.at /\ n.op = k.op /\ n.pid = k.pid /\ n.status = k.status
         /\ n.term = t /\ n.mine = k.mine
BY DEF Settled, CommandType, Terms

LEMMA SettledAtIs ==
  ASSUME NEW k \in CommandType, NEW t \in Terms, NEW x \in CommandPlaces
  PROVE  LET n == SettledAt(k, t, x) IN
         /\ n \in CommandType /\ n.at = x /\ n.op = k.op /\ n.pid = k.pid /\ n.status = k.status
         /\ n.term = t /\ n.mine = k.mine
BY DEF SettledAt, CommandType, Terms, CommandPlaces

LEMMA ReadIs ==
  ASSUME NEW k \in CommandType, NEW s \in Statuses, NEW x \in CommandPlaces
  PROVE  LET n == ReadAs(k, s, x) IN
         /\ n \in CommandType /\ n.at = x /\ n.op = k.op /\ n.pid = k.pid /\ n.status = s
         /\ n.term = k.term /\ n.mine = k.mine
BY DEF ReadAs, CommandType, CommandPlaces

LEMMA ReadWithIs ==
  ASSUME NEW k \in CommandType, NEW p \in {0} \cup Runs, NEW s \in Statuses, NEW x \in CommandPlaces
  PROVE  LET n == ReadWith(k, p, s, x) IN
         /\ n \in CommandType /\ n.at = x /\ n.op = k.op /\ n.pid = p /\ n.status = s
         /\ n.term = k.term /\ n.mine = k.mine
BY DEF ReadWith, CommandType, CommandPlaces

LEMMA GivenIs ==
  ASSUME NEW k \in CommandType, NEW o \in Sessions
  PROVE  LET n == GivenOut(k, o) IN
         /\ n \in CommandType /\ n.mine = k.mine /\ n.pid = 0
         /\ IF k.mine THEN n.at = "done" /\ n.op = k.op /\ n.status = k.status /\ n.term = k.term
                      ELSE n = NoCommand
<1>1. CASE k.mine
  <2>1. LET n == [k EXCEPT !.at = "done", !.pid = 0, !.out = o] IN
        /\ n \in CommandType /\ n.at = "done" /\ n.op = k.op /\ n.status = k.status /\ n.pid = 0
        /\ n.term = k.term /\ n.mine = k.mine
    BY DEF CommandType
  <2> QED
    BY <1>1, <2>1 DEF GivenOut
<1>2. CASE ~k.mine
  BY <1>2, NullsAre, CommandFields DEF GivenOut
<1> QED
  BY <1>1, <1>2

LEMMA SignalledIs ==
  ASSUME NEW k \in CommandType, NEW p \in {0} \cup Runs
  PROVE  LET n == SignalledTo(k, p) IN
         /\ n \in CommandType /\ n.at = "signalled" /\ n.op = k.op /\ n.pid = p /\ n.status = k.status
         /\ n.term = k.term /\ n.mine = k.mine
BY DEF SignalledTo, CommandType

LEMMA DroppedIs ==
  ASSUME NEW k \in CommandType
  PROVE  LET n == Dropped(k) IN
         /\ n \in CommandType /\ ~n.mine
         /\ IF k.at \in {"done", "failed"} THEN n = NoCommand
            ELSE /\ n.at = k.at /\ n.op = k.op /\ n.pid = k.pid /\ n.status = k.status /\ n.term = k.term
<1>1. CASE k.at \in {"done", "failed"}
  BY <1>1, NullsAre DEF Dropped
<1>2. CASE k.at \notin {"done", "failed"}
  <2>1. LET n == [k EXCEPT !.mine = FALSE] IN
        /\ n \in CommandType /\ n.at = k.at /\ n.op = k.op /\ n.status = k.status /\ n.pid = k.pid
        /\ n.term = k.term /\ ~n.mine
    BY DEF CommandType
  <2> QED
    BY <1>2, <2>1 DEF Dropped
<1> QED
  BY <1>1, <1>2

-----------------------------------------------------------------------------
(* What a step of a command may do *)

\* The command c goes on as k, and every other one stays.
Becomes(c, k) ==
  /\ k \in CommandType /\ cmds' \in [Cmds -> CommandType]
  /\ \A d \in Cmds : cmds'[d] = IF d = c THEN k ELSE cmds[d]

Bodies == {"body", "read", "lost", "alive", "out", "signalled", "dead"}

\* It keeps what it is for and whose it is, and comes neither to life nor into
\* its body once it was cancelled.
Continues(c, k) ==
  LET o == cmds[c] IN
  /\ k.mine = o.mine /\ (k = NoCommand \/ k.op = o.op) /\ (k.mine => k.op = o.op)
  /\ k.at = "none" => k = NoCommand
  /\ k.at \in {"read", "lost", "alive"} => k.status # "missing"
  /\ k.at = "lost" => k.pid # 0
  /\ k.at \in {"read", "lost", "alive", "out"} => k.op = "inspect"
  /\ k.at \in {"signalled", "dead"} => k.op = "cancel"
  /\ o.at # "none" /\ (o.at = "failed" => k.at = "failed")
  /\ k.term # "none" => o.term # "none"
  /\ k.term = "confirmed" => k.at \notin Bodies
  /\ k.term # "none" /\ k.at \in Bodies \cup {"stuck"} => o.at \in Bodies \cup {"stuck"}
  /\ k.mine /\ k.at \in {"vetted", "leader"} \cup Bodies =>
       \/ o.at \in {"vetted", "leader"} \cup Bodies
       \/ \A d \in Cmds : cmds[d].term # "none" => cmds[d].at \notin Bodies \cup {"stuck"}

LEMMA CommandsAre ==
  ASSUME TypeOK, NEW c \in Cmds
  PROVE  /\ cmds[c] \in CommandType /\ cmds[c].at \in CommandPlaces /\ cmds[c].pid \in {0} \cup Runs
         /\ cmds[c].status \in Statuses /\ cmds[c].out \in Sessions /\ cmds[c].term \in Terms
         /\ cmds[c].mine \in BOOLEAN
<1>1. cmds[c] \in CommandType
  BY DEF TypeOK
<1> QED
  BY <1>1, CommandFields

LEMMA BecomesIs ==
  ASSUME TypeOK, NEW c \in Cmds, NEW k \in CommandType, cmds' = [cmds EXCEPT ![c] = k]
  PROVE  Becomes(c, k)
BY CommandIs DEF Becomes, TypeOK

\* What the rest of the state may do meanwhile.
StateMoves ==
  /\ file' \in FileType /\ file'.pid = file.pid
  /\ file'.status = "missing" => file.status = "missing"
  /\ stranger' \in {0, stranger} /\ UNCHANGED <<box, lock, runner, child, coord, row, stopped>>
  /\ late' \in BOOLEAN /\ (late => late') /\ faults' \in 0..MaxFaults

Shape == TypeOK /\ RunnersInv /\ CoordInv /\ BoxInv /\ AloneInv

\* A step of a command keeps what the parts know of one another.
LEMMA CommandKeeps ==
  ASSUME Shape, NEW c \in Cmds, NEW k, Becomes(c, k), Continues(c, k), StateMoves
  PROVE  Shape'
<1>1. k \in CommandType /\ cmds' \in [Cmds -> CommandType] /\ \A d \in Cmds : cmds'[d] = IF d = c THEN k ELSE cmds[d]
  BY DEF Becomes
<1>2. TypeOK'
  BY <1>1, RunsAre DEF Shape, TypeOK, StateMoves
<1>3. RunnersInv'
  BY RunsAre DEF Shape, RunnersInv, StateMoves
<1>4. CoordInv'
  <2>1. UNCHANGED coord
    BY DEF StateMoves
  <2>2. coord.at = "asked" => cmds'[coord.cmd].mine /\ cmds'[coord.cmd].op = Script(coord.op)
    BY <1>1 DEF Shape, CoordInv, Continues
  <2>3. \A d \in Cmds : cmds'[d].mine => coord.at = "asked" /\ coord.cmd = d
    BY <1>1 DEF Shape, CoordInv, Continues
  <2>4. \A d \in Cmds : /\ cmds'[d].at = "none" => cmds'[d] = NoCommand
                        /\ cmds'[d].at \in {"read", "lost", "alive"} => cmds'[d].status # "missing"
                        /\ cmds'[d].at = "lost" => cmds'[d].pid # 0
                        /\ cmds'[d].at \in {"read", "lost", "alive", "out"} => cmds'[d].op = "inspect"
                        /\ cmds'[d].at \in {"signalled", "dead"} => cmds'[d].op = "cancel"
    BY <1>1 DEF Shape, CoordInv, Continues
  <2> QED
    BY <2>1, <2>2, <2>3, <2>4 DEF Shape, CoordInv, Script
<1>5. BoxInv'
  <2> SUFFICES ASSUME box' # "running" PROVE BoxInv'
    BY DEF BoxInv
  <2>1. /\ lock' = 0 /\ stranger' = 0 /\ \A i \in Runs : runner'[i].at \in {"none", "gone"}
    BY DEF Shape, BoxInv, StateMoves
  <2>2. cmds[c].at # "none"
    BY DEF Continues
  <2>3. cmds[c].mine /\ cmds[c].at = "failed"
    BY <2>2, NullsAre DEF Shape, BoxInv, StateMoves
  <2>4. k.mine /\ k.at = "failed"
    BY <2>3 DEF Continues
  <2>5. \A d \in Cmds : cmds'[d] = NoCommand \/ (cmds'[d].mine /\ cmds'[d].at = "failed")
    BY <1>1, <2>4 DEF Shape, BoxInv, StateMoves
  <2> QED
    BY <2>1, <2>5 DEF BoxInv
<1>6. AloneInv'
  <2>1. \A d \in Cmds : cmds'[d].term = "confirmed" => cmds'[d].at \notin Bodies
    BY <1>1 DEF Shape, AloneInv, InBody, Continues, Bodies
  <2>2. ASSUME NEW d \in Cmds, NEW e \in Cmds, d # e, cmds'[d].term # "none", cmds'[e].mine,
               cmds'[e].at \in {"vetted", "leader"} \cup Bodies
        PROVE  cmds'[d].at \notin Bodies \cup {"stuck"}
    <3>0. \A a, b \in Cmds :
            (a # b /\ cmds[a].term # "none" /\ cmds[b].mine /\ cmds[b].at \in {"vetted", "leader"} \cup Bodies)
               => cmds[a].at \notin Bodies \cup {"stuck"}
      <4> SUFFICES ASSUME NEW a \in Cmds, NEW b \in Cmds, a # b, cmds[a].term # "none", cmds[b].mine,
                          cmds[b].at \in {"vetted", "leader"} \cup Bodies
                   PROVE  cmds[a].at \notin Bodies \cup {"stuck"}
        OBVIOUS
      <4>1. PastVet(b)
        BY DEF InBody, PastVet, Bodies
      <4>2. ~(InBody(a) \/ cmds[a].at = "stuck")
        BY <4>1 DEF Shape, AloneInv
      <4> QED
        BY <4>2 DEF InBody, Bodies
    <3>1. CASE d = c
      <4>1. cmds[c].term # "none" /\ cmds'[e] = cmds[e] /\ cmds'[d] = k
        BY <1>1, <2>2, <3>1 DEF Continues
      <4>2. cmds[c].at \notin Bodies \cup {"stuck"}
        BY <2>2, <3>0, <3>1, <4>1
      <4> QED
        BY <2>2, <3>1, <4>1, <4>2 DEF Continues
    <3>2. CASE e = c
      <4>1. cmds[c].mine /\ cmds'[d] = cmds[d] /\ cmds'[e] = k
        BY <1>1, <2>2, <3>2 DEF Continues
      <4> QED
        BY <2>2, <3>0, <3>2, <4>1 DEF Continues
    <3>3. CASE d # c /\ e # c
      BY <1>1, <2>2, <3>0, <3>3
    <3> QED
      BY <3>1, <3>2, <3>3
  <2> QED
    BY <2>1, <2>2 DEF AloneInv, InBody, PastVet, Bodies
<1> QED
  BY <1>2, <1>3, <1>4, <1>5, <1>6 DEF Shape

\* How the status may change while no status is late.
StatusMoves ==
  /\ \A i \in Runs : child[i] = "alive" /\ lock = 0 =>
       file'.status \in {file.status, "running"} \/ (file'.status = "cancelled" /\ row.known)
  /\ ~row.known => /\ file'.status = "lost" => file.status = "lost" \/ Stale
                   /\ file'.status \in Active => file.status \in Active \/ Stale
                   /\ file'.status \in {"missing", "lost"} =>
                        file.status \in {"missing", "lost"} \/ \A i \in Runs : runner[i].at # "spawned"

\* What a command then knows of the process.
CommandKnows(c, k) ==
  LET o == cmds[c] IN
  /\ k.mine /\ k.op = "inspect" /\ k.status = "missing" /\ k.at \in {"out", "done"} =>
       (o.op = "inspect" /\ o.status = "missing" /\ o.at \in {"out", "done"}) \/ file.status = "missing"
  /\ k.at \in {"signalled", "dead"} => k.pid \in Runs /\ k.pid = file.pid /\ lock = 0
  /\ k.at = "dead" => child[k.pid] # "alive"
  /\ k.mine /\ k.op = "cancel" /\ k.at \in {"signalled", "dead", "done"} =>
       /\ lock = 0 /\ \A i \in Runs : runner[i].at = "spawned" => file'.status \notin {"missing", "lost"}
       /\ \A i \in Runs : child[i] = "alive" => k.at = "signalled" /\ i = k.pid

LEMMA CommandProcess ==
  ASSUME Shape, ProcessInv, NEW c \in Cmds, NEW k, Becomes(c, k), Continues(c, k), StateMoves,
         ~late' => StatusMoves, ~late' /\ ~row.known => CommandKnows(c, k)
  PROVE  ProcessInv'
<1> SUFFICES ASSUME ~late' PROVE LivingInv' /\ (row'.known \/ FreshInv')
  BY DEF ProcessInv
<1>0. ~late /\ LivingInv /\ (row.known \/ FreshInv) /\ StatusMoves
  BY DEF ProcessInv, StateMoves
<1>1. k \in CommandType /\ \A d \in Cmds : cmds'[d] = IF d = c THEN k ELSE cmds[d]
  BY DEF Becomes
<1>2. LivingInv'
  BY <1>0 DEF LivingInv, StatusMoves, StateMoves
<1>3. ASSUME ~row.known PROVE FreshInv'
  <2>0. FreshInv /\ CommandKnows(c, k)
    BY <1>0, <1>3
  <2>1. file.status = "lost" => Stale
    BY <2>0 DEF FreshInv
  <2>2. file'.status = "lost" => Stale'
    BY <1>0, <1>3, <2>1 DEF Stale, StatusMoves, StateMoves
  <2>3. Stale' => Stale
    BY <1>0, <1>3, <2>1, RunsAre DEF Stale, StatusMoves, StateMoves
  <2>4. Stale => file.status # "missing"
    BY RunsAre DEF Stale, Shape, RunnersInv
  <2>5. Stale' => /\ \A i \in Runs : runner'[i].at # "spawned"
                  /\ box' = "running" => coord'.at # "exec"
    BY <2>0, <2>3 DEF FreshInv, StateMoves
  <2>6. Stale' => \A d \in Cmds : cmds'[d].mine /\ cmds'[d].op = "inspect" /\ cmds'[d].status = "missing"
                                    => cmds'[d].at \notin {"out", "done"}
    <3> SUFFICES ASSUME Stale, NEW d \in Cmds, cmds'[d].mine, cmds'[d].op = "inspect", cmds'[d].status = "missing",
                        cmds'[d].at \in {"out", "done"}
                 PROVE  FALSE
      BY <2>3
    <3>1. CASE d = c
      <4>1. cmds[c].op = "inspect" /\ cmds[c].status = "missing" /\ cmds[c].at \in {"out", "done"} /\ cmds[c].mine
        BY <1>1, <2>0, <2>4, <3>1 DEF CommandKnows, Continues
      <4> QED
        BY <2>0, <4>1 DEF FreshInv
    <3>2. CASE d # c
      BY <1>1, <2>0, <3>2 DEF FreshInv
    <3> QED
      BY <3>1, <3>2
  <2>7. /\ \A i \in Runs : runner'[i].at = "reserved" => file'.pid = 0
        /\ \A i \in Runs : child'[i] = "alive" /\ lock' = 0 => file'.status = "running"
    BY <1>0, <1>3, <2>0 DEF FreshInv, StatusMoves, StateMoves
  <2>8. Barred => Barred'
    BY <1>0, <1>3 DEF Barred, StatusMoves, StateMoves
  <2>9. \A d \in Cmds : /\ cmds'[d].at \in {"signalled", "dead"} =>
                             cmds'[d].pid \in Runs /\ file'.pid = cmds'[d].pid /\ lock' = 0
                        /\ cmds'[d].at = "dead" => child'[cmds'[d].pid] # "alive"
    BY <1>1, <2>0 DEF FreshInv, CommandKnows, StateMoves
  <2>10. ASSUME NEW d \in Cmds, cmds'[d].mine, cmds'[d].op = "cancel", cmds'[d].at \in {"signalled", "dead", "done"}
         PROVE  Barred' /\ \A i \in Runs : child'[i] = "alive" => cmds'[d].at = "signalled" /\ i = cmds'[d].pid
    <3>1. CASE d = c
      BY <1>1, <2>0, <2>10, <3>1 DEF CommandKnows, Barred, StateMoves
    <3>2. CASE d # c
      <4>1. cmds'[d] = cmds[d] /\ UNCHANGED child
        BY <1>1, <3>2 DEF StateMoves
      <4> QED
        BY <2>0, <2>8, <2>10, <4>1 DEF FreshInv
    <3> QED
      BY <3>1, <3>2
  <2>11. stopped' => Barred' /\ \A i \in Runs : child'[i] # "alive"
    BY <2>0, <2>8 DEF FreshInv, StateMoves
  <2> QED
    BY <2>2, <2>5, <2>6, <2>7, <2>9, <2>10, <2>11 DEF FreshInv
<1> QED
  BY <1>2, <1>3 DEF StateMoves

-----------------------------------------------------------------------------
(* The steps of a command *)

LEMMA QuietStep ==
  ASSUME Shape, ProcessInv, NEW c \in Cmds, NEW k, Becomes(c, k), Continues(c, k),
         UNCHANGED <<box, disk, runner, child, stranger, coord, row, stopped, late>>, faults' \in 0..MaxFaults,
         ~late /\ ~row.known => CommandKnows(c, k)
  PROVE  Shape' /\ ProcessInv'
<1>1. StateMoves
  BY FileIs DEF StateMoves, Shape, TypeOK, disk
<1>2. StatusMoves
  BY DEF StatusMoves, disk
<1> QED
  BY <1>1, <1>2, CommandKeeps, CommandProcess

\* A place at which a command knows nothing of the process.
LEMMA KnowsNothing ==
  ASSUME NEW c \in Cmds, NEW k, k.at \notin {"out", "signalled", "dead", "done"}
  PROVE  CommandKnows(c, k)
BY DEF CommandKnows

\* A command that stays where it is knows what it knew.
LEMMA SameKnows ==
  ASSUME Shape, ProcessInv, ~late, ~row.known, NEW c \in Cmds, NEW k, UNCHANGED file,
         k.at = cmds[c].at, k.op = cmds[c].op, k.mine = cmds[c].mine,
         k.status = cmds[c].status, k.pid = cmds[c].pid
  PROVE  CommandKnows(c, k)
<1>1. FreshInv
  BY DEF ProcessInv
<1>2. k.at \in {"signalled", "dead"} => k.pid \in Runs /\ k.pid = file.pid /\ lock = 0
  BY <1>1 DEF FreshInv
<1>3. k.at = "dead" => child[k.pid] # "alive"
  BY <1>1 DEF FreshInv
<1>4. k.mine /\ k.op = "cancel" /\ k.at \in {"signalled", "dead", "done"} =>
        Barred /\ \A i \in Runs : child[i] = "alive" => k.at = "signalled" /\ i = k.pid
  BY <1>1 DEF FreshInv
<1> QED
  BY <1>2, <1>3, <1>4 DEF CommandKnows, Barred

LEMMA FaultsAre ==
  ASSUME Shape, Faults(1) PROVE faults' \in 0..MaxFaults
BY ProcessAssumption DEF Shape, TypeOK, Faults

LEMMA SameFaults ==
  ASSUME Shape, UNCHANGED faults PROVE faults' \in 0..MaxFaults
BY DEF Shape, TypeOK

LEMMA InBodyIs ==
  ASSUME NEW c \in Cmds
  PROVE  /\ InBody(c) <=> cmds[c].at \in Bodies
         /\ HasLeader(c) <=> cmds[c].at \in Bodies \cup {"leader", "stuck"}
BY DEF InBody, HasLeader, Bodies

LEMMA SetIs ==
  ASSUME Shape, NEW c \in Cmds, NEW x \in CommandPlaces, Set(c, x)
  PROVE  Becomes(c, PlacedAt(cmds[c], x))
<1>1. cmds[c] \in CommandType
  BY CommandsAre DEF Shape
<1>2. cmds' = [cmds EXCEPT ![c] = PlacedAt(cmds[c], x)]
  BY DEF Set, PlacedAt
<1> QED
  BY <1>1, <1>2, PlacedIs, BecomesIs DEF Shape

LEMMA EndsIs ==
  ASSUME Shape, NEW c \in Cmds, NEW x \in CommandPlaces, Ended(c, x)
  PROVE  Becomes(c, EndedAt(cmds[c], x))
<1>1. cmds[c] \in CommandType
  BY CommandsAre DEF Shape
<1>2. cmds' = [cmds EXCEPT ![c] = EndedAt(cmds[c], x)]
  BY DEF Ended, EndedAt
<1> QED
  BY <1>1, <1>2, EndedIs, BecomesIs DEF Shape

LEMMA StepVet ==
  ASSUME Shape, ProcessInv, NEW c \in Cmds, Vet(c)
  PROVE  Shape' /\ ProcessInv'
<1>0. /\ cmds[c] \in CommandType /\ cmds[c].at = "sent" /\ faults' \in 0..MaxFaults
      /\ UNCHANGED <<box, disk, runner, child, stranger, coord, row, stopped, late>>
  BY CommandsAre, SameFaults DEF Vet, Shape
<1>1. CASE \E d \in Cmds : cmds[d].term # "none" /\ HasLeader(d)
  <2>1. PICK k : k = EndedAt(cmds[c], "failed")
    OBVIOUS
  <2>2. Becomes(c, k)
    BY <1>1, <2>1, EndsIs DEF Vet, CommandPlaces
  <2>3. Continues(c, k)
    BY <1>0, <2>1, EndedIs, NullsAre DEF Continues, CommandPlaces, Bodies
  <2>4. CommandKnows(c, k)
    BY <1>0, <2>1, EndedIs, NullsAre, KnowsNothing DEF CommandPlaces
  <2> QED
    BY <1>0, <2>2, <2>3, <2>4, QuietStep
<1>2. CASE ~ \E d \in Cmds : cmds[d].term # "none" /\ HasLeader(d)
  <2>1. PICK k : k = PlacedAt(cmds[c], "vetted")
    OBVIOUS
  <2>2. Becomes(c, k)
    BY <1>2, <2>1, SetIs DEF Vet, CommandPlaces
  <2>3. \A d \in Cmds : cmds[d].term # "none" => cmds[d].at \notin Bodies \cup {"stuck"}
    BY <1>2, InBodyIs
  <2>4. Continues(c, k)
    BY <1>0, <2>1, <2>3, PlacedIs DEF Continues, CommandPlaces, Bodies
  <2>5. CommandKnows(c, k)
    BY <1>0, <2>1, PlacedIs, KnowsNothing DEF CommandPlaces
  <2> QED
    BY <1>0, <2>2, <2>4, <2>5, QuietStep
<1> QED
  BY <1>1, <1>2

LEMMA StepLead ==
  ASSUME Shape, ProcessInv, NEW c \in Cmds, Lead(c)
  PROVE  Shape' /\ ProcessInv'
<1>0. /\ cmds[c] \in CommandType /\ cmds[c].at \in {"vetted", "leader"} /\ faults' \in 0..MaxFaults
      /\ UNCHANGED <<box, disk, runner, child, stranger, coord, row, stopped, late>>
  BY CommandsAre, SameFaults DEF Lead, Shape
<1>1. CASE \E x \in {"leader", "body"} : Set(c, x) /\ (x = "body" => cmds[c].term = "none")
  <2>1. PICK x \in {"leader", "body"} : Set(c, x) /\ (x = "body" => cmds[c].term = "none")
    BY <1>1
  <2>2. PICK k : k = PlacedAt(cmds[c], x)
    OBVIOUS
  <2>3. Becomes(c, k) /\ x \in CommandPlaces
    BY <2>1, <2>2, SetIs DEF CommandPlaces
  <2>4. /\ k.at = x /\ k.op = cmds[c].op /\ k.term = cmds[c].term /\ k.mine = cmds[c].mine
    BY <1>0, <2>2, <2>3, PlacedIs
  <2>5. Continues(c, k)
    BY <1>0, <2>1, <2>4 DEF Continues, Bodies
  <2>6. CommandKnows(c, k)
    BY <2>4, KnowsNothing
  <2> QED
    BY <1>0, <2>3, <2>5, <2>6, QuietStep
<1>2. CASE Ended(c, "failed")
  <2>1. PICK k : k = EndedAt(cmds[c], "failed")
    OBVIOUS
  <2>2. Becomes(c, k)
    BY <1>2, <2>1, EndsIs DEF CommandPlaces
  <2>3. Continues(c, k)
    BY <1>0, <2>1, EndedIs, NullsAre DEF Continues, CommandPlaces, Bodies
  <2>4. CommandKnows(c, k)
    BY <1>0, <2>1, EndedIs, NullsAre, KnowsNothing DEF CommandPlaces
  <2> QED
    BY <1>0, <2>2, <2>3, <2>4, QuietStep
<1> QED
  BY <1>1, <1>2 DEF Lead

LEMMA StepSettle ==
  ASSUME Shape, ProcessInv, NEW c \in Cmds, Settle(c)
  PROVE  Shape' /\ ProcessInv'
<1>0. /\ cmds[c] \in CommandType /\ cmds[c].term = "asked" /\ faults' \in 0..MaxFaults
      /\ UNCHANGED <<box, disk, runner, child, stranger, coord, row, stopped, late>>
  BY CommandsAre, SameFaults DEF Settle, Shape
<1>a. cmds[c].at # "none"
  BY <1>0, NullsAre DEF Shape, CoordInv
<1>1. CASE cmds[c].at \notin Bodies \cup {"leader", "stuck"} /\ cmds' = [cmds EXCEPT ![c].term = "confirmed"]
  <2>1. PICK k : k = Settled(cmds[c], "confirmed")
    OBVIOUS
  <2>2. cmds' = [cmds EXCEPT ![c] = k]
    BY <1>1, <2>1 DEF Settled
  <2>3. /\ k \in CommandType /\ k.at = cmds[c].at /\ k.op = cmds[c].op /\ k.mine = cmds[c].mine
        /\ k.term = "confirmed" /\ k.status = cmds[c].status /\ k.pid = cmds[c].pid
    BY <1>0, <2>1, SettledIs DEF Terms
  <2>4. Becomes(c, k)
    BY <2>2, <2>3, BecomesIs DEF Shape
  <2>5. Continues(c, k)
    BY <1>0, <1>1, <1>a, <2>3 DEF Continues, Bodies
  <2>6. ~late /\ ~row.known => CommandKnows(c, k)
    BY <1>0, <2>3, SameKnows DEF disk
  <2> QED
    BY <1>0, <2>4, <2>5, <2>6, QuietStep
<1>2. CASE \E x \in {"failed", "stuck"}, t \in {"confirmed", "survived"} :
             /\ cmds' = [cmds EXCEPT ![c].term = t, ![c].at = x]
             /\ x = "failed" \/ (cmds[c].at \in Bodies /\ t = "survived")
             /\ cmds[c].at \in Bodies \cup {"leader", "stuck"}
  <2>1. PICK x \in {"failed", "stuck"}, t \in {"confirmed", "survived"} :
             /\ cmds' = [cmds EXCEPT ![c].term = t, ![c].at = x]
             /\ x = "failed" \/ (cmds[c].at \in Bodies /\ t = "survived")
             /\ cmds[c].at \in Bodies \cup {"leader", "stuck"}
    BY <1>2
  <2>2. PICK k : k = SettledAt(cmds[c], t, x)
    OBVIOUS
  <2>3. cmds' = [cmds EXCEPT ![c] = k]
    BY <2>1, <2>2 DEF SettledAt
  <2>4. /\ k \in CommandType /\ k.at = x /\ k.op = cmds[c].op /\ k.mine = cmds[c].mine /\ k.term = t
    BY <1>0, <2>2, SettledAtIs DEF Terms, CommandPlaces
  <2>5. Becomes(c, k)
    BY <2>3, <2>4, BecomesIs DEF Shape
  <2>6. Continues(c, k)
    BY <1>0, <1>a, <2>1, <2>4 DEF Continues, Bodies
  <2>7. CommandKnows(c, k)
    BY <2>4, KnowsNothing
  <2> QED
    BY <1>0, <2>5, <2>6, <2>7, QuietStep
<1> QED
  BY <1>1, <1>2, InBodyIs DEF Settle

-----------------------------------------------------------------------------
(* The steps of its body *)

LEMMA BodyFrame ==
  ASSUME Shape, UNCHANGED <<file, late>>, UNCHANGED BodyRest
  PROVE  faults' \in 0..MaxFaults /\ UNCHANGED <<box, disk, runner, child, stranger, coord, row, stopped, late>>
BY SameFaults DEF BodyRest, disk

LEMMA StepReadStatus ==
  ASSUME Shape, ProcessInv, NEW c \in Cmds, ReadStatus(c)
  PROVE  Shape' /\ ProcessInv'
<1>0. /\ cmds[c] \in CommandType /\ cmds[c].at = "body" /\ cmds[c].op = "inspect" /\ faults' \in 0..MaxFaults
      /\ UNCHANGED <<box, disk, runner, child, stranger, coord, row, stopped, late>>
  BY CommandsAre, BodyFrame DEF ReadStatus, Shape
<1>1. PICK x \in {"read", "out"} :
        /\ cmds' = [cmds EXCEPT ![c].status = file.status, ![c].at = x]
        /\ x = "read" => file.status # "missing"
  BY DEF ReadStatus, Active
<1>2. PICK k : k = ReadAs(cmds[c], file.status, x)
  OBVIOUS
<1>3. cmds' = [cmds EXCEPT ![c] = k]
  BY <1>1, <1>2 DEF ReadAs
<1>4. /\ k \in CommandType /\ k.at = x /\ k.op = cmds[c].op /\ k.mine = cmds[c].mine
      /\ k.term = cmds[c].term /\ k.status = file.status
  <2>1. x \in CommandPlaces /\ file.status \in Statuses
    BY FileIs DEF CommandPlaces, Shape, TypeOK
  <2> QED
    BY <1>0, <1>2, <2>1, ReadIs
<1>5. Becomes(c, k)
  BY <1>3, <1>4, BecomesIs DEF Shape
<1>6. Continues(c, k)
  BY <1>0, <1>1, <1>4 DEF Continues, Bodies, Shape, AloneInv, InBody
<1>7. CommandKnows(c, k)
  BY <1>0, <1>4 DEF CommandKnows
<1> QED
  BY <1>0, <1>5, <1>6, <1>7, QuietStep

LEMMA StepReadPid ==
  ASSUME Shape, ProcessInv, NEW c \in Cmds, ReadPid(c)
  PROVE  Shape' /\ ProcessInv'
<1>0. /\ cmds[c] \in CommandType /\ cmds[c].at = "read" /\ cmds[c].op = "inspect" /\ faults' \in 0..MaxFaults
      /\ UNCHANGED <<box, disk, runner, child, stranger, coord, row, stopped, late>>
      /\ cmds[c].status # "missing"
  BY CommandsAre, BodyFrame DEF ReadPid, Shape, CoordInv
<1>1. PICK x \in {"alive", "lost", "out"}, s \in Statuses :
        /\ cmds' = [cmds EXCEPT ![c].pid = file.pid, ![c].status = s, ![c].at = x]
        /\ x = "lost" => file.pid # 0
        /\ s # "missing"
  <2>1. CASE processAlive(file.pid)
    BY <1>0, <2>1 DEF ReadPid, Statuses, Active
  <2>2. CASE ~processAlive(file.pid)
    BY <1>0, <2>2, CommandsAre DEF ReadPid, Shape
  <2> QED
    BY <2>1, <2>2
<1>2. PICK k : k = ReadWith(cmds[c], file.pid, s, x)
  OBVIOUS
<1>3. cmds' = [cmds EXCEPT ![c] = k]
  BY <1>1, <1>2 DEF ReadWith
<1>4. /\ k \in CommandType /\ k.at = x /\ k.op = cmds[c].op /\ k.mine = cmds[c].mine
      /\ k.term = cmds[c].term /\ k.status = s /\ k.pid = file.pid
  <2>1. x \in CommandPlaces /\ file.pid \in {0} \cup Runs
    BY FileIs DEF CommandPlaces, Shape, TypeOK
  <2>2. PICK o \in CommandType : o = cmds[c]
    BY <1>0
  <2>3. PICK p \in {0} \cup Runs : p = file.pid
    BY <2>1
  <2>4. k = ReadWith(o, p, s, x)
    BY <1>2, <2>2, <2>3
  <2>5. /\ k \in CommandType /\ k.at = x /\ k.op = o.op /\ k.pid = p /\ k.status = s
        /\ k.term = o.term /\ k.mine = o.mine
    BY <2>1, <2>4, ReadWithIs
  <2> QED
    BY <2>2, <2>3, <2>5
<1>5. Becomes(c, k)
  BY <1>3, <1>4, BecomesIs DEF Shape
<1>6. Continues(c, k)
  BY <1>0, <1>1, <1>4 DEF Continues, Bodies, Shape, AloneInv, InBody
<1>7. CommandKnows(c, k)
  BY <1>0, <1>1, <1>4 DEF CommandKnows
<1> QED
  BY <1>0, <1>5, <1>6, <1>7, QuietStep

LEMMA StepReadOutput ==
  ASSUME Shape, ProcessInv, NEW c \in Cmds, ReadOutput(c)
  PROVE  Shape' /\ ProcessInv'
<1>0. /\ cmds[c] \in CommandType /\ cmds[c].at = "out" /\ cmds[c].op = "inspect" /\ faults' \in 0..MaxFaults
      /\ UNCHANGED <<box, disk, runner, child, stranger, coord, row, stopped, late>>
  BY CommandsAre, BodyFrame DEF ReadOutput, Shape, CoordInv
<1>1. PICK k : k = GivenOut(cmds[c], file.out)
  OBVIOUS
<1>2. cmds' = [cmds EXCEPT ![c] = k]
  BY <1>1 DEF GivenOut, ReadOutput
<1>3. /\ k \in CommandType /\ k.mine = cmds[c].mine
      /\ IF cmds[c].mine THEN k.at = "done" /\ k.op = cmds[c].op /\ k.status = cmds[c].status /\ k.term = cmds[c].term
                         ELSE k = NoCommand
  BY <1>0, <1>1, GivenIs, FileIs DEF Shape, TypeOK
<1>4. Becomes(c, k)
  BY <1>2, <1>3, BecomesIs DEF Shape
<1>5. Continues(c, k)
  BY <1>0, <1>3, NullsAre DEF Continues, Bodies
<1>6. CommandKnows(c, k)
  BY <1>0, <1>3, NullsAre DEF CommandKnows
<1> QED
  BY <1>0, <1>4, <1>5, <1>6, QuietStep

LEMMA StepEndGate ==
  ASSUME Shape, ProcessInv, NEW c \in Cmds, EndGate(c)
  PROVE  Shape' /\ ProcessInv'
<1>0. /\ cmds[c] \in CommandType /\ cmds[c].at = "body" /\ cmds[c].op = "gate" /\ faults' \in 0..MaxFaults
      /\ UNCHANGED <<box, disk, runner, child, stranger, coord, row, stopped, late>> /\ Ended(c, "done")
  BY CommandsAre, BodyFrame DEF EndGate, Shape
<1>1. PICK k : k = EndedAt(cmds[c], "done")
  OBVIOUS
<1>2. Becomes(c, k)
  BY <1>0, <1>1, EndsIs DEF CommandPlaces
<1>3. Continues(c, k) /\ CommandKnows(c, k)
  BY <1>0, <1>1, EndedIs, NullsAre DEF Continues, CommandKnows, CommandPlaces, Bodies
<1> QED
  BY <1>0, <1>2, <1>3, QuietStep

\* The corrections of inspectProcess, as far as they are not late.
LEMMA StepMarkAlive ==
  ASSUME Shape, ProcessInv, NEW c \in Cmds, MarkAlive(c)
  PROVE  Shape' /\ ProcessInv'
<1>0. /\ cmds[c] \in CommandType /\ cmds[c].at = "alive" /\ Set(c, "out") /\ file \in FileType /\ late \in BOOLEAN
      /\ UNCHANGED BodyRest /\ cmds[c].op = "inspect" /\ cmds[c].status # "missing"
  BY CommandsAre DEF MarkAlive, Shape, CoordInv, TypeOK
<1>1. PICK k : k = PlacedAt(cmds[c], "out")
  OBVIOUS
<1>2. Becomes(c, k)
  BY <1>0, <1>1, SetIs DEF CommandPlaces
<1>3. k.at = "out" /\ k.op = cmds[c].op /\ k.term = cmds[c].term /\ k.mine = cmds[c].mine /\ k.status = cmds[c].status
  BY <1>0, <1>1, PlacedIs DEF CommandPlaces
<1>4. Continues(c, k)
  BY <1>0, <1>3 DEF Continues, Bodies, Shape, AloneInv, InBody
<1>5. CommandKnows(c, k)
  BY <1>0, <1>3 DEF CommandKnows
<1>6. CASE file.status # "cancelled"
  <2>1. UNCHANGED <<file, late>>
    BY <1>6 DEF MarkAlive
  <2> QED
    BY <1>0, <1>2, <1>4, <1>5, <2>1, BodyFrame, QuietStep
<1>7. CASE file.status = "cancelled"
  <2>1. Record("running", cmds[c].pid)
    BY <1>7 DEF MarkAlive
  <2>2. file' \in FileType /\ file'.status = "running" /\ file'.pid = file.pid
    BY <1>0, <2>1, FileStatus DEF Record, Statuses, Active
  <2>3. StateMoves
    BY <1>0, <2>1, <2>2, SameFaults DEF StateMoves, BodyRest, Record
  <2>4. ASSUME ~late' PROVE StatusMoves
    <3>1. lock = 0 /\ file.pid = cmds[c].pid /\ processAlive(cmds[c].pid) /\ ~late
      BY <2>1, <2>4 DEF Record
    <3>2. cmds[c].pid \in Runs
      BY <3>1, CommandsAre DEF processAlive, Shape
    <3>3. ~row.known => Stale
      <4> SUFFICES ASSUME ~row.known PROVE Stale
        OBVIOUS
      <4>1. child[cmds[c].pid] # "alive"
        BY <1>7, <3>1, <3>2 DEF ProcessInv, FreshInv
      <4>2. stranger = cmds[c].pid
        BY <3>1, <4>1 DEF processAlive
      <4>3. runner[cmds[c].pid].at = "gone"
        BY <3>2, <4>2 DEF Shape, RunnersInv
      <4> QED
        BY <3>1, <3>2, <4>2, <4>3 DEF Stale
    <3> QED
      BY <2>2, <3>3 DEF StatusMoves
  <2> QED
    BY <1>2, <1>4, <1>5, <2>3, <2>4, CommandKeeps, CommandProcess
<1> QED
  BY <1>6, <1>7

LEMMA StepMarkLost ==
  ASSUME Shape, ProcessInv, NEW c \in Cmds, MarkLost(c)
  PROVE  Shape' /\ ProcessInv'
<1>0. /\ cmds[c] \in CommandType /\ cmds[c].at = "lost" /\ file \in FileType /\ late \in BOOLEAN
      /\ UNCHANGED BodyRest /\ cmds[c].op = "inspect" /\ cmds[c].pid \in Runs
      /\ cmds' = [cmds EXCEPT ![c].status = "lost", ![c].at = "out"]
  BY CommandsAre DEF MarkLost, Shape, CoordInv, TypeOK
<1>1. PICK k : k = ReadAs(cmds[c], "lost", "out")
  OBVIOUS
<1>2. cmds' = [cmds EXCEPT ![c] = k]
  BY <1>0, <1>1 DEF ReadAs
<1>3. /\ k \in CommandType /\ k.at = "out" /\ k.op = cmds[c].op /\ k.mine = cmds[c].mine
      /\ k.term = cmds[c].term /\ k.status = "lost"
  BY <1>0, <1>1, ReadIs DEF CommandPlaces, Statuses
<1>4. Becomes(c, k)
  BY <1>2, <1>3, BecomesIs DEF Shape
<1>5. Continues(c, k) /\ CommandKnows(c, k)
  BY <1>0, <1>3 DEF Continues, CommandKnows, Bodies, Shape, AloneInv, InBody
<1>6. Record("lost", cmds[c].pid)
  BY DEF MarkLost
<1>7. file' \in FileType /\ file'.status = "lost" /\ file'.pid = file.pid
  BY <1>0, <1>6, FileStatus DEF Record, Statuses
<1>8. StateMoves
  BY <1>0, <1>6, <1>7, SameFaults DEF StateMoves, BodyRest, Record
<1>9. ASSUME ~late' PROVE StatusMoves
  <2>1. lock = 0 /\ file.pid = cmds[c].pid /\ runner[cmds[c].pid].at = "gone" /\ file.status \in Active /\ ~late
    BY <1>6, <1>9 DEF Record, At
  <2>2. ASSUME NEW i \in Runs, child[i] = "alive" PROVE FALSE
    <3>1. file.pid = i
      BY <2>1, <2>2, RunsAre DEF ProcessInv, LivingInv
    <3>2. runner[i].at # "gone"
      BY <2>2 DEF Shape, RunnersInv
    <3> QED
      BY <2>1, <3>1, <3>2
  <2>3. Stale
    BY <1>0, <2>1 DEF Stale
  <2>4. ~row.known => \A i \in Runs : runner[i].at # "spawned"
    BY <2>1, <2>3 DEF ProcessInv, FreshInv
  <2> QED
    BY <1>7, <2>2, <2>3, <2>4 DEF StatusMoves, Active
<1> QED
  BY <1>4, <1>5, <1>8, <1>9, CommandKeeps, CommandProcess

-----------------------------------------------------------------------------
(* cancelProcess *)

\* Who lives while nobody holds the lock is named by the state.
LEMMA LivesNamed ==
  ASSUME Shape, LivingInv, lock = 0, NEW i \in Runs, child[i] = "alive"
  PROVE  file.pid = i /\ file.status \in {"running", "cancelled"}
BY RunsAre DEF LivingInv

LEMMA StepCancelUnderLock ==
  ASSUME Shape, ProcessInv, NEW c \in Cmds, CancelUnderLock(c)
  PROVE  Shape' /\ ProcessInv'
<1>0. /\ cmds[c] \in CommandType /\ cmds[c].at = "body" /\ cmds[c].op = "cancel" /\ file \in FileType
      /\ late \in BOOLEAN /\ lock = 0 /\ UNCHANGED BodyRest /\ UNCHANGED late
  BY CommandsAre DEF CancelUnderLock, Shape, TypeOK, Free
<1>a. file.status \in Statuses /\ file.pid \in {0} \cup Runs
  BY <1>0, FileIs
<1>1. CASE file.status \in Active /\ file.pid # 0
  <2>1. file' = [file EXCEPT !.marker = TRUE] /\ cmds' = [cmds EXCEPT ![c].pid = file.pid, ![c].at = "signalled"]
    BY <1>1 DEF CancelUnderLock
  <2>2. file' \in FileType /\ file'.status = file.status /\ file'.pid = file.pid
    BY <1>0, <2>1, FileMarked
  <2>3. PICK k : k = SignalledTo(cmds[c], file.pid)
    OBVIOUS
  <2>4. cmds' = [cmds EXCEPT ![c] = k]
    BY <2>1, <2>3 DEF SignalledTo
  <2>5. /\ k \in CommandType /\ k.at = "signalled" /\ k.op = cmds[c].op /\ k.mine = cmds[c].mine
        /\ k.term = cmds[c].term /\ k.pid = file.pid
    BY <1>0, <1>a, <2>3, SignalledIs
  <2>6. Becomes(c, k)
    BY <2>4, <2>5, BecomesIs DEF Shape
  <2>7. Continues(c, k)
    BY <1>0, <2>5 DEF Continues, Bodies, Shape, AloneInv, InBody
  <2>8. StateMoves
    BY <1>0, <2>2, SameFaults DEF StateMoves, BodyRest
  <2>9. StatusMoves
    BY <2>2 DEF StatusMoves
  <2>10. ASSUME ~late PROVE CommandKnows(c, k)
    <3>1. file.status \notin {"missing", "lost"}
      BY <1>1 DEF Active
    <3>2. \A i \in Runs : child[i] = "alive" => i = k.pid
      BY <1>0, <2>5, <2>10, LivesNamed DEF ProcessInv
    <3> QED
      BY <1>0, <1>1, <1>a, <2>2, <2>5, <3>1, <3>2 DEF CommandKnows
  <2> QED
    BY <1>0, <2>6, <2>7, <2>8, <2>9, <2>10, CommandKeeps, CommandProcess
<1>2. CASE ~(file.status \in Active /\ file.pid # 0)
  <2>1. PICK s \in Statuses : /\ file' = [file EXCEPT !.status = s]
                              /\ s = IF file.status \in Active \cup {"missing"} THEN "cancelled" ELSE file.status
    BY <1>2, <1>a DEF CancelUnderLock, Statuses
  <2>2. file' \in FileType /\ file'.status = s /\ file'.pid = file.pid
    BY <1>0, <2>1, FileStatus
  <2>3. PICK k : k = EndedAt(cmds[c], "done")
    OBVIOUS
  <2>4. Becomes(c, k)
    BY <1>2, <2>3, EndsIs DEF CommandPlaces, CancelUnderLock
  <2>5. Continues(c, k)
    BY <1>0, <2>3, EndedIs, NullsAre DEF Continues, CommandPlaces, Bodies
  <2>6. k.at \in {"done", "none"} /\ (k.at = "done" => k.op = "cancel")
    BY <1>0, <2>3, EndedIs, NullsAre DEF CommandPlaces
  <2>7. StateMoves
    BY <1>0, <2>1, <2>2, SameFaults DEF StateMoves, BodyRest
  <2>8. ASSUME ~late, NEW i \in Runs, child[i] = "alive"
        PROVE  file.status = "cancelled" /\ row.known
    <3>1. file.pid = i /\ file.status \in {"running", "cancelled"}
      BY <1>0, <2>8, LivesNamed DEF ProcessInv
    <3>2. file.status = "cancelled"
      BY <1>2, <3>1, RunsAre DEF Active
    <3> QED
      BY <1>0, <2>8, <3>2 DEF ProcessInv, FreshInv
  <2>9. ASSUME ~late PROVE StatusMoves
    BY <2>1, <2>2, <2>8, <2>9 DEF StatusMoves, Active
  <2>10. ASSUME ~late, ~row.known PROVE CommandKnows(c, k)
    <3>1. \A i \in Runs : child[i] # "alive"
      BY <2>8, <2>10
    <3>2. s # "missing" /\ (s = "lost" => file.status = "lost")
      BY <2>1
    <3>3. s = "lost" => \A i \in Runs : runner[i].at # "spawned"
      BY <2>10, <3>2 DEF ProcessInv, FreshInv
    <3> QED
      BY <1>0, <2>2, <2>6, <3>1, <3>2, <3>3 DEF CommandKnows
  <2> QED
    BY <1>0, <2>4, <2>5, <2>7, <2>9, <2>10, CommandKeeps, CommandProcess
<1> QED
  BY <1>1, <1>2

LEMMA StepCancelPID ==
  ASSUME Shape, ProcessInv, NEW c \in Cmds, cancelPID(c)
  PROVE  Shape' /\ ProcessInv'
<1>0. /\ cmds[c] \in CommandType /\ cmds[c].at = "signalled" /\ cmds[c].op = "cancel" /\ file \in FileType
      /\ late \in BOOLEAN /\ UNCHANGED <<box, disk, runner, child, coord, row, stopped, late>>
  BY CommandsAre DEF cancelPID, Shape, TypeOK, CoordInv
<1>1. CASE /\ Set(c, "dead") /\ UNCHANGED faults /\ stranger' \in {0, stranger}
           /\ ~processAlive(cmds[c].pid) \/ stranger = cmds[c].pid
  <2>1. PICK k : k = PlacedAt(cmds[c], "dead")
    OBVIOUS
  <2>2. Becomes(c, k)
    BY <1>1, <2>1, SetIs DEF CommandPlaces
  <2>3. /\ k.at = "dead" /\ k.op = cmds[c].op /\ k.term = cmds[c].term /\ k.mine = cmds[c].mine
        /\ k.pid = cmds[c].pid
    BY <1>0, <2>1, PlacedIs DEF CommandPlaces
  <2>4. Continues(c, k)
    BY <1>0, <2>3 DEF Continues, Bodies, Shape, AloneInv, InBody
  <2>5. StateMoves
    BY <1>0, <1>1, SameFaults DEF StateMoves, disk
  <2>6. StatusMoves
    BY <1>0 DEF StatusMoves, disk
  <2>7. ASSUME ~late, ~row.known PROVE CommandKnows(c, k)
    <3>1. k.pid \in Runs /\ k.pid = file.pid /\ lock = 0
      BY <1>0, <2>3, <2>7 DEF ProcessInv, FreshInv
    <3>2. child[k.pid] # "alive"
      <4>1. CASE ~processAlive(cmds[c].pid)
        BY <2>3, <3>1, <4>1, RunsAre DEF processAlive
      <4>2. CASE stranger = cmds[c].pid
        BY <2>3, <3>1, <4>2 DEF Shape, RunnersInv
      <4> QED
        BY <1>1, <4>1, <4>2
    <3>3. k.mine => Barred /\ \A i \in Runs : child[i] # "alive"
      BY <1>0, <2>3, <2>7, <3>2 DEF ProcessInv, FreshInv
    <3> QED
      BY <1>0, <2>3, <3>1, <3>2, <3>3 DEF CommandKnows, Barred, disk
  <2> QED
    BY <1>0, <2>2, <2>4, <2>5, <2>6, <2>7, CommandKeeps, CommandProcess
<1>2. CASE Faults(1) /\ Ended(c, "failed") /\ UNCHANGED stranger
  <2>1. PICK k : k = EndedAt(cmds[c], "failed")
    OBVIOUS
  <2>2. Becomes(c, k)
    BY <1>2, <2>1, EndsIs DEF CommandPlaces
  <2>3. Continues(c, k)
    BY <1>0, <2>1, EndedIs, NullsAre DEF Continues, CommandPlaces, Bodies
  <2>4. CommandKnows(c, k)
    BY <1>0, <2>1, EndedIs, NullsAre, KnowsNothing DEF CommandPlaces
  <2> QED
    BY <1>0, <1>2, <2>2, <2>3, <2>4, FaultsAre, QuietStep
<1> QED
  BY <1>1, <1>2 DEF cancelPID

LEMMA StepMarkCancelled ==
  ASSUME Shape, ProcessInv, NEW c \in Cmds, MarkCancelled(c)
  PROVE  Shape' /\ ProcessInv'
<1>0. /\ cmds[c] \in CommandType /\ cmds[c].at = "dead" /\ cmds[c].op = "cancel" /\ file \in FileType
      /\ late \in BOOLEAN /\ UNCHANGED BodyRest /\ UNCHANGED late /\ file' = [file EXCEPT !.status = "cancelled"]
  BY CommandsAre DEF MarkCancelled, Shape, TypeOK, CoordInv
<1>1. file' \in FileType /\ file'.status = "cancelled" /\ file'.pid = file.pid
  BY <1>0, FileStatus DEF Statuses
<1>2. PICK k : k = EndedAt(cmds[c], "done")
  OBVIOUS
<1>3. Becomes(c, k)
  BY <1>2, EndsIs DEF CommandPlaces, MarkCancelled
<1>4. Continues(c, k)
  BY <1>0, <1>2, EndedIs, NullsAre DEF Continues, CommandPlaces, Bodies
<1>5. k.at \in {"done", "none"} /\ k.mine = cmds[c].mine /\ (k.at = "done" => k.op = "cancel")
  BY <1>0, <1>2, EndedIs, NullsAre DEF CommandPlaces
<1>6. StateMoves
  BY <1>0, <1>1, SameFaults DEF StateMoves, BodyRest
<1>7. ASSUME ~late PROVE StatusMoves
  <2>1. ASSUME ~row.known, lock = 0, NEW i \in Runs, child[i] = "alive" PROVE FALSE
    <3>1. file.pid = i
      BY <1>7, <2>1, LivesNamed DEF ProcessInv
    <3>2. file.pid = cmds[c].pid /\ child[cmds[c].pid] # "alive"
      BY <1>0, <1>7, <2>1 DEF ProcessInv, FreshInv
    <3> QED
      BY <2>1, <3>1, <3>2
  <2> QED
    BY <1>1, <2>1 DEF StatusMoves, Active
<1>8. ASSUME ~late, ~row.known PROVE CommandKnows(c, k)
  <2>1. k.mine => Barred /\ \A i \in Runs : child[i] # "alive"
    BY <1>0, <1>5, <1>8 DEF ProcessInv, FreshInv
  <2> QED
    BY <1>1, <1>5, <2>1 DEF CommandKnows, Barred
<1> QED
  BY <1>0, <1>3, <1>4, <1>6, <1>7, <1>8, CommandKeeps, CommandProcess

LEMMA StepSupervised ==
  ASSUME Shape, ProcessInv, NEW c \in Cmds, Supervised(c)
  PROVE  Shape' /\ ProcessInv'
BY StepVet, StepLead, StepSettle, StepReadStatus, StepReadPid, StepMarkAlive, StepMarkLost, StepReadOutput,
   StepCancelUnderLock, StepCancelPID, StepMarkCancelled, StepEndGate DEF Supervised

-----------------------------------------------------------------------------
(* The steps of a helper *)

\* The helper i goes to x.
Goes(i, x) ==
  /\ runner' \in [Runs -> RunnerType]
  /\ \A j \in Runs : runner'[j].at = IF j = i THEN x ELSE runner[j].at
  /\ \A j \in Runs : runner'[j].replace = runner[j].replace

LEMMA MoveIs ==
  ASSUME TypeOK, NEW i \in Runs, NEW x \in RunnerPlaces, Move(i, x)
  PROVE  Goes(i, x)
BY RunnerAt DEF Move, Goes, TypeOK

HelperFrame == UNCHANGED <<box, cmds, stranger, coord, row, stopped>>

LEMMA HelperShape ==
  ASSUME Shape, NEW i \in Runs, runner[i].at \notin {"none", "gone"}, HelperFrame,
         runner' \in [Runs -> RunnerType], child' \in [Runs -> {"none", "alive", "dead"}],
         file' \in FileType, lock' \in {0} \cup Runs, late' \in BOOLEAN, faults' \in 0..MaxFaults, RunnersInv'
  PROVE  Shape'
<1>1. TypeOK'
  BY DEF Shape, TypeOK, HelperFrame
<1>2. CoordInv' /\ AloneInv'
  BY DEF Shape, CoordInv, AloneInv, HelperFrame, InBody, PastVet, Script
<1>3. box = "running"
  BY DEF Shape, BoxInv
<1>4. BoxInv'
  BY <1>3 DEF BoxInv, HelperFrame
<1> QED
  BY <1>1, <1>2, <1>4 DEF Shape

LEMMA StateIs ==
  ASSUME Shape
  PROVE  /\ file \in FileType /\ file.pid \in {0} \cup Runs /\ file.status \in Statuses
         /\ lock \in {0} \cup Runs /\ late \in BOOLEAN /\ faults \in 0..MaxFaults /\ stopped \in BOOLEAN
         /\ runner \in [Runs -> RunnerType] /\ child \in [Runs -> {"none", "alive", "dead"}]
         /\ cmds \in [Cmds -> CommandType] /\ row \in RowType /\ coord \in CoordType
         /\ stranger \in {0} \cup Runs
BY FileIs DEF Shape, TypeOK

\* Under the lock, only its holder may live, and no cancellation is under way.
LEMMA UnderLock ==
  ASSUME Shape, ProcessInv, ~late, NEW i \in Runs, lock = i
  PROVE  /\ \A j \in Runs : child[j] = "alive" => j = i
         /\ ~row.known => /\ \A c \in Cmds : cmds[c].at \notin {"signalled", "dead"}
                          /\ \A c \in Cmds : ~(cmds[c].mine /\ cmds[c].op = "cancel" /\ cmds[c].at = "done")
                          /\ ~stopped
BY RunsAre DEF ProcessInv, LivingInv, FreshInv, Barred

\* What a locked step leaves, when the state names no ended process.
LEMMA LockedFresh ==
  ASSUME Shape, ProcessInv, ~late, ~row.known, NEW i \in Runs, lock = i, HelperFrame,
         ~Stale', file'.status # "lost",
         \A j \in Runs : runner'[j].at = "reserved" => file'.pid = 0,
         \A j \in Runs : child'[j] = "alive" /\ lock' = 0 => file'.status = "running"
  PROVE  FreshInv'
BY UnderLock DEF FreshInv, HelperFrame

LEMMA StepReserve ==
  ASSUME Shape, ProcessInv, NEW i \in Runs, Reserve(i)
  PROVE  Shape' /\ ProcessInv'
<1>0. /\ runner[i].at = "spawned" /\ lock = 0 /\ HelperFrame /\ UNCHANGED <<file, child, late, faults>>
  BY DEF Reserve, At, Free, HelperFrame
<1>a. file.pid # i
  BY <1>0 DEF Shape, RunnersInv
<1>1. CASE ~MayRun(i)
  <2>1. Goes(i, "gone") /\ UNCHANGED lock
    BY <1>1, MoveIs DEF Reserve, Shape, RunnerPlaces
  <2>2. RunnersInv'
    BY <1>0, <1>a, <2>1, RunsAre DEF Shape, RunnersInv, Goes, HelperFrame, Locking
  <2>3. Shape'
    BY <1>0, <2>1, <2>2, HelperShape, StateIs DEF Goes
  <2>4. LivingInv => LivingInv'
    BY <1>0, <2>1 DEF LivingInv
  <2>5. Stale' <=> Stale
    BY <1>0, <1>a, <2>1 DEF Stale, Goes, HelperFrame
  <2>6. FreshInv => FreshInv'
    BY <1>0, <2>1, <2>5 DEF FreshInv, Barred, Goes, HelperFrame
  <2> QED
    BY <1>0, <2>3, <2>4, <2>6 DEF ProcessInv, HelperFrame
<1>2. CASE MayRun(i)
  <2>1. Goes(i, "reserved") /\ lock' = i
    BY <1>2, MoveIs DEF Reserve, Shape, RunnerPlaces
  <2>2. RunnersInv'
    BY <1>0, <1>a, <2>1, RunsAre DEF Shape, RunnersInv, Goes, HelperFrame, Locking
  <2>3. Shape'
    BY <1>0, <2>1, <2>2, HelperShape, StateIs DEF Goes
  <2>4. ASSUME ~late, NEW j \in Runs, child[j] = "alive" PROVE FALSE
    <3>1. file.pid = j /\ file.status \in {"running", "cancelled"}
      BY <1>0, <2>4, LivesNamed DEF ProcessInv
    <3>2. processAlive(file.pid)
      BY <2>4, <3>1, RunsAre DEF processAlive
    <3> QED
      BY <1>2, <3>1, <3>2 DEF MayRun, Active
  <2>5. ASSUME ~late, ~row.known PROVE FreshInv'
    <3>0. FreshInv
      BY <2>5 DEF ProcessInv
    <3>1. ~runner[i].replace
      BY <2>5 DEF Shape, RunnersInv
    <3>2. file.status = "missing"
      BY <1>0, <1>2, <3>0, <3>1 DEF MayRun, FreshInv
    <3>3. file.pid = 0
      BY <3>2 DEF Shape, RunnersInv
    <3>4. ~Barred
      BY <1>0, <3>2 DEF Barred
    <3>5. /\ \A c \in Cmds : cmds[c].at \notin {"signalled", "dead"}
          /\ \A c \in Cmds : ~(cmds[c].mine /\ cmds[c].op = "cancel" /\ cmds[c].at = "done")
          /\ ~stopped
      BY <3>0, <3>3, <3>4, RunsAre DEF FreshInv
    <3>6. ~Stale'
      BY <1>0, <3>3, RunsAre DEF Stale
    <3> QED
      BY <1>0, <2>1, <3>2, <3>3, <3>5, <3>6, RunsAre DEF FreshInv, HelperFrame
  <2>6. ~late => LivingInv'
    BY <1>0, <2>4 DEF LivingInv
  <2> QED
    BY <1>0, <2>3, <2>5, <2>6 DEF ProcessInv, HelperFrame
<1> QED
  BY <1>1, <1>2

LEMMA StepClear ==
  ASSUME Shape, ProcessInv, NEW i \in Runs, clearStateForReplacement(i)
  PROVE  Shape' /\ ProcessInv'
<1>0. /\ runner[i].at = "reserved" /\ HelperFrame /\ UNCHANGED <<lock, child, late, faults>> /\ Goes(i, "cleared")
      /\ file' = [NoState EXCEPT !.status = file.status]
  BY MoveIs DEF clearStateForReplacement, At, HelperFrame, Shape, RunnerPlaces
<1>1. lock = i
  BY <1>0 DEF Shape, RunnersInv, Locking
<1>2. file' \in FileType /\ file'.status = file.status /\ file'.pid = 0
  BY <1>0, NullsAre, FileStatus, StateIs
<1>3. RunnersInv'
  BY <1>0, <1>1, <1>2, RunsAre DEF Shape, RunnersInv, Goes, HelperFrame, Locking
<1>4. Shape'
  BY <1>0, <1>2, <1>3, HelperShape, StateIs DEF Goes
<1>5. ~late => LivingInv'
  BY <1>0, <1>1, UnderLock DEF LivingInv
<1>6. ASSUME ~late, ~row.known PROVE FreshInv'
  <2>1. ~Stale /\ ~Stale'
    BY <1>0, <1>2, <1>6, RunsAre DEF Stale, ProcessInv, FreshInv
  <2>2. file'.status # "lost"
    BY <1>2, <1>6, <2>1 DEF ProcessInv, FreshInv
  <2>3. \A j \in Runs : child'[j] = "alive" /\ lock' = 0 => file'.status = "running"
    BY <1>0, <1>1, RunsAre
  <2> QED
    BY <1>0, <1>1, <1>2, <1>6, <2>1, <2>2, <2>3, LockedFresh
<1> QED
  BY <1>0, <1>4, <1>5, <1>6 DEF ProcessInv, HelperFrame

LEMMA StepMarkStarting ==
  ASSUME Shape, ProcessInv, NEW i \in Runs, MarkStarting(i)
  PROVE  Shape' /\ ProcessInv'
<1>0. /\ runner[i].at = "cleared" /\ HelperFrame /\ UNCHANGED <<lock, child, late, faults>> /\ Goes(i, "starting")
      /\ file' = [file EXCEPT !.status = "starting", !.marker = FALSE]
  BY MoveIs DEF MarkStarting, At, HelperFrame, Shape, RunnerPlaces
<1>1. lock = i /\ file.pid = 0
  BY <1>0 DEF Shape, RunnersInv, Locking
<1>2. file' \in FileType /\ file'.status = "starting" /\ file'.pid = 0
  BY <1>0, <1>1, FileStarting, StateIs
<1>3. RunnersInv'
  BY <1>0, <1>1, <1>2, RunsAre DEF Shape, RunnersInv, Goes, HelperFrame, Locking
<1>4. Shape'
  BY <1>0, <1>2, <1>3, HelperShape, StateIs DEF Goes
<1>5. ~late => LivingInv'
  BY <1>0, <1>1, UnderLock DEF LivingInv
<1>6. ASSUME ~late, ~row.known PROVE FreshInv'
  <2>1. ~Stale'
    BY <1>2, RunsAre DEF Stale
  <2>2. \A j \in Runs : child'[j] = "alive" /\ lock' = 0 => file'.status = "running"
    BY <1>0, <1>1, RunsAre
  <2> QED
    BY <1>0, <1>1, <1>2, <1>6, <2>1, <2>2, LockedFresh
<1> QED
  BY <1>0, <1>4, <1>5, <1>6 DEF ProcessInv, HelperFrame

LEMMA StepStartChild ==
  ASSUME Shape, ProcessInv, NEW i \in Runs, StartChild(i)
  PROVE  Shape' /\ ProcessInv'
<1>0. runner[i].at = "starting" /\ HelperFrame /\ UNCHANGED late
  BY DEF StartChild, At, HelperFrame
<1>1. lock = i /\ file.pid = 0 /\ file.status # "missing"
  BY <1>0 DEF Shape, RunnersInv, Locking
<1>2. ~late => \A j \in Runs : child[j] = "alive" => j = i
  BY <1>1, UnderLock
<1>3. ~late /\ ~row.known => file.status # "lost"
  BY <1>1, RunsAre DEF ProcessInv, FreshInv, Stale
<1>4. CASE child' = [child EXCEPT ![i] = "alive"] /\ Move(i, "child") /\ UNCHANGED <<disk, faults>>
  <2>1. Goes(i, "child")
    BY <1>4, MoveIs DEF Shape, RunnerPlaces
  <2>2. child' \in [Runs -> {"none", "alive", "dead"}] /\ \A j \in Runs : child'[j] = IF j = i THEN "alive" ELSE child[j]
    BY <1>4, StateIs
  <2>3. RunnersInv'
    BY <1>0, <1>1, <1>4, <2>1, <2>2, RunsAre DEF Shape, RunnersInv, Goes, HelperFrame, Locking, disk
  <2>4. Shape'
    BY <1>0, <1>4, <2>1, <2>2, <2>3, HelperShape, StateIs DEF Goes, disk
  <2>5. ~late => LivingInv'
    BY <1>1, <1>2, <1>4, <2>2 DEF LivingInv, disk
  <2>6. ASSUME ~late, ~row.known PROVE FreshInv'
    <3>1. ~Stale'
      BY <1>1, <1>4, RunsAre DEF Stale, disk
    <3>2. file'.status # "lost" /\ file'.pid = 0 /\ lock' # 0
      BY <1>1, <1>3, <1>4, <2>6, RunsAre DEF disk
    <3> QED
      BY <1>0, <1>1, <2>6, <3>1, <3>2, LockedFresh
  <2> QED
    BY <1>0, <2>4, <2>5, <2>6 DEF ProcessInv, HelperFrame
<1>5. CASE /\ Faults(1) /\ Move(i, "gone") /\ UNCHANGED child
           /\ file' = [file EXCEPT !.status = "exited"] /\ lock' = 0
  <2>1. Goes(i, "gone") /\ faults' \in 0..MaxFaults
    BY <1>5, MoveIs, FaultsAre DEF Shape, RunnerPlaces
  <2>2. file' \in FileType /\ file'.status = "exited" /\ file'.pid = 0
    BY <1>1, <1>5, FileStatus, StateIs DEF Statuses
  <2>3. RunnersInv'
    BY <1>0, <1>1, <1>5, <2>1, <2>2, RunsAre DEF Shape, RunnersInv, Goes, HelperFrame, Locking
  <2>4. Shape'
    BY <1>0, <1>5, <2>1, <2>2, <2>3, HelperShape, StateIs DEF Goes
  <2>5. ASSUME ~late, NEW j \in Runs, child'[j] = "alive" PROVE FALSE
    <3>1. j = i
      BY <1>2, <1>5, <2>5
    <3> QED
      BY <1>0, <1>5, <2>5, <3>1 DEF Shape, RunnersInv
  <2>6. ASSUME ~late, ~row.known PROVE FreshInv'
    <3>1. ~Stale'
      BY <2>2, RunsAre DEF Stale
    <3> QED
      BY <1>0, <1>1, <2>2, <2>5, <2>6, <3>1, LockedFresh
  <2>7. ~late => LivingInv'
    BY <2>5 DEF LivingInv
  <2> QED
    BY <1>0, <2>4, <2>6, <2>7 DEF ProcessInv, HelperFrame
<1> QED
  BY <1>4, <1>5 DEF StartChild

LEMMA StepRecordPid ==
  ASSUME Shape, ProcessInv, NEW i \in Runs, RecordPid(i)
  PROVE  Shape' /\ ProcessInv'
<1>0. /\ runner[i].at = "child" /\ HelperFrame /\ UNCHANGED <<lock, child, late, faults>> /\ Goes(i, "pid")
      /\ file' = [file EXCEPT !.pid = i]
  BY MoveIs DEF RecordPid, At, HelperFrame, Shape, RunnerPlaces
<1>1. lock = i /\ file.pid = 0 /\ file.status # "missing"
  BY <1>0 DEF Shape, RunnersInv, Locking
<1>2. file' \in FileType /\ file'.status = file.status /\ file'.pid = i
  BY <1>0, FilePid, StateIs
<1>3. RunnersInv'
  BY <1>0, <1>1, <1>2, RunsAre DEF Shape, RunnersInv, Goes, HelperFrame, Locking
<1>4. Shape'
  BY <1>0, <1>2, <1>3, HelperShape, StateIs DEF Goes
<1>5. ~late => LivingInv'
  BY <1>0, <1>1, UnderLock DEF LivingInv
<1>6. ASSUME ~late, ~row.known PROVE FreshInv'
  <2>1. ~Stale'
    BY <1>0, <1>2 DEF Stale, Goes
  <2>2. file'.status # "lost"
    BY <1>1, <1>2, <1>6, RunsAre DEF Stale, ProcessInv, FreshInv
  <2>3. /\ \A j \in Runs : child'[j] = "alive" /\ lock' = 0 => file'.status = "running"
        /\ \A j \in Runs : runner'[j].at # "reserved"
    BY <1>0, <1>1, RunsAre DEF Shape, RunnersInv, Goes, Locking
  <2> QED
    BY <1>0, <1>1, <1>6, <2>1, <2>2, <2>3, LockedFresh
<1> QED
  BY <1>0, <1>4, <1>5, <1>6 DEF ProcessInv, HelperFrame

LEMMA StepPublish ==
  ASSUME Shape, ProcessInv, NEW i \in Runs, Publish(i)
  PROVE  Shape' /\ ProcessInv'
<1>0. /\ runner[i].at = "pid" /\ HelperFrame /\ UNCHANGED <<child, late, faults>> /\ Goes(i, "waiting")
      /\ file' = [file EXCEPT !.status = "running"] /\ lock' = 0
  BY MoveIs DEF Publish, At, HelperFrame, Shape, RunnerPlaces
<1>1. lock = i /\ file.pid = i
  BY <1>0 DEF Shape, RunnersInv, Locking
<1>2. file' \in FileType /\ file'.status = "running" /\ file'.pid = i
  BY <1>0, <1>1, FileStatus, StateIs DEF Statuses, Active
<1>3. RunnersInv'
  BY <1>0, <1>1, <1>2, RunsAre DEF Shape, RunnersInv, Goes, HelperFrame, Locking
<1>4. Shape'
  BY <1>0, <1>2, <1>3, HelperShape, StateIs DEF Goes
<1>5. ~late => LivingInv'
  BY <1>0, <1>1, <1>2, UnderLock DEF LivingInv
<1>6. ASSUME ~late, ~row.known PROVE FreshInv'
  <2>1. ~Stale'
    BY <1>0, <1>2 DEF Stale, Goes
  <2>2. \A j \in Runs : runner'[j].at # "reserved"
    BY <1>0, <1>1, RunsAre DEF Shape, RunnersInv, Goes, Locking
  <2> QED
    BY <1>0, <1>1, <1>2, <1>6, <2>1, <2>2, LockedFresh
<1> QED
  BY <1>0, <1>4, <1>5, <1>6 DEF ProcessInv, HelperFrame

\* A step of a helper that leaves the lock, and of the state what it says of the
\* process.
LEMMA UnlockedFresh ==
  ASSUME Shape, ProcessInv, ~late, ~row.known, HelperFrame, UNCHANGED lock,
         file'.pid = file.pid, Stale' => Stale,
         file'.status = file.status \/ (file'.status \notin {"missing", "lost"} /\ \A j \in Runs : child'[j] # "alive"),
         \A j \in Runs : child'[j] = "alive" => child[j] = "alive",
         \A j \in Runs : runner'[j].at \in {"spawned", "reserved"} => runner'[j].at = runner[j].at,
         file'.status = "lost" => Stale'
  PROVE  FreshInv'
<1>0. FreshInv
  BY DEF ProcessInv
<1>1. Barred => Barred'
  BY DEF Barred
<1>2. \A j \in Runs : child'[j] = "alive" /\ lock' = 0 => file'.status = "running"
  BY <1>0 DEF FreshInv
<1>3. Stale' => /\ \A j \in Runs : runner'[j].at # "spawned"
                /\ box' = "running" => coord'.at # "exec"
                /\ \A c \in Cmds : cmds'[c].mine /\ cmds'[c].op = "inspect" /\ cmds'[c].status = "missing"
                                     => cmds'[c].at \notin {"out", "done"}
  BY <1>0 DEF FreshInv, HelperFrame
<1>4. \A c \in Cmds : cmds'[c].at \in {"signalled", "dead"} =>
         cmds'[c].pid \in Runs /\ file'.pid = cmds'[c].pid /\ lock' = 0
  BY <1>0 DEF FreshInv, HelperFrame
<1>5. \A c \in Cmds : cmds'[c].at = "dead" => child'[cmds'[c].pid] # "alive"
  BY <1>0 DEF FreshInv, HelperFrame
<1>6. \A c \in Cmds : cmds'[c].mine /\ cmds'[c].op = "cancel" /\ cmds'[c].at \in {"signalled", "dead", "done"} =>
         Barred' /\ \A j \in Runs : child'[j] = "alive" => cmds'[c].at = "signalled" /\ j = cmds'[c].pid
  BY <1>0, <1>1 DEF FreshInv, HelperFrame
<1>7. stopped' => Barred' /\ \A j \in Runs : child'[j] # "alive"
  BY <1>0, <1>1 DEF FreshInv, HelperFrame
<1>8. \A j \in Runs : runner'[j].at = "reserved" => file'.pid = 0
  BY <1>0 DEF FreshInv
<1> QED
  BY <1>2, <1>3, <1>4, <1>5, <1>6, <1>7, <1>8 DEF FreshInv

LEMMA StepReveal ==
  ASSUME Shape, ProcessInv, NEW i \in Runs, Reveal(i)
  PROVE  Shape' /\ ProcessInv'
<1>0. child[i] = "alive" /\ HelperFrame /\ UNCHANGED <<lock, runner, child, late, faults>>
  BY DEF Reveal, HelperFrame
<1>1. PICK s \in Sessions : file' = [file EXCEPT !.out = s]
  BY DEF Reveal, Sessions
<1>2. file' \in FileType /\ file'.status = file.status /\ file'.pid = file.pid
  BY <1>1, FileOut, StateIs
<1>3. RunnersInv'
  BY <1>0, <1>2 DEF Shape, RunnersInv, HelperFrame
<1>4. Shape'
  BY <1>0, <1>2, <1>3, HelperShape, StateIs DEF Shape, RunnersInv
<1>5. LivingInv => LivingInv'
  BY <1>0, <1>2 DEF LivingInv
<1>6. Stale' <=> Stale
  BY <1>0, <1>2 DEF Stale, HelperFrame
<1>7. ASSUME ~late, ~row.known PROVE FreshInv'
  <2>1. file'.status = "lost" => Stale'
    BY <1>2, <1>6, <1>7 DEF ProcessInv, FreshInv
  <2> QED
    BY <1>0, <1>2, <1>6, <1>7, <2>1, UnlockedFresh
<1> QED
  BY <1>0, <1>4, <1>5, <1>7 DEF ProcessInv, HelperFrame

LEMMA StepChildEnds ==
  ASSUME Shape, ProcessInv, NEW i \in Runs, ChildEnds(i)
  PROVE  Shape' /\ ProcessInv'
<1>0. /\ runner[i].at = "waiting" /\ HelperFrame /\ UNCHANGED <<disk, late, faults>> /\ Goes(i, "ending")
      /\ child' = [child EXCEPT ![i] = "dead"]
  BY MoveIs DEF ChildEnds, At, HelperFrame, Shape, RunnerPlaces
<1>1. child' \in [Runs -> {"none", "alive", "dead"}] /\ \A j \in Runs : child'[j] = IF j = i THEN "dead" ELSE child[j]
  BY <1>0, StateIs
<1>2. RunnersInv'
  BY <1>0, <1>1, RunsAre DEF Shape, RunnersInv, Goes, HelperFrame, Locking, disk
<1>3. Shape'
  BY <1>0, <1>1, <1>2, HelperShape, StateIs DEF Goes, disk
<1>4. LivingInv => LivingInv'
  BY <1>0, <1>1 DEF LivingInv, disk
<1>5. Stale' <=> Stale
  BY <1>0 DEF Stale, HelperFrame, disk, Goes
<1>6. ASSUME ~late, ~row.known PROVE FreshInv'
  <2>1. file'.status = "lost" => Stale'
    BY <1>0, <1>5, <1>6 DEF ProcessInv, FreshInv, disk
  <2>2. /\ \A j \in Runs : child'[j] = "alive" => child[j] = "alive"
        /\ \A j \in Runs : runner'[j].at \in {"spawned", "reserved"} => runner'[j].at = runner[j].at
    BY <1>0, <1>1 DEF Goes
  <2> QED
    BY <1>0, <1>5, <1>6, <2>1, <2>2, UnlockedFresh DEF disk
<1> QED
  BY <1>0, <1>3, <1>4, <1>6 DEF ProcessInv, HelperFrame

LEMMA StepRecordEnd ==
  ASSUME Shape, ProcessInv, NEW i \in Runs, RecordEnd(i)
  PROVE  Shape' /\ ProcessInv'
<1>0. runner[i].at = "ending" /\ HelperFrame /\ UNCHANGED <<lock, child, faults>> /\ Goes(i, "gone")
  BY MoveIs DEF RecordEnd, At, HelperFrame, Shape, RunnerPlaces
<1>1. PICK s \in {"cancelled", "exited"} : Record(s, i)
  BY DEF RecordEnd
<1>2. file' \in FileType /\ file'.status = s /\ file'.pid = file.pid
  BY <1>1, FileStatus, StateIs DEF Record, Statuses
<1>3. late' \in BOOLEAN /\ (~late' => ~late /\ lock = 0 /\ file.pid = i)
  BY <1>1 DEF Record
<1>4. RunnersInv'
  BY <1>0, <1>2, RunsAre DEF Shape, RunnersInv, Goes, HelperFrame, Locking
<1>5. Shape'
  BY <1>0, <1>2, <1>3, <1>4, HelperShape, StateIs DEF Goes
<1>6. ASSUME ~late', NEW j \in Runs, child[j] = "alive" PROVE FALSE
  <2>1. j = i
    BY <1>3, <1>6, LivesNamed DEF ProcessInv
  <2> QED
    BY <1>0, <1>6, <2>1 DEF Shape, RunnersInv
<1>7. ~late' => LivingInv'
  BY <1>0, <1>6 DEF LivingInv
<1>8. ASSUME ~late', ~row.known PROVE FreshInv'
  <2>1. ~Stale'
    <3>1. stranger # i
      BY <1>0 DEF Shape, RunnersInv
    <3> QED
      BY <1>0, <1>2, <1>3, <1>8, <3>1 DEF Stale, HelperFrame, Active
  <2>2. \A j \in Runs : runner'[j].at \in {"spawned", "reserved"} => runner'[j].at = runner[j].at
    BY <1>0 DEF Goes
  <2> QED
    BY <1>0, <1>2, <1>3, <1>6, <1>8, <2>1, <2>2, UnlockedFresh
<1> QED
  BY <1>0, <1>5, <1>7, <1>8 DEF ProcessInv, HelperFrame

LEMMA StepHelper ==
  ASSUME Shape, ProcessInv, NEW i \in Runs, Helper(i)
  PROVE  Shape' /\ ProcessInv'
BY StepReserve, StepClear, StepMarkStarting, StepStartChild, StepRecordPid, StepPublish, StepReveal,
   StepChildEnds, StepRecordEnd DEF Helper

-----------------------------------------------------------------------------
(* The coordinator *)

Waiting(s) == s \in CoordType /\ s.at # "asked" /\ s.cmd = 0 /\ (s.at = "ask" => s.op # "none")

LEMMA AskingIs ==
  ASSUME NEW op \in {"launch", "discover", "watch", "cancel", "settle", "gate"}
  PROVE  LET s == [Idle EXCEPT !.at = "ask", !.op = op] IN Waiting(s) /\ s.at = "ask"
BY DEF Idle, CoordType, Waiting

LEMMA RestingIs ==
  ASSUME NEW x \in {"exec", "persist", "unavailable"}
  PROVE  LET s == [Idle EXCEPT !.at = x] IN Waiting(s) /\ s.at = x
BY DEF Idle, CoordType, Waiting

LEMMA IdleIs ==
  Waiting(Idle) /\ Idle.at = "idle"
BY DEF Idle, CoordType, Waiting

LEMMA DiscoveredIs ==
  ASSUME NEW status, NEW out
  PROVE  Waiting(Discovered(status, out)) /\ Discovered(status, out).at # "exec"
<1>1. CASE out # "none"
  BY <1>1, AskingIs, RestingIs, IdleIs DEF Discovered
<1>2. CASE out = "none"
  BY <1>2, AskingIs DEF Discovered
<1> QED
  BY <1>1, <1>2

LEMMA LaunchedIs ==
  ASSUME NEW status \in Statuses, row.known \in BOOLEAN
  PROVE  /\ Waiting(StartHeadless(status))
         /\ StartHeadless(status).at = "exec" /\ ~row.known => status = "missing"
<1>1. CASE status \in Active \/ (status = "exited" /\ ~row.known)
  BY <1>1, AskingIs DEF StartHeadless, Active
<1>2. CASE (status \in {"exited", "cancelled", "lost"} /\ row.known) \/ (status = "missing" /\ ~row.known)
  BY <1>2, RestingIs DEF StartHeadless, Active
<1>3. CASE status \in {"cancelled", "lost"} /\ ~row.known
  BY <1>3, IdleIs DEF StartHeadless, Active
<1>4. CASE status = "missing" /\ row.known
  BY <1>4, RestingIs DEF StartHeadless, Active
<1> QED
  BY <1>1, <1>2, <1>3, <1>4 DEF Statuses, Active

\* What an answer makes of the coordinator: a first start follows only on a
\* state that is not there.
LEMMA ObservedIs ==
  ASSUME NEW status \in Statuses, NEW out, row.known \in BOOLEAN
  PROVE  /\ Waiting(Observed(status, out))
         /\ Observed(status, out).at = "exec" /\ ~row.known => status = "missing" /\ coord.op = "launch"
<1>1. CASE coord.op = "launch"
  BY <1>1, LaunchedIs DEF Observed
<1>2. CASE coord.op = "discover"
  BY <1>2, DiscoveredIs DEF Observed
<1>3. CASE coord.op \notin {"launch", "discover"}
  BY <1>3, IdleIs DEF Observed
<1> QED
  BY <1>1, <1>2, <1>3

LEMMA NoneMine ==
  ASSUME Shape, coord.at # "asked", NEW c \in Cmds
  PROVE  ~cmds[c].mine
BY DEF Shape, CoordInv

ClientFrame == UNCHANGED <<box, disk, runner, child, stranger, late>>

LEMMA ClientShape ==
  ASSUME Shape, ClientFrame, row' \in RowType, row.known => row'.known, coord' \in CoordType,
         cmds' \in [Cmds -> CommandType], stopped' \in BOOLEAN, faults' \in 0..MaxFaults, CoordInv', AloneInv',
         box # "running" => \A c \in Cmds : cmds'[c] = NoCommand \/ (cmds'[c].mine /\ cmds'[c].at = "failed")
  PROVE  Shape'
<1>1. TypeOK'
  BY DEF Shape, TypeOK, ClientFrame, disk
<1>2. RunnersInv'
  BY DEF Shape, RunnersInv, ClientFrame, disk
<1>3. BoxInv'
  BY DEF Shape, BoxInv, ClientFrame, disk
<1> QED
  BY <1>1, <1>2, <1>3 DEF Shape

LEMMA ClientProcess ==
  ASSUME Shape, ProcessInv, ClientFrame, row.known => row'.known,
         \A c \in Cmds : cmds'[c].at \in {"signalled", "dead"} =>
           cmds'[c].at = cmds[c].at /\ cmds'[c].pid = cmds[c].pid,
         \A c \in Cmds : cmds'[c].mine /\ cmds'[c].at \in {"out", "done", "signalled", "dead"} =>
           /\ cmds[c].mine /\ cmds'[c].at = cmds[c].at /\ cmds'[c].pid = cmds[c].pid
           /\ cmds'[c].op = cmds[c].op /\ cmds'[c].status = cmds[c].status,
         ~late /\ ~row'.known /\ Stale /\ box = "running" => coord'.at # "exec",
         ~late /\ ~row'.known /\ stopped' => stopped \/ (Barred /\ \A i \in Runs : child[i] # "alive")
  PROVE  ProcessInv'
<1> SUFFICES ASSUME ~late PROVE LivingInv' /\ (row'.known \/ FreshInv')
  BY DEF ProcessInv, ClientFrame
<1>1. LivingInv'
  BY DEF ProcessInv, LivingInv, ClientFrame, disk
<1>2. ASSUME ~row'.known PROVE FreshInv'
  <2>0. FreshInv /\ ~row.known
    BY <1>2 DEF ProcessInv
  <2>1. (Stale' <=> Stale) /\ (Barred' <=> Barred)
    BY DEF Stale, Barred, ClientFrame, disk
  <2>2. Stale' => /\ \A j \in Runs : runner'[j].at # "spawned"
                  /\ box' = "running" => coord'.at # "exec"
    BY <1>2, <2>0, <2>1 DEF FreshInv, ClientFrame
  <2>3. Stale' => \A c \in Cmds : cmds'[c].mine /\ cmds'[c].op = "inspect" /\ cmds'[c].status = "missing"
                                     => cmds'[c].at \notin {"out", "done"}
    BY <2>0, <2>1 DEF FreshInv
  <2>4. \A c \in Cmds : cmds'[c].at \in {"signalled", "dead"} =>
           cmds'[c].pid \in Runs /\ file'.pid = cmds'[c].pid /\ lock' = 0
    BY <2>0 DEF FreshInv, ClientFrame, disk
  <2>5. \A c \in Cmds : cmds'[c].at = "dead" => child'[cmds'[c].pid] # "alive"
    BY <2>0 DEF FreshInv, ClientFrame, disk
  <2>6. \A c \in Cmds : cmds'[c].mine /\ cmds'[c].op = "cancel" /\ cmds'[c].at \in {"signalled", "dead", "done"} =>
           Barred' /\ \A j \in Runs : child'[j] = "alive" => cmds'[c].at = "signalled" /\ j = cmds'[c].pid
    BY <2>0, <2>1 DEF FreshInv, ClientFrame
  <2>7. stopped' => Barred' /\ \A j \in Runs : child'[j] # "alive"
    BY <1>2, <2>0, <2>1 DEF FreshInv, ClientFrame
  <2>8. /\ file'.status = "lost" => Stale'
        /\ \A j \in Runs : runner'[j].at = "reserved" => file'.pid = 0
        /\ \A j \in Runs : child'[j] = "alive" /\ lock' = 0 => file'.status = "running"
    BY <2>0, <2>1 DEF FreshInv, ClientFrame, disk
  <2> QED
    BY <2>2, <2>3, <2>4, <2>5, <2>6, <2>7, <2>8 DEF FreshInv
<1> QED
  BY <1>1, <1>2

\* The coordinator goes on without a command, and leaves the others alone.
LEMMA PlainStep ==
  ASSUME Shape, ProcessInv, ClientFrame, UNCHANGED cmds, coord.at # "asked", Waiting(coord'),
         row' \in RowType, row.known => row'.known, stopped' \in BOOLEAN, faults' \in 0..MaxFaults,
         ~late /\ ~row'.known /\ Stale /\ box = "running" => coord'.at # "exec",
         ~late /\ ~row'.known /\ stopped' => stopped \/ (Barred /\ \A i \in Runs : child[i] # "alive")
  PROVE  Shape' /\ ProcessInv'
<1>1. CoordInv'
  BY NoneMine DEF Shape, CoordInv, Waiting
<1>2. AloneInv'
  BY DEF Shape, AloneInv, InBody, PastVet
<1>3. Shape'
  BY <1>1, <1>2, ClientShape, StateIs DEF Waiting, Shape, BoxInv
<1>4. ProcessInv'
  BY ClientProcess, NoneMine
<1> QED
  BY <1>3, <1>4

LEMMA DropIs ==
  ASSUME Shape, coord.at = "asked", cmds' = Drop(coord.cmd)
  PROVE  /\ cmds' \in [Cmds -> CommandType]
         /\ \A c \in Cmds : ~cmds'[c].mine
         /\ \A c \in Cmds : \/ cmds'[c] = NoCommand
                            \/ /\ cmds[c].at # "none" /\ cmds'[c].at = cmds[c].at
                               /\ cmds'[c].op = cmds[c].op /\ cmds'[c].pid = cmds[c].pid
                               /\ cmds'[c].term = cmds[c].term /\ cmds'[c].status = cmds[c].status
                               /\ ~(cmds[c].mine /\ cmds[c].at = "failed")
<1>1. coord.cmd \in Cmds /\ cmds[coord.cmd].mine /\ \A c \in Cmds : cmds[c].mine => c = coord.cmd
  BY DEF Shape, CoordInv
<1>2. PICK k : k = Dropped(cmds[coord.cmd])
  OBVIOUS
<1>3. cmds' = [cmds EXCEPT ![coord.cmd] = k]
  BY <1>2 DEF Drop, Dropped
<1>4. cmds[coord.cmd] \in CommandType
  BY <1>1, StateIs
<1>5. /\ k \in CommandType /\ ~k.mine
      /\ IF cmds[coord.cmd].at \in {"done", "failed"} THEN k = NoCommand
         ELSE /\ k.at = cmds[coord.cmd].at /\ k.op = cmds[coord.cmd].op /\ k.pid = cmds[coord.cmd].pid
              /\ k.status = cmds[coord.cmd].status /\ k.term = cmds[coord.cmd].term
  BY <1>2, <1>4, DroppedIs
<1>6. cmds' \in [Cmds -> CommandType] /\ \A c \in Cmds : cmds'[c] = IF c = coord.cmd THEN k ELSE cmds[c]
  BY <1>1, <1>3, <1>5, CommandIs, StateIs
<1>7. \A c \in Cmds : cmds[c].at = "none" => cmds[c] = NoCommand
  BY DEF Shape, CoordInv
<1>8. cmds[coord.cmd].at # "none"
  BY <1>1, <1>7, NullsAre
<1> QED
  BY <1>1, <1>5, <1>6, <1>7, <1>8, NullsAre

\* The coordinator goes on and gives up the command it waited for.
LEMMA DropStep ==
  ASSUME Shape, ProcessInv, ClientFrame, UNCHANGED row, coord.at = "asked", cmds' = Drop(coord.cmd), Waiting(coord'),
         stopped' \in BOOLEAN, faults' \in 0..MaxFaults,
         ~late /\ ~row.known /\ Stale /\ box = "running" => coord'.at # "exec",
         ~late /\ ~row.known /\ stopped' => stopped \/ (Barred /\ \A i \in Runs : child[i] # "alive")
  PROVE  Shape' /\ ProcessInv'
<1>1. /\ \A c \in Cmds : ~cmds'[c].mine
      /\ \A c \in Cmds : \/ cmds'[c] = NoCommand
                         \/ /\ cmds[c].at # "none" /\ cmds'[c].at = cmds[c].at
                            /\ cmds'[c].op = cmds[c].op /\ cmds'[c].pid = cmds[c].pid
                            /\ cmds'[c].term = cmds[c].term /\ cmds'[c].status = cmds[c].status
                            /\ ~(cmds[c].mine /\ cmds[c].at = "failed")
  BY DropIs
<1>2. \A c \in Cmds : /\ cmds'[c].at = "none" => cmds'[c] = NoCommand
                      /\ cmds'[c].at \in {"read", "lost", "alive", "out"} => cmds'[c].op = "inspect"
                      /\ cmds'[c].at \in {"read", "lost", "alive"} => cmds'[c].status # "missing"
                      /\ cmds'[c].at = "lost" => cmds'[c].pid # 0
                      /\ cmds'[c].at \in {"signalled", "dead"} => cmds'[c].op = "cancel"
  BY <1>1, NullsAre DEF Shape, CoordInv
<1>3. CoordInv'
  BY <1>1, <1>2 DEF CoordInv, Waiting
<1>4. AloneInv'
  BY <1>1, NullsAre DEF Shape, AloneInv, InBody, PastVet
<1>5. box # "running" => \A c \in Cmds : cmds'[c] = NoCommand
  BY <1>1, NullsAre DEF Shape, BoxInv
<1>6. Shape'
  BY <1>3, <1>4, <1>5, ClientShape, DropIs, StateIs DEF Waiting
<1>7. \A c \in Cmds : cmds'[c].at \in {"signalled", "dead"} => cmds'[c].at = cmds[c].at /\ cmds'[c].pid = cmds[c].pid
  BY <1>1, NullsAre
<1>8. ProcessInv'
  BY <1>1, <1>7, ClientProcess
<1> QED
  BY <1>6, <1>8

-----------------------------------------------------------------------------
(* The steps of the coordinator *)

LEMMA ShapeIs ==
  ASSUME Shape
  PROVE  row \in RowType /\ row.known \in BOOLEAN /\ stopped \in BOOLEAN /\ faults \in 0..MaxFaults /\ late \in BOOLEAN
BY RowIs DEF Shape, TypeOK

LEMMA RestIs ==
  ASSUME UNCHANGED box, UNCHANGED CoordRest
  PROVE  ClientFrame
BY DEF CoordRest, ClientFrame

LEMMA StepBegin ==
  ASSUME Shape, ProcessInv, NEW op \in {"launch", "watch", "cancel", "gate"}, Begin(op)
  PROVE  Shape' /\ ProcessInv'
<1>1. Waiting(coord') /\ coord'.at = "ask" /\ coord.at = "idle"
  BY AskingIs, IdleIs DEF Begin
<1>2. ClientFrame /\ UNCHANGED <<cmds, row, stopped, faults>>
  BY RestIs DEF Begin
<1> QED
  BY <1>1, <1>2, PlainStep, ShapeIs

LEMMA StepFinishHeadless ==
  ASSUME Shape, ProcessInv, FinishHeadless
  PROVE  Shape' /\ ProcessInv'
<1>1. Waiting(coord') /\ coord'.at = "ask" /\ coord.at = "idle"
  BY AskingIs, IdleIs DEF FinishHeadless
<1>2. ClientFrame /\ UNCHANGED <<cmds, stopped, faults>>
  BY RestIs DEF FinishHeadless
<1>3. row' \in RowType /\ row'.known = row.known
  BY ShapeIs DEF FinishHeadless, RowType
<1> QED
  BY <1>1, <1>2, <1>3, PlainStep, ShapeIs

LEMMA StepPersist ==
  ASSUME Shape, ProcessInv, Persist
  PROVE  Shape' /\ ProcessInv'
<1>1. Waiting(coord') /\ coord'.at = "idle" /\ coord.at = "persist"
  BY IdleIs DEF Persist
<1>2. ClientFrame /\ UNCHANGED <<cmds, stopped, faults>>
  BY RestIs DEF Persist
<1>3. row' \in RowType /\ row'.known
  BY ShapeIs DEF Persist, RowType
<1> QED
  BY <1>1, <1>2, <1>3, PlainStep, ShapeIs

LEMMA StepGiveUp ==
  ASSUME Shape, ProcessInv, GiveUp
  PROVE  Shape' /\ ProcessInv'
<1>1. Waiting(coord') /\ coord'.at = "idle" /\ coord.at = "unavailable"
  BY IdleIs DEF GiveUp
<1>2. ClientFrame /\ UNCHANGED <<cmds, row, stopped, faults>>
  BY RestIs DEF GiveUp
<1> QED
  BY <1>1, <1>2, PlainStep, ShapeIs

LEMMA StepDiscoveryTimeout ==
  ASSUME Shape, ProcessInv, DiscoveryTimeout
  PROVE  Shape' /\ ProcessInv'
<1>0. coord \in CoordType /\ coord.at = "ask" /\ coord.cmd = 0
  BY DEF DiscoveryTimeout, Shape, TypeOK, CoordInv
<1>1. Waiting(coord') /\ coord'.at = "ask"
  BY <1>0 DEF DiscoveryTimeout, CoordType, Waiting
<1>2. ClientFrame /\ UNCHANGED <<cmds, row, stopped>> /\ faults' \in 0..MaxFaults
  BY RestIs, FaultsAre DEF DiscoveryTimeout
<1> QED
  BY <1>0, <1>1, <1>2, PlainStep, ShapeIs

LEMMA FailedIs ==
  Waiting(Failed) /\ Failed.at # "exec"
<1>1. CASE coord.op = "discover"
  BY <1>1, AskingIs DEF Failed
<1>2. CASE coord.op # "discover"
  BY <1>2, IdleIs DEF Failed
<1> QED
  BY <1>1, <1>2

LEMMA StepAskFailed ==
  ASSUME Shape, ProcessInv, AskFailed
  PROVE  Shape' /\ ProcessInv'
<1>1. Waiting(coord') /\ coord'.at # "exec" /\ coord.at = "asked" /\ cmds' = Drop(coord.cmd)
  BY FailedIs DEF AskFailed
<1>2. ClientFrame /\ UNCHANGED <<row, stopped, faults>>
  BY RestIs DEF AskFailed
<1> QED
  BY <1>1, <1>2, DropStep, ShapeIs

LEMMA StepCrash ==
  ASSUME Shape, ProcessInv, Crash
  PROVE  Shape' /\ ProcessInv'
<1>1. Waiting(coord') /\ coord'.at # "exec"
  BY IdleIs DEF Crash
<1>2. ClientFrame /\ UNCHANGED <<row, stopped>> /\ faults' \in 0..MaxFaults
  BY RestIs, FaultsAre DEF Crash
<1>3. CASE coord.at = "asked"
  <2>1. coord.cmd # 0
    BY <1>3, RunsAre DEF Shape, CoordInv
  <2>2. cmds' = Drop(coord.cmd)
    BY <2>1 DEF Crash
  <2> QED
    BY <1>1, <1>2, <1>3, <2>2, DropStep, ShapeIs
<1>4. CASE coord.at # "asked"
  <2>1. UNCHANGED cmds
    BY <1>4 DEF Crash, Shape, CoordInv
  <2> QED
    BY <1>1, <1>2, <1>4, <2>1, PlainStep, ShapeIs
<1> QED
  BY <1>3, <1>4

\* Where nothing runs, nothing lives and nobody is on the way to the lock.
LEMMA NothingRuns ==
  ASSUME Shape, box # "running"
  PROVE  Barred /\ \A i \in Runs : child[i] # "alive"
BY DEF Shape, BoxInv, RunnersInv, Barred

LEMMA StepAnswered ==
  ASSUME Shape, ProcessInv, Answered
  PROVE  Shape' /\ ProcessInv'
<1>1. coord.at = "asked" /\ cmds' = Drop(coord.cmd) /\ ClientFrame /\ UNCHANGED <<row, faults>>
  BY RestIs DEF Answered
<1>2. PICK k : k = cmds[coord.cmd]
  OBVIOUS
<1>3. /\ coord.cmd \in Cmds /\ k \in CommandType /\ k.mine /\ k.op = Script(coord.op) /\ k.status \in Statuses
  BY <1>1, <1>2, CommandsAre DEF Shape, CoordInv
<1>4. /\ k.at = "done" /\ coord' = Observed(k.status, k.out) /\ stopped' = (stopped \/ k.op = "cancel")
  BY <1>2 DEF Answered
<1>5. Waiting(coord') /\ (coord'.at = "exec" /\ ~row.known => k.status = "missing" /\ coord.op = "launch")
  BY <1>3, <1>4, ObservedIs, ShapeIs
<1>6. coord.op = "launch" => k.op = "inspect"
  BY <1>3 DEF Script
<1>7. ~late /\ ~row.known /\ Stale /\ box = "running" => coord'.at # "exec"
  BY <1>2, <1>3, <1>4, <1>5, <1>6 DEF ProcessInv, FreshInv
<1>8. ~late /\ ~row.known /\ stopped' => stopped \/ (Barred /\ \A i \in Runs : child[i] # "alive")
  BY <1>2, <1>3, <1>4 DEF ProcessInv, FreshInv
<1>9. stopped' \in BOOLEAN
  BY <1>4, ShapeIs
<1> QED
  BY <1>1, <1>5, <1>7, <1>8, <1>9, DropStep, ShapeIs

LEMMA ScriptIs ==
  ASSUME NEW op \in {"launch", "discover", "watch", "cancel", "settle", "gate"}
  PROVE  Script(op) \in {"inspect", "cancel", "gate"}
BY DEF Script

LEMMA SentIs ==
  ASSUME NEW op \in {"inspect", "cancel", "gate"}
  PROVE  LET n == [NoCommand EXCEPT !.op = op, !.at = "sent", !.mine = TRUE] IN
         n \in CommandType /\ n.at = "sent" /\ n.op = op /\ n.mine /\ n.term = "none"
BY DEF NoCommand, CommandType, Statuses, Sessions

LEMMA AskedIs ==
  ASSUME NEW s \in CoordType, NEW c \in Cmds
  PROVE  LET n == [s EXCEPT !.at = "asked", !.cmd = c] IN
         n \in CoordType /\ n.at = "asked" /\ n.op = s.op /\ n.cmd = c
BY DEF CoordType

\* The coordinator sends a command, or the missing container answers for it.
LEMMA StepAsk ==
  ASSUME Shape, ProcessInv, Ask
  PROVE  Shape' /\ ProcessInv'
<1>0. /\ coord.at = "ask" /\ ClientFrame /\ UNCHANGED <<row, faults>> /\ coord \in CoordType
      /\ coord.op \in {"launch", "discover", "watch", "cancel", "settle", "gate"}
      /\ \A c \in Cmds : ~cmds[c].mine
  BY RestIs, StateIs, CoordFields, NoneMine DEF Ask, Shape, CoordInv
<1>1. CASE box = "running" /\ UNCHANGED stopped
  <2>1. PICK c \in Cmds :
          /\ cmds[c] = NoCommand
          /\ cmds' = [cmds EXCEPT ![c] = [NoCommand EXCEPT !.op = Script(coord.op), !.at = "sent", !.mine = TRUE]]
          /\ coord' = [coord EXCEPT !.at = "asked", !.cmd = c]
    BY <1>1 DEF Ask
  <2>2. PICK k : k = [NoCommand EXCEPT !.op = Script(coord.op), !.at = "sent", !.mine = TRUE]
    OBVIOUS
  <2>3. k \in CommandType /\ k.at = "sent" /\ k.op = Script(coord.op) /\ k.mine /\ k.term = "none"
    BY <1>0, <2>2, ScriptIs, SentIs
  <2>4. coord' \in CoordType /\ coord'.at = "asked" /\ coord'.op = coord.op /\ coord'.cmd = c
    BY <1>0, <2>1, AskedIs
  <2>5. cmds' \in [Cmds -> CommandType] /\ \A d \in Cmds : cmds'[d] = IF d = c THEN k ELSE cmds[d]
    BY <2>1, <2>2, <2>3, CommandIs, StateIs
  <2>6. CoordInv'
    <3>1. \A d \in Cmds : cmds'[d].mine => d = c
      BY <1>0, <2>5
    <3>2. \A d \in Cmds : /\ cmds'[d].at = "none" => cmds'[d] = NoCommand
                          /\ cmds'[d].at \in {"read", "lost", "alive", "out"} => cmds'[d].op = "inspect"
                          /\ cmds'[d].at \in {"read", "lost", "alive"} => cmds'[d].status # "missing"
                          /\ cmds'[d].at = "lost" => cmds'[d].pid # 0
                          /\ cmds'[d].at \in {"signalled", "dead"} => cmds'[d].op = "cancel"
      BY <2>3, <2>5 DEF Shape, CoordInv
    <3>3. coord'.op # "none" /\ cmds'[c].mine /\ cmds'[c].op = Script(coord'.op)
      BY <1>0, <2>3, <2>4, <2>5
    <3> QED
      BY <2>4, <3>1, <3>2, <3>3 DEF CoordInv
  <2>7. AloneInv'
    <3>1. \A d \in Cmds : cmds'[d].mine => cmds'[d].at = "sent"
      BY <1>0, <2>3, <2>5
    <3>2. \A d \in Cmds : cmds'[d].term = "confirmed" => cmds'[d] = cmds[d]
      BY <2>3, <2>5
    <3> QED
      BY <3>1, <3>2 DEF Shape, AloneInv, InBody, PastVet
  <2>8. Shape'
    BY <1>0, <1>1, <2>4, <2>5, <2>6, <2>7, ClientShape, StateIs
  <2>9. ProcessInv'
    BY <1>0, <1>1, <2>3, <2>4, <2>5, ClientProcess
  <2> QED
    BY <2>8, <2>9
<1>2. CASE box # "running"
  <2>1. Waiting(coord') /\ stopped' \in BOOLEAN /\ UNCHANGED cmds
    <3>1. CASE Script(coord.op) = "inspect"
      <4>1. PICK status \in Statuses : coord' = Observed(status, "none")
        BY <1>2, <3>1 DEF Ask, Statuses
      <4>2. Waiting(Observed(status, "none"))
        BY ObservedIs, ShapeIs
      <4> QED
        BY <1>2, <3>1, <4>1, <4>2, ShapeIs DEF Ask
    <3>2. CASE Script(coord.op) # "inspect"
      BY <1>2, <3>2, IdleIs, ShapeIs DEF Ask
    <3> QED
      BY <3>1, <3>2
  <2> QED
    BY <1>0, <1>2, <2>1, PlainStep, NothingRuns, ShapeIs
<1> QED
  BY <1>1, <1>2 DEF Ask

\* RunCommand terminates the command, and waits for the answer.
LEMMA StepTimeLimit ==
  ASSUME Shape, ProcessInv, TimeLimit
  PROVE  Shape' /\ ProcessInv'
<1>0. /\ coord.at = "asked" /\ ClientFrame /\ UNCHANGED <<row, stopped>> /\ faults' \in 0..MaxFaults
      /\ cmds[coord.cmd].term = "none"
  BY RestIs, FaultsAre DEF TimeLimit
<1>1. CASE cmds' = [cmds EXCEPT ![coord.cmd].term = "asked"] /\ UNCHANGED coord
  <2>1. PICK c \in Cmds : c = coord.cmd
    BY <1>0 DEF Shape, CoordInv
  <2>2. PICK k : k = Settled(cmds[c], "asked")
    OBVIOUS
  <2>3. cmds[c] \in CommandType
    BY CommandsAre DEF Shape
  <2>4. /\ k \in CommandType /\ k.at = cmds[c].at /\ k.op = cmds[c].op /\ k.mine = cmds[c].mine
        /\ k.term = "asked" /\ k.status = cmds[c].status /\ k.pid = cmds[c].pid
    BY <2>2, <2>3, SettledIs DEF Terms
  <2>5. cmds' = [cmds EXCEPT ![c] = k]
    BY <1>1, <2>1, <2>2 DEF Settled
  <2>6. cmds' \in [Cmds -> CommandType] /\ \A d \in Cmds : cmds'[d] = IF d = c THEN k ELSE cmds[d]
    BY <2>4, <2>5, CommandIs, StateIs
  <2>7. cmds[c].mine /\ cmds[c].at # "none" /\ \A d \in Cmds : cmds[d].mine => d = c
    BY <1>0, <2>1, NullsAre DEF Shape, CoordInv
  <2>8. \A d \in Cmds : /\ cmds'[d].at = cmds[d].at /\ cmds'[d].op = cmds[d].op /\ cmds'[d].mine = cmds[d].mine
                        /\ cmds'[d].status = cmds[d].status /\ cmds'[d].pid = cmds[d].pid
                        /\ d # c => cmds'[d] = cmds[d]
    BY <2>4, <2>6
  <2>9. CoordInv'
    <3>1. \A d \in Cmds : cmds'[d].at = "none" => cmds'[d] = NoCommand
      BY <2>7, <2>8 DEF Shape, CoordInv
    <3>2. cmds'[coord.cmd].mine /\ cmds'[coord.cmd].op = Script(coord.op)
      BY <1>0, <2>1, <2>8 DEF Shape, CoordInv
    <3> QED
      BY <1>0, <1>1, <2>8, <3>1, <3>2 DEF Shape, CoordInv
  <2>10. AloneInv'
    <3>1. \A d \in Cmds : cmds'[d].term = "confirmed" => cmds'[d] = cmds[d]
      BY <2>4, <2>6
    <3>2. \A d, e \in Cmds : d # e /\ cmds'[d].term # "none" /\ cmds'[e].mine => cmds[d].term # "none"
      BY <2>6, <2>7, <2>8
    <3> QED
      BY <2>8, <3>1, <3>2 DEF Shape, AloneInv, InBody, PastVet
  <2>11. box # "running" => \A d \in Cmds : cmds'[d] = NoCommand \/ (cmds'[d].mine /\ cmds'[d].at = "failed")
    BY <2>7, <2>8, NullsAre DEF Shape, BoxInv
  <2>12. Shape'
    BY <1>0, <1>1, <2>6, <2>9, <2>10, <2>11, ClientShape, StateIs
  <2>13. ProcessInv'
    BY <1>0, <1>1, <2>8, ClientProcess
  <2> QED
    BY <2>12, <2>13
<1>2. CASE coord' = Failed /\ cmds' = Drop(coord.cmd)
  BY <1>0, <1>2, FailedIs, DropStep, ShapeIs
<1> QED
  BY <1>1, <1>2 DEF TimeLimit

\* A start finds nothing that the state could name wrongly.
LEMMA StepExec ==
  ASSUME Shape, ProcessInv, Exec
  PROVE  Shape' /\ ProcessInv'
<1>0. coord.at = "exec" /\ UNCHANGED <<box, disk, child, cmds, stranger, row, late>>
  BY DEF Exec
<1>1. CASE box = "running"
  <2>1. PICK i \in Runs : At(i, "none") /\ runner' = [runner EXCEPT ![i] = [at |-> "spawned", replace |-> row.known]]
    BY <1>1 DEF Exec
  <2>2. Waiting(coord') /\ coord'.at # "exec" /\ faults' \in 0..MaxFaults /\ stopped' = FALSE
    BY <1>1, AskingIs, IdleIs, FaultsAre, ShapeIs DEF Exec
  <2>3. PICK r : r = [at |-> "spawned", replace |-> row.known]
    OBVIOUS
  <2>4. r \in RunnerType /\ r.at = "spawned" /\ r.replace = row.known
    BY <2>3, ShapeIs DEF RunnerType
  <2>5. /\ runner' \in [Runs -> RunnerType]
        /\ \A j \in Runs : runner'[j] = IF j = i THEN r ELSE runner[j]
    BY <2>1, <2>3, <2>4, StateIs
  <2>6. runner[i].at = "none"
    BY <2>1 DEF At
  <2>7. TypeOK'
    BY <1>0, <2>2, <2>5 DEF Shape, TypeOK, Waiting, disk
  <2>8. RunnersInv'
    BY <1>0, <2>4, <2>5, <2>6, ShapeIs DEF Shape, RunnersInv, Locking, disk
  <2>9. CoordInv'
    BY <1>0, <2>2, NoneMine DEF Shape, CoordInv, Waiting
  <2>10. BoxInv' /\ AloneInv'
    BY <1>0, <1>1 DEF Shape, BoxInv, AloneInv, InBody, PastVet
  <2>11. ProcessInv'
    <3> SUFFICES ASSUME ~late PROVE LivingInv' /\ (row'.known \/ FreshInv')
      BY <1>0 DEF ProcessInv
    <3>1. LivingInv'
      BY <1>0 DEF ProcessInv, LivingInv, disk
    <3>2. ASSUME ~row.known PROVE FreshInv'
      <4>1. FreshInv /\ ~Stale
        BY <1>0, <1>1, <3>2 DEF ProcessInv, FreshInv
      <4>2. ~Stale'
        BY <1>0, <2>4, <2>5, <2>6, <4>1 DEF Stale, disk
      <4>3. \A c \in Cmds : ~cmds'[c].mine
        BY <1>0, NoneMine
      <4>4. \A j \in Runs : runner'[j].at = "reserved" => file'.pid = 0
        BY <1>0, <2>4, <2>5, <4>1 DEF FreshInv, disk
      <4>5. file'.status # "lost" /\ ~stopped'
        BY <1>0, <2>2, <4>1 DEF FreshInv, disk
      <4>6. /\ \A j \in Runs : child'[j] = "alive" /\ lock' = 0 => file'.status = "running"
            /\ \A c \in Cmds : cmds'[c].at \in {"signalled", "dead"} =>
                 cmds'[c].pid \in Runs /\ file'.pid = cmds'[c].pid /\ lock' = 0
            /\ \A c \in Cmds : cmds'[c].at = "dead" => child'[cmds'[c].pid] # "alive"
        BY <1>0, <4>1 DEF FreshInv, disk
      <4> QED
        BY <4>2, <4>3, <4>4, <4>5, <4>6 DEF FreshInv
    <3> QED
      BY <1>0, <3>1, <3>2
  <2> QED
    BY <2>7, <2>8, <2>9, <2>10, <2>11 DEF Shape
<1>2. CASE box # "running"
  <2>1. Waiting(coord') /\ coord'.at # "exec" /\ UNCHANGED <<runner, stopped, faults>>
    BY <1>2, IdleIs DEF Exec
  <2>2. ClientFrame
    BY <1>0, <2>1 DEF ClientFrame
  <2> QED
    BY <1>0, <2>1, <2>2, PlainStep, ShapeIs
<1> QED
  BY <1>1, <1>2

LEMMA StepClient ==
  ASSUME Shape, ProcessInv, Client
  PROVE  Shape' /\ ProcessInv'
BY StepBegin, StepFinishHeadless, StepAsk, StepAnswered, StepAskFailed, StepTimeLimit, StepDiscoveryTimeout,
   StepExec, StepPersist, StepGiveUp, StepCrash DEF Client

-----------------------------------------------------------------------------
(* The container *)

\* A container that ends leaves what its volume holds, and what was awaited.
BoxFrame ==
  /\ file' \in FileType /\ (file' = file \/ file' = NoState)
  /\ row' \in RowType /\ row'.known = row.known
  /\ UNCHANGED <<coord, stopped, late>> /\ faults' \in 0..MaxFaults

Gone(r)  == [r EXCEPT !.at = "gone"]
Broken(k) == [k EXCEPT !.at = "failed"]

LEMMA GoneIs ==
  ASSUME NEW r \in RunnerType
  PROVE  Gone(r) \in RunnerType /\ Gone(r).at = "gone" /\ Gone(r).replace = r.replace
BY DEF Gone, RunnerType

LEMMA BrokenIs ==
  ASSUME NEW k \in CommandType
  PROVE  /\ Broken(k) \in CommandType /\ Broken(k).at = "failed" /\ Broken(k).op = k.op
         /\ Broken(k).mine = k.mine
BY DEF Broken, CommandType

\* What everything in it comes to.
AllEnd ==
  /\ runner' \in [Runs -> RunnerType] /\ cmds' \in [Cmds -> CommandType]
  /\ child' \in [Runs -> {"none", "alive", "dead"}] /\ lock' = 0 /\ stranger' = 0
  /\ \A i \in Runs : /\ child'[i] # "alive"
                     /\ IF runner[i].at = "none" THEN runner'[i] = NoRunner
                        ELSE runner'[i].at = "gone" /\ runner'[i].replace = runner[i].replace
  /\ \A c \in Cmds : IF cmds[c].mine
                     THEN cmds'[c].mine /\ cmds'[c].at = "failed" /\ cmds'[c].op = cmds[c].op
                     ELSE cmds'[c] = NoCommand

LEMMA AllEndIs ==
  ASSUME Shape, NEW state, BoxIs(state)
  PROVE  AllEnd
<1>1. /\ runner' = [i \in Runs |-> IF At(i, "none") THEN NoRunner ELSE Gone(runner[i])]
      /\ child' = [i \in Runs |-> IF child[i] = "alive" THEN "dead" ELSE child[i]]
      /\ cmds' = [c \in Cmds |-> IF cmds[c].mine THEN Broken(cmds[c]) ELSE NoCommand]
      /\ lock' = 0 /\ stranger' = 0
  BY DEF BoxIs, Gone, Broken
<1>2. \A i \in Runs : LET n == IF At(i, "none") THEN NoRunner ELSE Gone(runner[i]) IN
        /\ n \in RunnerType
        /\ IF runner[i].at = "none" THEN n = NoRunner ELSE n.at = "gone" /\ n.replace = runner[i].replace
  <2> TAKE i \in Runs
  <2>1. runner[i] \in RunnerType
    BY RunnersAre, StateIs
  <2> QED
    BY <2>1, GoneIs, NullsAre DEF At
<1>3. \A c \in Cmds : LET n == IF cmds[c].mine THEN Broken(cmds[c]) ELSE NoCommand IN
        /\ n \in CommandType
        /\ IF cmds[c].mine THEN n.mine /\ n.at = "failed" /\ n.op = cmds[c].op ELSE n = NoCommand
  <2> TAKE c \in Cmds
  <2>1. cmds[c] \in CommandType
    BY CommandsAre DEF Shape
  <2> QED
    BY <2>1, BrokenIs, NullsAre
<1>4. runner' \in [Runs -> RunnerType] /\ cmds' \in [Cmds -> CommandType]
  BY <1>1, <1>2, <1>3
<1>5. child' \in [Runs -> {"none", "alive", "dead"}] /\ \A i \in Runs : child'[i] # "alive"
  BY <1>1, StateIs
<1>6. \A i \in Runs : IF runner[i].at = "none" THEN runner'[i] = NoRunner
                      ELSE runner'[i].at = "gone" /\ runner'[i].replace = runner[i].replace
  BY <1>1, <1>2
<1>7. \A c \in Cmds : IF cmds[c].mine
                      THEN cmds'[c].mine /\ cmds'[c].at = "failed" /\ cmds'[c].op = cmds[c].op
                      ELSE cmds'[c] = NoCommand
  BY <1>1, <1>3
<1> QED
  BY <1>1, <1>4, <1>5, <1>6, <1>7 DEF AllEnd

LEMMA BoxEnds ==
  ASSUME Shape, ProcessInv, NEW state \in {"absent", "stopped"}, BoxIs(state), BoxFrame
  PROVE  Shape' /\ ProcessInv'
<1>0. AllEnd /\ box' = state
  BY AllEndIs DEF BoxIs
<1>1. \A i \in Runs : runner'[i].at \in {"none", "gone"} /\ (runner[i].at # "none" => runner'[i].at = "gone")
  BY <1>0, NullsAre DEF AllEnd
<1>2. \A c \in Cmds : cmds'[c] = NoCommand \/ (cmds'[c].mine /\ cmds'[c].at = "failed")
  BY <1>0 DEF AllEnd
<1>3. TypeOK'
  BY <1>0, ShapeIs DEF Shape, TypeOK, AllEnd, BoxFrame
<1>4. RunnersInv'
  <2>1. \A i \in Runs : file'.pid = i => runner'[i].at = "gone"
    BY <1>1, NullsAre, RunsAre DEF Shape, RunnersInv, BoxFrame
  <2>2. file'.status = "missing" => file'.pid = 0
    BY NullsAre DEF Shape, RunnersInv, BoxFrame
  <2>3. ~row'.known => \A i \in Runs : ~runner'[i].replace
    BY <1>0, NullsAre DEF Shape, RunnersInv, BoxFrame, AllEnd
  <2>4. lock' = 0 /\ stranger' = 0 /\ \A i \in Runs : child'[i] # "alive"
    BY <1>0 DEF AllEnd
  <2> QED
    BY <1>1, <2>1, <2>2, <2>3, <2>4, RunsAre DEF RunnersInv, Locking
<1>5. CoordInv'
  <2>1. UNCHANGED coord
    BY DEF BoxFrame
  <2>2. coord.at = "asked" => cmds'[coord.cmd].mine /\ cmds'[coord.cmd].op = Script(coord.op)
    BY <1>0 DEF Shape, CoordInv, AllEnd
  <2>3. \A d \in Cmds : cmds'[d].mine => coord.at = "asked" /\ coord.cmd = d
    BY <1>0, NullsAre DEF Shape, CoordInv, AllEnd
  <2>4. \A d \in Cmds : /\ cmds'[d].at = "none" => cmds'[d] = NoCommand
                        /\ cmds'[d].at \notin {"read", "lost", "alive", "out", "signalled", "dead"}
    BY <1>2, NullsAre
  <2> QED
    BY <2>1, <2>2, <2>3, <2>4 DEF Shape, CoordInv, Script
<1>6. BoxInv'
  BY <1>0, <1>1, <1>2 DEF BoxInv, AllEnd
<1>7. AloneInv'
  BY <1>2, NullsAre DEF AloneInv, InBody, PastVet
<1>8. ProcessInv'
  <2> SUFFICES ASSUME ~late, ~row.known PROVE FreshInv'
    BY <1>0 DEF ProcessInv, LivingInv, AllEnd, BoxFrame
  <2>1. file.status = "lost" => Stale
    BY DEF ProcessInv, FreshInv
  <2>2. file'.status = "lost" => Stale'
    BY <1>1, <2>1, NullsAre DEF Stale, BoxFrame
  <2>3. box' # "running" /\ lock' = 0 /\ \A i \in Runs : child'[i] # "alive"
    BY <1>0 DEF AllEnd
  <2>4. \A c \in Cmds : cmds'[c].at \notin {"out", "done", "signalled", "dead"}
    BY <1>2, NullsAre
  <2> QED
    BY <1>1, <2>2, <2>3, <2>4 DEF FreshInv, Barred
<1> QED
  BY <1>3, <1>4, <1>5, <1>6, <1>7, <1>8 DEF Shape

\* A container that starts may give the recorded number to another process.
LEMMA BoxStarts ==
  ASSUME Shape, ProcessInv, coord = Idle, box # "running", box' = "running",
         stranger' = stranger \/ (file.pid # 0 /\ stranger' = file.pid), faults' \in 0..MaxFaults,
         UNCHANGED <<runner, child, cmds, lock, file, coord, row, stopped, late>>
  PROVE  Shape' /\ ProcessInv'
<1>1. /\ lock = 0 /\ \A i \in Runs : runner[i].at \in {"none", "gone"} /\ child[i] # "alive"
      /\ \A c \in Cmds : cmds[c] = NoCommand
  <2>1. \A c \in Cmds : ~cmds[c].mine
    BY NoneMine, IdleIs
  <2> QED
    BY <2>1, NothingRuns DEF Shape, BoxInv
<1>2. stranger' \in {0} \cup Runs
  BY StateIs
<1>3. TypeOK'
  BY <1>2 DEF Shape, TypeOK
<1>4. \A i \in Runs : stranger' = i => runner[i].at = "gone"
  BY <1>1 DEF Shape, RunnersInv
<1>5. RunnersInv'
  BY <1>4 DEF Shape, RunnersInv
<1>6. CoordInv' /\ BoxInv' /\ AloneInv'
  BY DEF Shape, CoordInv, BoxInv, AloneInv, InBody, PastVet
<1>7. ProcessInv'
  <2> SUFFICES ASSUME ~late, ~row.known PROVE FreshInv'
    BY <1>1 DEF ProcessInv, LivingInv
  <2>1. file.status = "lost" => Stale
    BY DEF ProcessInv, FreshInv
  <2>2. file'.status = "lost" => Stale'
    BY <2>1 DEF Stale
  <2>3. coord'.at # "exec"
    BY IdleIs
  <2>4. \A c \in Cmds : cmds'[c].at \notin {"out", "done", "signalled", "dead"}
    BY <1>1, NullsAre
  <2> QED
    BY <1>1, <2>2, <2>3, <2>4 DEF FreshInv, Barred
<1> QED
  BY <1>3, <1>5, <1>6, <1>7 DEF Shape

LEMMA StepStart ==
  ASSUME Shape, ProcessInv, Start
  PROVE  Shape' /\ ProcessInv'
<1>1. CASE BoxIs("absent") /\ UNCHANGED faults
  <2>1. BoxFrame
    BY <1>1, ShapeIs, StateIs DEF Start, BoxFrame
  <2> QED
    BY <1>1, <2>1, BoxEnds
<1>2. CASE box # "running" /\ box' = "running"
  <2>1. faults' \in 0..MaxFaults
    BY <1>2, FaultsAre, ShapeIs, NothingRuns, RunsAre DEF Start, BoxIs
  <2> QED
    BY <1>2, <2>1, BoxStarts DEF Start, BoxIs
<1> QED
  BY <1>1, <1>2 DEF Start

LEMMA StepContainer ==
  ASSUME Shape, ProcessInv, Container
  PROVE  Shape' /\ ProcessInv'
<1>1. CASE Start
  BY <1>1, StepStart
<1>2. CASE Stop
  <2>1. BoxFrame /\ BoxIs("stopped")
    BY <1>2, ShapeIs, StateIs DEF Stop, BoxFrame
  <2> QED
    BY <2>1, BoxEnds
<1>3. CASE Cleanup
  <2>1. row' \in RowType /\ row'.known = row.known
    BY <1>3, ShapeIs DEF Cleanup, RowType
  <2>2. BoxFrame /\ BoxIs("absent")
    BY <1>3, <2>1, NullsAre, ShapeIs DEF Cleanup, BoxFrame
  <2> QED
    BY <2>2, BoxEnds
<1>4. CASE ContainerDies
  <2>1. BoxFrame /\ BoxIs("stopped")
    BY <1>4, ShapeIs, StateIs, FaultsAre DEF ContainerDies, BoxFrame
  <2> QED
    BY <2>1, BoxEnds
<1> QED
  BY <1>1, <1>2, <1>3, <1>4 DEF Container

-----------------------------------------------------------------------------
(* The theorems *)

\* Every beginning satisfies the invariant.
LEMMA InitHolds ==
  Init => HeadlessInv
<1> SUFFICES ASSUME Init PROVE HeadlessInv
  OBVIOUS
<1>0. /\ box = "running" /\ file = NoState /\ lock = 0 /\ stranger = 0 /\ coord = Idle
      /\ stopped = FALSE /\ late = FALSE /\ faults = 0
      /\ runner \in [Runs -> RunnerType] /\ \A i \in Runs : runner[i] = NoRunner /\ child[i] = "none"
      /\ child \in [Runs -> {"none", "alive", "dead"}]
      /\ cmds \in [Cmds -> CommandType] /\ \A c \in Cmds : cmds[c] = NoCommand
  BY NullsAre DEF Init
<1>1. row \in RowType
  BY ProcessAssumption DEF Init, RowType
<1>a. faults \in 0..MaxFaults
  BY <1>0, ProcessAssumption
<1>2. TypeOK
  BY <1>0, <1>1, <1>a, NullsAre DEF TypeOK
<1>3. RunnersInv
  BY <1>0, NullsAre, RunsAre DEF RunnersInv, Locking
<1>4. CoordInv
  BY <1>0, NullsAre DEF CoordInv
<1>5. BoxInv
  BY <1>0 DEF BoxInv
<1>6. AloneInv
  BY <1>0, NullsAre DEF AloneInv, InBody, PastVet
<1>7. LivingInv
  BY <1>0 DEF LivingInv
<1>8. FreshInv
  <2>1. ~Stale
    BY <1>0, NullsAre DEF Stale
  <2> QED
    BY <1>0, <2>1, NullsAre DEF FreshInv
<1> QED
  BY <1>2, <1>3, <1>4, <1>5, <1>6, <1>7, <1>8 DEF HeadlessInv, ProcessInv

LEMMA StutterHolds ==
  ASSUME Shape, ProcessInv, UNCHANGED vars
  PROVE  Shape' /\ ProcessInv'
<1>1. Shape'
  BY DEF vars, Shape, TypeOK, RunnersInv, CoordInv, BoxInv, AloneInv, InBody, PastVet
<1>2. ProcessInv'
  BY DEF vars, ProcessInv, LivingInv, FreshInv, Stale, Barred
<1> QED
  BY <1>1, <1>2

\* Every step keeps it.
LEMMA NextHolds ==
  HeadlessInv /\ [Next]_vars => HeadlessInv'
<1> SUFFICES ASSUME HeadlessInv, [Next]_vars PROVE HeadlessInv'
  OBVIOUS
<1>1. Shape /\ ProcessInv
  BY DEF HeadlessInv, Shape
<1>2. Shape' /\ ProcessInv'
  BY <1>1, StepHelper, StepSupervised, StepClient, StepContainer, StutterHolds DEF Next
<1> QED
  BY <1>2 DEF HeadlessInv, Shape

\* main.go runProcess and cancelProcess, command.go, headless.go - the inductive
\* invariant holds in every reachable state of the invocation's process.
THEOREM HeadlessSafety == Spec => []HeadlessInv
BY InitHolds, NextHolds, PTL DEF Spec

\* Every variable keeps its type: no step leaves the places of a helper or of a
\* worker command, the statuses of the state directory or the bound of faults.
THEOREM HeadlessTypes == Spec => []TypeOK
<1>1. HeadlessInv => TypeOK
  BY DEF HeadlessInv
<1> QED
  BY <1>1, HeadlessSafety, PTL

\* Two processes that live are named by the same lock or the same state.
LEMMA OneLives ==
  ASSUME Shape, LivingInv
  PROVE  OneLiving
<1>1. \A i, j \in Runs : child[i] = "alive" /\ child[j] = "alive" => i = j
  BY RunsAre DEF LivingInv
<1>2. CASE Living = {}
  BY <1>2, FS_EmptySet DEF OneLiving
<1>3. CASE Living # {}
  <2>1. PICK i \in Runs : i \in Living
    BY <1>3 DEF Living
  <2>2. Living = {i}
    BY <1>1, <2>1 DEF Living
  <2>3. Cardinality({i}) = 1
    BY FS_Singleton
  <2> QED
    BY <2>2, <2>3 DEF OneLiving
<1> QED
  BY <1>2, <1>3

\* Nothing lives after a cancellation that answered success.
LEMMA StaysDown ==
  ASSUME FreshInv, stopped
  PROVE  Living = {}
BY DEF FreshInv, Living

\* main.go runProcess, cancelProcess, worker/headless.go StartHeadless - at most
\* one native process lives, and none after a cancellation of a session that was
\* never known, whatever answers are lost, helpers come late to the lock and
\* containers end or start again, until a status is written late.
THEOREM ProcessAccounted == Spec => []ProcessIsAccountedFor
<1>1. HeadlessInv => ProcessIsAccountedFor
  BY OneLives, StaysDown DEF HeadlessInv, Shape, ProcessInv, ProcessIsAccountedFor, CancelStaysDown
<1> QED
  BY <1>1, HeadlessSafety, PTL

\* command.go superviseCommandScript, terminateCommandScript - a command whose
\* cancellation began never works beside a later one of the coordinator, and does
\* nothing any more once its termination was confirmed.
THEOREM CancelledAlone == Spec => []CancelledCommandsAreAlone
<1>1. HeadlessInv => CancelledCommandsAreAlone
  BY DEF HeadlessInv, AloneInv, PastVet, CancelledCommandsAreAlone
<1> QED
  BY <1>1, HeadlessSafety, PTL
=============================================================================
