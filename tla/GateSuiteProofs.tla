--------------------------- MODULE GateSuiteProofs ---------------------------
(***************************************************************************)
(* Theorems about the gates of a run, for every number of gates, packet,   *)
(* number of processes, checkpoints, suites and faults: types; a pull      *)
(* request that is ready was earned at its checkpoint; a suite decides     *)
(* about its run on evidence; the onboarding proof promises what readiness *)
(* asks for.                                                               *)
(*                                                                         *)
(* They rest on GateInv: a stored result comes from a suite that really    *)
(* ran, and the record of a suite explains itself, so that its results,    *)
(* its failures and the commands it recorded are three views of one walk   *)
(* over the gates.                                                         *)
(***************************************************************************)
EXTENDS GateSuite, Integers, TLAPS, FiniteSetTheorems, WellFoundedInduction

-----------------------------------------------------------------------------
(* What a suite in progress knows *)

Ran(s, g) == s.results[g].outcome \notin {"skipped", "setup_failed"}

\* The gates up to n that ran, and where the command of gate n is recorded.
RanUpTo(s, n) == {g \in 1..n : Ran(s, g)}
CallOf(s, n)  == Cardinality(RanUpTo(s, n)) + (IF s.skip THEN 0 ELSE 1)

\* The gates before the next one have a result, the others have none.
TakenInOrder(s) ==
  /\ "unavailable" \notin s.failures =>
       \A g \in s.plan : g < s.next => s.results[g] # NotRun
  /\ \A g \in Gates : g >= s.next => s.results[g] = NotRun

\* A gate is only reached, and has only a result of its own, after setup.
Prepared(s) ==
  \/ s.skip
  \/ s.next \in 1..NGates
  \/ \E g \in Gates : s.results[g] # NotRun /\ s.results[g].outcome # "setup_failed"
  => <<s.phase, s.ck>> \in setups

Earned(s) ==
  \A g \in Gates :
    s.results[g].outcome = "passed" => <<s.phase, s.ck, g>> \in passes

\* Setup's own failure: its one command, a result for every gate, no gate left.
SetupFailed(s) ==
  /\ \E c \in Commands \ {"pass"} : s.calls = <<c>> /\ SetupFailure(c) \subseteq s.failures
  /\ \A g \in s.plan : s.results[g].outcome = "setup_failed"
  /\ s.next = NGates + 1

\* Every failure has its result, and every bad result its failure.
Explained(s) ==
  /\ "command" \in s.failures =>
       \E g \in policy.blocking : s.results[g].outcome = "failed"
  /\ s.halted => \E i \in DOMAIN s.calls : s.calls[i] = "unconfirmed"
  /\ (\E i \in DOMAIN s.calls : s.calls[i] = "unconfirmed")
       => "unconfirmed" \in s.failures
  /\ \A g \in s.failed : s.results[g].outcome \in {"failed", "error", "skipped"}
                         /\ g < s.next
  /\ \A g \in policy.blocking :
       s.results[g].outcome = "error" => s.failures \cap {"runtime", "unconfirmed"} # {}
  /\ \A g \in Gates :
       s.results[g].outcome = "skipped" =>
         "unconfirmed" \in s.failures \/ policy.needs[g] \cap s.failed # {}
  /\ HasSetupFailure(s.results) \/ "setup_exit" \in s.failures
       => SetupFailed(s)

\* The recorded commands are those of setup and of the gates that ran, in order.
Recorded(s) ==
  s.next > 0 /\ s.plan = Gates /\ "unavailable" \notin s.failures
  /\ ~HasSetupFailure(s.results) =>
    /\ Len(s.calls) = CallOf(s, s.next - 1)
    /\ ~s.skip => s.calls[1] = "pass"
    /\ \A g \in Gates : g < s.next /\ Ran(s, g) =>
         /\ CallOf(s, g) \in DOMAIN s.calls
         /\ s.results[g] = runDeclaredGate(s.calls[CallOf(s, g)])
    /\ \A i \in DOMAIN s.calls :
         \/ ~s.skip /\ i = 1
         \/ \E g \in Gates : g < s.next /\ Ran(s, g) /\ CallOf(s, g) = i
    /\ \A f \in s.failures :
         \/ f = "publication"
         \/ \E g \in policy.blocking : g < s.next /\ s.results[g].outcome = "skipped"
         \/ \E g \in Gates :
              /\ g < s.next /\ Ran(s, g) /\ f \in GateFailure(s.calls[CallOf(s, g)])
              /\ g \in policy.blocking \/ f = "unconfirmed"

\* A suite begins, and a run is judged, at one revision and in one stage.
Belongs(s) ==
  /\ s.purpose = "run" => s.plan = Gates
  /\ s.rev <= run.rev
  /\ s.purpose = "run" /\ s.rev = run.rev =>
       run.stage = (IF s.phase = "baseline" THEN "claim" ELSE "check")

Begun(s) ==
  /\ s.next = 0 => s.calls = <<>> /\ s.failures = {} /\ ~s.skip
                   /\ \A g \in Gates : s.results[g] = NotRun
  /\ s.saved # "no" => s.next > 0 /\ Due(s) = {}
  /\ "unavailable" \in s.failures => /\ s.failures = {"unavailable"}
                                    /\ s.calls = <<>> /\ s.next = NGates + 1

\* What the record of a suite says by itself, of what was done, and of the run.
Coherent(s) == TakenInOrder(s) /\ Explained(s) /\ Recorded(s) /\ Begun(s)
SuiteOK(s)  == Coherent(s) /\ Prepared(s) /\ Earned(s) /\ Belongs(s)

Live == {suites[r] : r \in Runners} \ {NoSuite}

\* A stored result comes from a suite of its phase and checkpoint.
RowsEarned ==
  \A p \in Phases, c \in 1..MaxCheckpoints, g \in Gates :
    /\ rows[p][c][g].outcome = "passed" => <<p, c, g>> \in passes
    /\ rows[p][c][g] # NotRun /\ rows[p][c][g].outcome # "setup_failed"
         => <<p, c>> \in setups

GateInv ==
  /\ TypeOK /\ RowsEarned /\ ReadyIsEarned
  /\ \A s \in Live : SuiteOK(s)
-----------------------------------------------------------------------------
(* Induction over the numbers, as a fact about sets *)

LEMMA LeastNumber ==
  ASSUME NEW T \in SUBSET Nat, T # {}
  PROVE  \E x \in T : \A y \in T : x <= y
<1> DEFINE I == {0..n : n \in T}
<1>1. I \subseteq FiniteSubsetsOf(Nat)
  <2> SUFFICES ASSUME NEW n \in T PROVE 0..n \in FiniteSubsetsOf(Nat)
    OBVIOUS
  <2>1. IsFiniteSet(0..n)
    BY FS_Interval
  <2> QED
    BY <2>1 DEF FiniteSubsetsOf
<1>2. I # {}
  OBVIOUS
<1>3. PICK x \in I : \A y \in I : ~(<<y, x>> \in StrictSubsetOrdering(Nat))
  <2> HIDE DEF I
  <2> QED
    BY <1>1, <1>2, FS_StrictSubsetOrderingWellFounded, WFMin
<1>4. PICK m \in T : x = 0..m
  BY <1>3
<1>5. ASSUME NEW y \in T, ~(m <= y) PROVE FALSE
  <2>1. 0..y \in SUBSET Nat /\ 0..m \in SUBSET Nat /\ 0..y \subseteq 0..m
    BY <1>5
  <2>2. m \in 0..m /\ m \notin 0..y
    BY <1>5
  <2>3. <<0..y, 0..m>> \in StrictSubsetOrdering(Nat)
    BY <2>1, <2>2 DEF StrictSubsetOrdering
  <2> QED
    BY <1>3, <1>4, <2>3
<1> QED
  BY <1>5

LEMMA EveryNumber ==
  ASSUME NEW T \in SUBSET Nat, 0 \in T, \A n \in T : n + 1 \in T
  PROVE  T = Nat
<1> SUFFICES ASSUME Nat \ T # {} PROVE FALSE
  OBVIOUS
<1>1. PICK x \in Nat \ T : \A y \in Nat \ T : x <= y
  BY LeastNumber
<1>2. x # 0 /\ x - 1 \in Nat
  BY <1>1
<1>3. x - 1 \in T
  BY <1>1, <1>2
<1> QED
  BY <1>1, <1>2, <1>3

-----------------------------------------------------------------------------
(* Types *)

LEMMA PolicyFacts ==
  ASSUME policy \in Policies
  PROVE  /\ policy.blocking \subseteq Gates
         /\ policy.needs \in [Gates -> SUBSET Gates]
         /\ \A g \in Gates : \A d \in policy.needs[g] : d < g
         /\ NGates \in Nat \ {0}
  BY GateAssumption DEF PolicyOK

LEMMA SuiteIsReal == NoSuite \notin Suites
  BY DEF NoSuite, Suites, Phases

\* The closure of a gate under its prerequisites has only declared gates.
LEMMA PlanOfGates ==
  ASSUME policy \in Policies, NEW target \in Gates
  PROVE  gateDependencyPlan(target) \in SUBSET Gates
<1> DEFINE widen(S) == S \cup UNION {policy.needs[g] : g \in S}
           Closing(f) == f = [n \in 0..NGates |->
                                IF n = 0 THEN {target} ELSE widen(f[n - 1])]
           Grown(m, f) == /\ f[0] = {target}
                          /\ \A i \in 1..m : f[i] = widen(f[i - 1])
           T == {m \in Nat : \E f \in [0..m -> SUBSET Gates] : Grown(m, f)}
           close == CHOOSE f : Closing(f)
<1>w. \A S \in SUBSET Gates : widen(S) \in SUBSET Gates
  BY PolicyFacts
<1>n. NGates \in Nat
  BY PolicyFacts
<1> HIDE DEF widen
<1>1. 0 \in T
  <2>1. [i \in 0..0 |-> {target}] \in [0..0 -> SUBSET Gates]
    OBVIOUS
  <2>2. Grown(0, [i \in 0..0 |-> {target}])
    OBVIOUS
  <2> QED
    BY <2>1, <2>2
<1>2. ASSUME NEW m \in T PROVE m + 1 \in T
  <2>1. PICK f \in [0..m -> SUBSET Gates] : Grown(m, f)
    OBVIOUS
  <2> DEFINE h == [i \in 0..m + 1 |-> IF i <= m THEN f[i] ELSE widen(f[m])]
  <2>m. m \in Nat
    OBVIOUS
  <2>2. h \in [0..m + 1 -> SUBSET Gates]
    <3> SUFFICES ASSUME NEW i \in 0..m + 1
                 PROVE  (IF i <= m THEN f[i] ELSE widen(f[m])) \in SUBSET Gates
      OBVIOUS
    <3> QED
      BY <2>1, <2>m, <1>w
  <2>3. Grown(m + 1, h)
    <3>1. h[0] = {target}
      BY <2>1, <2>m
    <3>2. ASSUME NEW i \in 1..m + 1 PROVE h[i] = widen(h[i - 1])
      <4>1. CASE i <= m
        BY <2>1, <2>m, <4>1
      <4>2. CASE i = m + 1
        BY <2>1, <2>m, <4>2
      <4> QED
        BY <4>1, <4>2, <2>m
    <3> QED
      BY <3>1, <3>2
  <2> HIDE DEF h
  <2>4. \E k \in [0..m + 1 -> SUBSET Gates] : Grown(m + 1, k)
    BY <2>2, <2>3
  <2> QED
    BY <2>4, <2>m
<1>3. T = Nat
  <2>1. T \in SUBSET Nat
    OBVIOUS
  <2> HIDE DEF T
  <2> QED
    BY <1>1, <1>2, <2>1, EveryNumber
<1>4. \E f : Closing(f)
  <2>1. PICK f \in [0..NGates -> SUBSET Gates] : Grown(NGates, f)
    BY <1>3, <1>n
  <2>2. \A n \in 0..NGates :
           f[n] = IF n = 0 THEN {target} ELSE widen(f[n - 1])
    BY <2>1, <1>n
  <2> QED
    BY <2>2
<1>5. Closing(close)
  BY <1>4
<1>a. \A n \in 0..NGates :
        close[n] = IF n = 0 THEN {target} ELSE widen(close[n - 1])
  BY <1>5
<1>b. gateDependencyPlan(target) = close[NGates]
  BY DEF gateDependencyPlan, widen
<1> HIDE DEF close
<1> DEFINE U == {m \in Nat : m <= NGates => close[m] \in SUBSET Gates}
<1>6. 0 \in U
  BY <1>a, <1>n
<1>7. ASSUME NEW m \in U PROVE m + 1 \in U
  <2>1. CASE m + 1 <= NGates
    <3>1. m <= NGates /\ m \in Nat /\ m + 1 \in 0..NGates /\ m + 1 # 0
      BY <2>1, <1>n
    <3>2. close[m] \in SUBSET Gates
      BY <3>1
    <3>3. close[m + 1] = widen(close[m])
      BY <1>a, <3>1
    <3>4. close[m + 1] \in SUBSET Gates
      BY <3>2, <3>3, <1>w
    <3> QED
      BY <3>1, <3>4
  <2> QED
    BY <2>1
<1>8. U = Nat
  <2>1. U \in SUBSET Nat
    OBVIOUS
  <2> HIDE DEF U
  <2> QED
    BY <1>6, <1>7, <2>1, EveryNumber
<1> QED
  BY <1>8, <1>b, <1>n

LEMMA FreshSuite ==
  ASSUME TypeOK, NEW purpose \in {"run", "gate"}, NEW phase \in Phases,
         NEW plan \in SUBSET Gates, NEW skip \in BOOLEAN
  PROVE  Fresh(purpose, phase, plan, skip) \in Suites
<1>1. (IF skip THEN 1 ELSE 0) \in 0..NGates + 1 /\ run.rev \in Nat
  BY GateAssumption DEF TypeOK
<1>2. [g \in Gates |-> NotRun] \in [Gates -> Results]
  BY DEF NotRun, Results, Outcomes, Statuses
<1>3. <<>> \in Seq(Commands) /\ {} \in SUBSET FailureKinds /\ {} \in SUBSET Gates
  OBVIOUS
<1> QED
  BY <1>1, <1>2, <1>3 DEF Fresh, Suites, TypeOK

\* The code host keeps its type when a suite publishes some of its results.
LEMMA HostKept ==
  ASSUME TypeOK, NEW s \in Suites, NEW results \in [Gates -> Results],
         NEW published, Publish(s, results, published)
  PROVE  host' \in [Phases -> [1..MaxCheckpoints -> [Gates -> Statuses]]]
<1>1. s.phase \in Phases /\ s.ck \in 1..MaxCheckpoints
  BY DEF Suites
<1>2. \A g \in Gates : results[g].status \in Statuses
  BY DEF Results
<1>3. PICK p, c : p = s.phase /\ c = s.ck
  OBVIOUS
<1>4. PICK row : row = [g \in Gates |-> IF g \in published THEN results[g].status
                                       ELSE host[p][c][g]]
  OBVIOUS
<1>o. host[p][c] \in [Gates -> Statuses]
  BY <1>1, <1>3 DEF TypeOK
<1>5. row \in [Gates -> Statuses]
  BY <1>2, <1>4, <1>o
<1>6. host' = [host EXCEPT ![p][c] = row]
  BY <1>1, <1>3, <1>4 DEF Publish, TypeOK
<1> QED
  BY <1>1, <1>3, <1>5, <1>6 DEF TypeOK

LEMMA ResultTypes ==
  /\ \A c \in Commands : /\ runDeclaredGate(c) \in Results
                         /\ GateFailure(c) \in SUBSET FailureKinds
                         /\ SetupFailure(c) \in SUBSET FailureKinds
  /\ NotRun \in Results
  /\ Result("skipped", "pending") \in Results
  /\ Result("setup_failed", "error") \in Results
<1>1. \A o \in Outcomes, s \in Statuses : Result(o, s) \in Results
  BY DEF Result, Results
<1>2. NotRun = Result("none", "none")
  BY DEF NotRun, Result
<1>3. \A c \in Commands : GateFailure(c) \in SUBSET FailureKinds
                          /\ SetupFailure(c) \in SUBSET FailureKinds
  BY DEF GateFailure, SetupFailure, FailureKinds
<1>4. \A c \in Commands : runDeclaredGate(c) \in Results
  BY <1>1 DEF runDeclaredGate, Outcomes, Statuses
<1> QED
  BY <1>1, <1>2, <1>3, <1>4 DEF Outcomes, Statuses

\* A suite keeps its type when the fields a step changes do.
LEMMA SuiteChanges ==
  ASSUME NEW s \in Suites, NEW next \in 0..NGates + 1,
         NEW calls \in Seq(Commands), NEW results \in [Gates -> Results],
         NEW failures \in SUBSET FailureKinds,
         NEW saved \in {"no", "stored", "stored_with_error", "lost"}
  PROVE  /\ [s EXCEPT !.next = next, !.saved = saved, !.failures = failures] \in Suites
         /\ [s EXCEPT !.next = next, !.calls = calls] \in Suites
         /\ [s EXCEPT !.next = next, !.calls = calls, !.results = results,
                      !.failures = failures] \in Suites
         /\ [s EXCEPT !.saved = saved] \in Suites
  BY DEF Suites

\* The record after one gate.
LEMMA SuiteTakesGate ==
  ASSUME NEW s \in Suites, NEW next \in 0..NGates + 1,
         NEW calls \in Seq(Commands), NEW results \in [Gates -> Results],
         NEW failures \in SUBSET FailureKinds, NEW failed \in SUBSET Gates,
         NEW halted \in BOOLEAN
  PROVE  [s EXCEPT !.next = next, !.results = results, !.calls = calls,
                   !.failures = failures, !.failed = failed,
                   !.halted = halted] \in Suites
<1>1. [s EXCEPT !.next = next, !.results = results, !.calls = calls] \in Suites
  BY DEF Suites
<1>2. \A t \in Suites :
        [t EXCEPT !.failures = failures, !.failed = failed, !.halted = halted] \in Suites
  BY DEF Suites
<1>3. [s EXCEPT !.next = next, !.results = results, !.calls = calls,
                !.failures = failures, !.failed = failed, !.halted = halted]
        = [[s EXCEPT !.next = next, !.results = results, !.calls = calls]
             EXCEPT !.failures = failures, !.failed = failed, !.halted = halted]
  OBVIOUS
<1> QED
  BY <1>1, <1>2, <1>3

\* The steps of a suite change its record, the host, and what was done.
LEMMA SuiteStepTypes ==
  ASSUME TypeOK, NEW r \in Runners, suites[r] \in Suites,
         \/ SuiteUnavailable(r) \/ RunSetup(r) \/ RunNextGate(r)
         \/ persistGateSuite(r)
  PROVE  TypeOK'
<1> DEFINE s == suites[r]
<1>s. /\ s \in Suites /\ s.phase \in Phases /\ s.ck \in 1..MaxCheckpoints
      /\ s.plan \in SUBSET Gates /\ s.results \in [Gates -> Results]
      /\ s.next \in 0..NGates + 1 /\ s.calls \in Seq(Commands)
      /\ s.failures \in SUBSET FailureKinds /\ s.failed \in SUBSET Gates
  BY DEF Suites
<1>n. /\ NGates \in Nat /\ NGates # 0
      /\ 1 \in 0..NGates + 1 /\ NGates + 1 \in 0..NGates + 1
  BY GateAssumption
<1>k. ASSUME NEW t \in Suites, suites' = [suites EXCEPT ![r] = t]
      PROVE  suites' \in [Runners -> Suites \cup {NoSuite}]
  BY <1>k DEF TypeOK
<1>1. CASE SuiteUnavailable(r)
  <2>1. PICK t : /\ t = [s EXCEPT !.next = NGates + 1, !.saved = "stored",
                                  !.failures = {"unavailable"}]
                 /\ suites' = [suites EXCEPT ![r] = t]
    BY <1>1 DEF SuiteUnavailable, TypeOK
  <2>2. t \in Suites
    <3>1. {"unavailable"} \in SUBSET FailureKinds
      BY DEF FailureKinds
    <3> QED
      BY <2>1, <3>1, <1>s, <1>n, SuiteChanges
  <2> QED
    BY <2>1, <2>2, <1>k, <1>1 DEF SuiteUnavailable, TypeOK
<1>2. CASE RunSetup(r)
  <2>1. CASE UNCHANGED <<host, faults>>
             /\ setups' = setups \cup {<<s.phase, s.ck>>}
             /\ suites' = [suites EXCEPT ![r].next = 1, ![r].calls = <<"pass">>]
    <3>1. PICK t : /\ t = [s EXCEPT !.next = 1, !.calls = <<"pass">>]
                   /\ suites' = [suites EXCEPT ![r] = t]
      BY <2>1 DEF TypeOK
    <3>2. <<"pass">> \in Seq(Commands)
      BY DEF Commands
    <3>3. t \in Suites
      BY <3>1, <3>2, <1>s, <1>n, SuiteChanges
    <3>4. setups' \subseteq Phases \X (1..MaxCheckpoints)
      BY <2>1, <1>s DEF TypeOK
    <3> QED
      BY <3>1, <3>3, <3>4, <1>k, <2>1, <1>2 DEF RunSetup, TypeOK
  <2>2. ASSUME NEW c \in Commands \ {"pass"}, NEW published \in SUBSET s.plan,
               NEW results,
               results = [g \in Gates |-> IF g \in s.plan
                            THEN Result("setup_failed", "error") ELSE NotRun],
               suites' = [suites EXCEPT ![r].next = NGates + 1,
                     ![r].calls = <<c>>, ![r].results = results,
                     ![r].failures = SetupFailure(c) \cup
                        (IF published = s.plan THEN {} ELSE {"publication"})],
               Publish(s, results, published), UNCHANGED setups
        PROVE  TypeOK'
    <3>1. PICK f : f = SetupFailure(c) \cup
                      (IF published = s.plan THEN {} ELSE {"publication"})
      OBVIOUS
    <3>2. f \in SUBSET FailureKinds /\ results \in [Gates -> Results]
          /\ <<c>> \in Seq(Commands)
      <4>1. f \in SUBSET FailureKinds
        BY <3>1, ResultTypes DEF FailureKinds
      <4>2. results \in [Gates -> Results]
        BY <2>2, ResultTypes
      <4> QED
        BY <4>1, <4>2
    <3>3. PICK t : /\ t = [s EXCEPT !.next = NGates + 1, !.calls = <<c>>,
                                    !.results = results, !.failures = f]
                   /\ suites' = [suites EXCEPT ![r] = t]
      BY <2>2, <3>1 DEF TypeOK
    <3>4. t \in Suites
      BY <3>2, <3>3, <1>s, <1>n, SuiteChanges
    <3>5. host' \in [Phases -> [1..MaxCheckpoints -> [Gates -> Statuses]]]
      BY <2>2, <3>2, HostKept
    <3> QED
      BY <3>3, <3>4, <3>5, <1>k, <2>2, <1>2 DEF RunSetup, TypeOK
  <2> QED
    BY <1>2, <2>1, <2>2 DEF RunSetup
<1>3. CASE RunNextGate(r)
  <2>1. ASSUME NEW g \in Due(s), NEW result \in Results,
               NEW failures \in SUBSET FailureKinds, NEW failed \in BOOLEAN,
               NEW halted \in BOOLEAN, NEW calls \in Seq(Commands),
               NEW published \in BOOLEAN,
               recordGate(r, g, result, failures, failed, halted, calls, published)
        PROVE  /\ suites' \in [Runners -> Suites \cup {NoSuite}]
               /\ host' \in [Phases -> [1..MaxCheckpoints -> [Gates -> Statuses]]]
    <3>1. g \in Gates /\ g + 1 \in 0..NGates + 1
      BY <1>s, <1>n DEF Due, Gates
    <3>2. PICK results, f, d :
             /\ results = [s.results EXCEPT ![g] = result]
             /\ f = s.failures \cup failures \cup
                      (IF published THEN {} ELSE {"publication"})
             /\ d = (IF failed THEN s.failed \cup {g} ELSE s.failed)
      OBVIOUS
    <3>3. /\ results \in [Gates -> Results] /\ f \in SUBSET FailureKinds
          /\ d \in SUBSET Gates
      <4>1. f \in SUBSET FailureKinds
        BY <3>2, <1>s DEF FailureKinds
      <4>2. results \in [Gates -> Results]
        BY <3>1, <3>2, <1>s
      <4> QED
        BY <3>1, <3>2, <4>1, <4>2, <1>s
    <3>4. PICK t : /\ t = [s EXCEPT !.next = g + 1, !.results = results,
                              !.calls = calls, !.failures = f, !.failed = d,
                              !.halted = halted]
                   /\ suites' = [suites EXCEPT ![r] = t]
      BY <2>1, <3>2 DEF recordGate
    <3>5. t \in Suites
      <4>1. [s EXCEPT !.next = g + 1, !.results = results, !.calls = calls,
                      !.failures = f, !.failed = d, !.halted = halted] \in Suites
        BY <3>1, <3>3, <1>s, SuiteTakesGate
      <4> QED
        BY <3>4, <4>1
    <3>6. Publish(s, results, IF published THEN {g} ELSE {})
      BY <2>1, <3>2 DEF recordGate
    <3> QED
      BY <3>3, <3>4, <3>5, <3>6, <1>k, HostKept
  <2>2. PICK g \in Due(s) : HaltedGate(r, g) \/ SkippedGate(r, g) \/ ExecutedGate(r, g)
    BY <1>3 DEF RunNextGate
  <2>3. g \in Gates
    BY <1>s DEF Due
  <2>g. ASSUME NEW result \in Results, NEW failures \in SUBSET FailureKinds,
               NEW failed \in BOOLEAN, NEW halted \in BOOLEAN,
               NEW calls \in Seq(Commands),
               \E published \in BOOLEAN :
                 recordGate(r, g, result, failures, failed, halted, calls, published)
        PROVE  /\ suites' \in [Runners -> Suites \cup {NoSuite}]
               /\ host' \in [Phases -> [1..MaxCheckpoints -> [Gates -> Statuses]]]
    BY <2>g, <2>1
  <2>4. /\ suites' \in [Runners -> Suites \cup {NoSuite}]
        /\ host' \in [Phases -> [1..MaxCheckpoints -> [Gates -> Statuses]]]
        /\ passes' \subseteq Phases \X (1..MaxCheckpoints) \X Gates
    <3>1. CASE HaltedGate(r, g)
      <4>1. \E published \in BOOLEAN :
               recordGate(r, g, Result("skipped", "pending"), {}, FALSE, TRUE,
                          s.calls, published)
        BY <3>1 DEF HaltedGate
      <4>2. {} \in SUBSET FailureKinds /\ FALSE \in BOOLEAN /\ TRUE \in BOOLEAN
        OBVIOUS
      <4>3. passes' = passes
        BY <3>1 DEF HaltedGate
      <4> QED
        BY <4>1, <4>2, <4>3, <2>g, <1>s, ResultTypes DEF TypeOK
    <3>2. CASE SkippedGate(r, g)
      <4>1. (IF g \in policy.blocking THEN {"dependency"} ELSE {}) \in SUBSET FailureKinds
        BY DEF FailureKinds
      <4>2. \E published \in BOOLEAN :
               recordGate(r, g, Result("skipped", "pending"),
                          IF g \in policy.blocking THEN {"dependency"} ELSE {},
                          TRUE, FALSE, s.calls, published)
        BY <3>2 DEF SkippedGate
      <4>3. FALSE \in BOOLEAN /\ TRUE \in BOOLEAN
        OBVIOUS
      <4>4. passes' = passes
        BY <3>2 DEF SkippedGate
      <4> QED
        BY <4>1, <4>2, <4>3, <4>4, <2>g, <1>s, ResultTypes DEF TypeOK
    <3>3. CASE ExecutedGate(r, g)
      <4>1. PICK c \in Commands, published \in BOOLEAN : \E f, h, b :
               /\ f = (IF g \in policy.blocking \/ h THEN GateFailure(c) ELSE {})
               /\ h = terminationUnconfirmed(GateFailure(c))
               /\ b = (GateFailure(c) # {})
               /\ recordGate(r, g, runDeclaredGate(c), f, b, h,
                             Append(s.calls, c), published)
               /\ passes' = IF c = "pass"
                            THEN passes \cup {<<s.phase, s.ck, g>>} ELSE passes
        BY <3>3 DEF ExecutedGate
      <4>p. PICK f, h, b :
               /\ f = (IF g \in policy.blocking \/ h THEN GateFailure(c) ELSE {})
               /\ h = terminationUnconfirmed(GateFailure(c))
               /\ b = (GateFailure(c) # {})
               /\ recordGate(r, g, runDeclaredGate(c), f, b, h,
                             Append(s.calls, c), published)
               /\ passes' = IF c = "pass"
                            THEN passes \cup {<<s.phase, s.ck, g>>} ELSE passes
        BY <4>1
      <4>2. /\ f \in SUBSET FailureKinds /\ h \in BOOLEAN /\ b \in BOOLEAN
            /\ Append(s.calls, c) \in Seq(Commands)
            /\ runDeclaredGate(c) \in Results
        BY <4>p, <1>s, ResultTypes DEF terminationUnconfirmed
      <4>3. passes' \subseteq Phases \X (1..MaxCheckpoints) \X Gates
        BY <4>p, <2>3, <1>s DEF TypeOK
      <4>4. \E pub \in BOOLEAN :
               recordGate(r, g, runDeclaredGate(c), f, b, h, Append(s.calls, c), pub)
        BY <4>p
      <4> QED
        BY <4>2, <4>3, <4>4, <2>g
    <3> QED
      BY <2>2, <3>1, <3>2, <3>3
  <2> QED
    BY <1>3, <2>4 DEF RunNextGate, TypeOK
<1>4. CASE persistGateSuite(r)
  <2>1. PICK saved \in {"stored", "stored_with_error", "lost"} :
           /\ suites' = [suites EXCEPT ![r].saved = saved]
           /\ rows' = rows \/ saveGateResults(s)
    BY <1>4 DEF persistGateSuite
  <2>2. PICK t : /\ t = [s EXCEPT !.saved = saved]
                 /\ suites' = [suites EXCEPT ![r] = t]
    BY <2>1 DEF TypeOK
  <2>3. t \in Suites
    BY <2>2 DEF Suites
  <2>4. rows' \in [Phases -> [1..MaxCheckpoints -> [Gates -> Results]]]
    <3>1. PICK p, c : p = s.phase /\ c = s.ck
      OBVIOUS
    <3>2. PICK row : row = [g \in Gates |-> IF g \in s.plan THEN s.results[g]
                                           ELSE rows[p][c][g]]
      OBVIOUS
    <3>3. rows[p][c] \in [Gates -> Results]
      BY <3>1, <1>s DEF TypeOK
    <3>4. row \in [Gates -> Results]
      BY <3>2, <3>3, <1>s
    <3>5. rows' = rows \/ rows' = [rows EXCEPT ![p][c] = row]
      BY <2>1, <3>1, <3>2, <1>s DEF saveGateResults, TypeOK
    <3>6. p \in Phases /\ c \in 1..MaxCheckpoints
      BY <3>1, <1>s
    <3>7. rows \in [Phases -> [1..MaxCheckpoints -> [Gates -> Results]]]
      BY DEF TypeOK
    <3>8. CASE rows' = rows
      BY <3>7, <3>8
    <3>9. CASE rows' = [rows EXCEPT ![p][c] = row]
      BY <3>4, <3>6, <3>7, <3>9
    <3> QED
      BY <3>5, <3>8, <3>9
  <2> QED
    BY <2>2, <2>3, <2>4, <1>k, <1>4 DEF persistGateSuite, TypeOK
<1> QED
  BY <1>1, <1>2, <1>3, <1>4

LEMMA TypeStarts == Init => TypeOK
  BY GateAssumption DEF Init, TypeOK, Stages, NotRun, Results, Outcomes, Statuses

LEMMA TypeKept == TypeOK /\ [Next]_vars => TypeOK'
<1> SUFFICES ASSUME TypeOK, [Next]_vars PROVE TypeOK'
  OBVIOUS
<1>b. ASSUME NEW r \in Runners, NEW purpose \in {"run", "gate"},
             NEW phase \in Phases, NEW plan \in SUBSET Gates,
             Begin(r, purpose, phase, plan)
      PROVE  TypeOK'
  <2>1. PICK k : k = setupAlreadySucceeded(phase)
    OBVIOUS
  <2>2. k \in BOOLEAN
    BY <2>1 DEF setupAlreadySucceeded, TypeOK
  <2>3. Fresh(purpose, phase, plan, k) \in Suites
    BY <2>2, FreshSuite
  <2> QED
    BY <1>b, <2>1, <2>3 DEF Begin, TypeOK
<1>e. ASSUME NEW r \in Runners, suites' = [suites EXCEPT ![r] = NoSuite]
      PROVE  suites' \in [Runners -> Suites \cup {NoSuite}]
  BY <1>e DEF TypeOK
<1>1. ASSUME NEW r \in Runners, Runner(r) PROVE TypeOK'
  <2>1. CASE RunBaseline(r) \/ runConfiguredGates(r)
    BY <1>b, <2>1 DEF RunBaseline, runConfiguredGates, Phases
  <2>2. ASSUME NEW g \in Gates, RunGate(r, g) PROVE TypeOK'
    <3>1. gateDependencyPlan(g) \in SUBSET Gates
      BY PlanOfGates DEF TypeOK
    <3> QED
      BY <1>b, <2>2, <3>1 DEF RunGate, Phases
  <2>3. CASE SuiteUnavailable(r) \/ RunSetup(r) \/ RunNextGate(r) \/ persistGateSuite(r)
    <3>1. suites[r] \in Suites
      BY <2>3 DEF SuiteUnavailable, RunSetup, RunNextGate, persistGateSuite,
         Finished, TypeOK
    <3> QED
      BY <2>3, <3>1, SuiteStepTypes
  <2>4. CASE finishBaseline(r) \/ finishCheck(r) \/ finishGate(r)
    <3>1. run' \in [stage : Stages, rev : Nat]
      <4>1. ASSUME NEW stage \in Stages, MoveRun(r, stage)
            PROVE  run' \in [stage : Stages, rev : Nat]
        BY <4>1 DEF MoveRun, TypeOK
      <4> QED
        BY <2>4, <4>1 DEF finishBaseline, finishCheck, finishGate, Stages, TypeOK
    <3> QED
      BY <2>4, <3>1, <1>e DEF finishBaseline, finishCheck, finishGate, Judged, TypeOK
  <2>5. CASE Crash(r)
    BY <2>5, <1>e DEF Crash, TypeOK
  <2> QED
    BY <1>1, <2>1, <2>2, <2>3, <2>4, <2>5 DEF Runner
<1>2. CASE Implement
  <2>1. ck + 1 \in 1..MaxCheckpoints
    BY <1>2, GateAssumption DEF Implement, TypeOK
  <2> QED
    BY <1>2, <2>1 DEF Implement, TypeOK, Stages
<1>3. CASE ResumeCheck \/ ReviewRepair \/ MarkReady
  BY <1>3 DEF ResumeCheck, ReviewRepair, MarkReady, Step, TypeOK, Stages
<1>4. CASE UNCHANGED vars
  BY <1>4 DEF vars, TypeOK
<1> QED
  BY <1>1, <1>2, <1>3, <1>4 DEF Next

\* Every variable keeps its type, for any number of gates, processes and
\* checkpoints and any set of frozen packets.
THEOREM GateTypes == Spec => []TypeOK
  BY TypeStarts, TypeKept, PTL DEF Spec

-----------------------------------------------------------------------------
(* Counting the commands of a suite *)

LEMMA CountsAreNumbers ==
  ASSUME NEW s \in Suites, NEW n \in 0..NGates
  PROVE  /\ IsFiniteSet(RanUpTo(s, n)) /\ CallOf(s, n) \in Nat
         /\ ~s.skip => CallOf(s, n) >= 1
<1>1. n \in Int /\ NGates \in Nat
  BY GateAssumption
<1>2. IsFiniteSet(1..n)
  BY <1>1, FS_Interval
<1>3. IsFiniteSet(RanUpTo(s, n))
  BY <1>2, FS_Subset DEF RanUpTo
<1>4. Cardinality(RanUpTo(s, n)) \in Nat
  BY <1>3, FS_CardinalityType
<1> QED
  BY <1>3, <1>4 DEF CallOf

\* Two suites that agree up to a gate have recorded the same number of commands.
LEMMA SameCount ==
  ASSUME NEW s, NEW t, NEW n, s.skip = t.skip,
         \A g \in 1..n : s.results[g] = t.results[g]
  PROVE  CallOf(t, n) = CallOf(s, n)
<1>1. RanUpTo(t, n) = RanUpTo(s, n)
  BY DEF RanUpTo, Ran
<1> QED
  BY <1>1 DEF CallOf

\* The next gate adds one command, if it ran.
LEMMA NextCount ==
  ASSUME NEW s \in Suites, NEW g \in Gates
  PROVE  CallOf(s, g) = CallOf(s, g - 1) + (IF Ran(s, g) THEN 1 ELSE 0)
<1>1. /\ g \in Nat /\ g - 1 \in 0..NGates /\ NGates \in Nat
      /\ 1..g = (1..(g - 1)) \cup {g} /\ g \notin 1..(g - 1)
  BY GateAssumption DEF Gates
<1>a. IsFiniteSet(RanUpTo(s, g - 1)) /\ CallOf(s, g - 1) \in Nat
  <2>1. PICK n \in 0..NGates : n = g - 1
    BY <1>1
  <2>2. IsFiniteSet(RanUpTo(s, n)) /\ CallOf(s, n) \in Nat
    BY CountsAreNumbers
  <2> QED
    BY <2>1, <2>2
<1>2. /\ IsFiniteSet(RanUpTo(s, g - 1)) /\ CallOf(s, g - 1) \in Nat
      /\ Cardinality(RanUpTo(s, g - 1)) \in Nat
  BY <1>a, FS_CardinalityType
<1>3. CASE Ran(s, g)
  <2>1. RanUpTo(s, g) = RanUpTo(s, g - 1) \cup {g} /\ g \notin RanUpTo(s, g - 1)
    BY <1>1, <1>3 DEF RanUpTo
  <2>2. Cardinality(RanUpTo(s, g)) = Cardinality(RanUpTo(s, g - 1)) + 1
    BY <1>2, <2>1, FS_AddElement
  <2> QED
    BY <1>2, <1>3, <2>2 DEF CallOf
<1>4. CASE ~Ran(s, g)
  <2>1. RanUpTo(s, g) = RanUpTo(s, g - 1)
    BY <1>1, <1>4 DEF RanUpTo
  <2> QED
    BY <1>2, <1>4, <2>1 DEF CallOf
<1> QED
  BY <1>3, <1>4

LEMMA NothingCounted ==
  ASSUME NEW s PROVE CallOf(s, 0) = IF s.skip THEN 0 ELSE 1
<1>1. RanUpTo(s, 0) = {}
  BY DEF RanUpTo
<1> QED
  BY <1>1, FS_EmptySet DEF CallOf

-----------------------------------------------------------------------------
(* What a suite's record says, step by step *)

LEMMA FreshIsCoherent ==
  ASSUME TypeOK, NEW purpose \in {"run", "gate"}, NEW phase \in Phases,
         NEW plan \in SUBSET Gates, NEW skip \in BOOLEAN,
         NEW t, t = Fresh(purpose, phase, plan, skip)
  PROVE  Coherent(t)
<1>1. /\ t.results = [g \in Gates |-> NotRun] /\ t.failures = {} /\ t.failed = {}
      /\ t.halted = FALSE /\ t.calls = <<>> /\ t.saved = "no" /\ t.skip = skip
      /\ t.next = (IF skip THEN 1 ELSE 0) /\ t.plan = plan
  BY DEF Fresh
<1>2. \A g \in Gates : /\ g \in Nat /\ g >= 1 /\ t.results[g] = NotRun
                       /\ t.results[g].outcome = "none"
  BY <1>1, GateAssumption DEF NotRun, Gates
<1>3. policy.blocking \subseteq Gates
  BY PolicyFacts DEF TypeOK
<1>4. TakenInOrder(t)
  BY <1>1, <1>2 DEF TakenInOrder
<1>5. Explained(t)
  BY <1>1, <1>2, <1>3 DEF Explained, HasSetupFailure
<1>6. Recorded(t)
  <2>1. CASE skip
    <3>1. CallOf(t, 0) = 0
      BY <1>1, <2>1, NothingCounted
    <3>2. /\ t.next = 1 /\ t.next - 1 = 0 /\ t.calls = <<>> /\ t.failures = {}
          /\ t.skip /\ Len(<<>>) = 0
      BY <1>1, <2>1
    <3>3. \A g \in Gates : ~(g < t.next)
      BY <3>2, <1>2
    <3>4. Len(t.calls) = CallOf(t, t.next - 1) /\ DOMAIN t.calls = {}
      BY <3>1, <3>2
    <3> QED
      BY <3>2, <3>3, <3>4 DEF Recorded
  <2> QED
    BY <1>1, <2>1 DEF Recorded
<1>7. Begun(t)
  BY <1>1, <1>2 DEF Begun
<1> QED
  BY <1>4, <1>5, <1>6, <1>7 DEF Coherent

LEMMA UnavailableIsCoherent ==
  ASSUME TypeOK, NEW s \in Suites, Coherent(s), NEW t,
         s.calls = <<>>, \A g \in Gates : s.results[g] = NotRun,
         t = [s EXCEPT !.next = NGates + 1, !.saved = "stored",
                       !.failures = {"unavailable"}]
  PROVE  Coherent(t)
<1>1. /\ t.results = s.results /\ t.failures = {"unavailable"} /\ t.failed = s.failed
      /\ t.halted = s.halted /\ t.calls = <<>> /\ t.next = NGates + 1
      /\ t.plan = s.plan /\ s.plan \subseteq Gates
  BY DEF Suites
<1>2. \A g \in Gates : /\ g \in Nat /\ g < NGates + 1 /\ t.results[g] = NotRun
                       /\ t.results[g].outcome = "none"
  BY <1>1, GateAssumption DEF NotRun, Gates
<1>3. policy.blocking \subseteq Gates
  BY PolicyFacts DEF TypeOK
<1>4. TakenInOrder(t)
  BY <1>1, <1>2 DEF TakenInOrder
<1>5. Explained(t)
  <2>1. s.failed = {}
    BY <1>1, <1>2 DEF Coherent, Explained, Suites
  <2>2. ~s.halted /\ DOMAIN t.calls = {}
    BY <1>1 DEF Coherent, Explained
  <2>3. ~HasSetupFailure(t.results)
    BY <1>2 DEF HasSetupFailure
  <2> QED
    BY <1>1, <1>2, <1>3, <2>1, <2>2, <2>3 DEF Explained
<1>6. Recorded(t)
  BY <1>1 DEF Recorded
<1>7. Begun(t)
  <2>1. Due(t) = {}
    BY <1>1, <1>2, GateAssumption DEF Due
  <2>2. NGates + 1 > 0
    BY GateAssumption
  <2> QED
    BY <1>1, <2>1, <2>2 DEF Begun
<1> QED
  BY <1>4, <1>5, <1>6, <1>7 DEF Coherent

LEMMA SetupIsCoherent ==
  ASSUME TypeOK, NEW s \in Suites, Coherent(s), s.next = 0,
         NEW t, t = [s EXCEPT !.next = 1, !.calls = <<"pass">>]
  PROVE  Coherent(t)
<1>1. /\ t.results = s.results /\ t.failures = {} /\ t.failed = s.failed
      /\ t.halted = s.halted /\ t.calls = <<"pass">> /\ t.next = 1
      /\ t.plan = s.plan /\ s.plan \subseteq Gates /\ t.saved = s.saved
      /\ ~s.skip /\ t.skip = s.skip /\ s.saved = "no" /\ s.calls = <<>>
  BY DEF Suites, Coherent, Begun
<1>2. \A g \in Gates : /\ g \in Nat /\ g >= 1 /\ t.results[g] = NotRun
                       /\ t.results[g].outcome = "none"
  BY <1>1, GateAssumption DEF NotRun, Gates, Coherent, Begun
<1>3. policy.blocking \subseteq Gates
  BY PolicyFacts DEF TypeOK
<1>4. TakenInOrder(t)
  BY <1>1, <1>2 DEF TakenInOrder
<1>5. Explained(t)
  <2>1. s.failed = {}
    BY <1>1, <1>2 DEF Coherent, Explained, Suites
  <2>2. ~s.halted /\ \A i \in DOMAIN t.calls : t.calls[i] = "pass"
    BY <1>1 DEF Coherent, Explained
  <2>3. ~HasSetupFailure(t.results)
    BY <1>2 DEF HasSetupFailure
  <2> QED
    BY <1>1, <1>2, <1>3, <2>1, <2>2, <2>3 DEF Explained
<1>6. Recorded(t)
  <2>1. CallOf(t, 0) = 1
    BY <1>1, NothingCounted
  <2>2. t.next - 1 = 0 /\ Len(t.calls) = 1 /\ t.calls[1] = "pass"
        /\ DOMAIN t.calls = {1}
    BY <1>1
  <2>3. \A g \in Gates : ~(g < t.next)
    BY <1>1, <1>2
  <2>4. Len(t.calls) = CallOf(t, t.next - 1)
    BY <2>1, <2>2
  <2> QED
    BY <1>1, <2>2, <2>3, <2>4 DEF Recorded
<1>7. Begun(t)
  BY <1>1, <1>2 DEF Begun
<1> QED
  BY <1>4, <1>5, <1>6, <1>7 DEF Coherent

LEMMA SetupFailureIsCoherent ==
  ASSUME TypeOK, NEW s \in Suites, Coherent(s), s.next = 0,
         NEW c \in Commands \ {"pass"}, NEW results, NEW failures, NEW t,
         results = [g \in Gates |-> IF g \in s.plan
                      THEN Result("setup_failed", "error") ELSE NotRun],
         failures \in {SetupFailure(c), SetupFailure(c) \cup {"publication"}},
         t = [s EXCEPT !.next = NGates + 1, !.calls = <<c>>,
                       !.results = results, !.failures = failures]
  PROVE  Coherent(t)
<1>1. /\ t.results = results /\ t.failures = failures /\ t.failed = s.failed
      /\ t.halted = s.halted /\ t.calls = <<c>> /\ t.next = NGates + 1
      /\ t.plan = s.plan /\ s.plan \subseteq Gates /\ t.saved = s.saved
      /\ ~s.skip /\ t.skip = s.skip /\ s.saved = "no" /\ s.calls = <<>>
  BY DEF Suites, Coherent, Begun
<1>2. \A g \in Gates :
        /\ g \in Nat /\ g < NGates + 1 /\ ~(g >= NGates + 1)
        /\ results[g].outcome = IF g \in s.plan THEN "setup_failed" ELSE "none"
        /\ results[g].outcome \notin {"passed", "failed", "error", "skipped"}
        /\ g \in s.plan => results[g] # NotRun
  BY GateAssumption DEF NotRun, Gates, Result
<1>3. policy.blocking \subseteq Gates /\ NGates \in Nat
  BY PolicyFacts DEF TypeOK
<1>f. /\ SetupFailure(c) \subseteq failures
      /\ "command" \notin failures /\ "unavailable" \notin failures
      /\ c = "unconfirmed" => "unconfirmed" \in failures
  BY DEF SetupFailure
<1>4. TakenInOrder(t)
  BY <1>1, <1>2 DEF TakenInOrder
<1>s. SetupFailed(t)
  BY <1>1, <1>2, <1>f DEF SetupFailed
<1>5. Explained(t)
  <2>1. s.failed = {}
    <3>1. \A g \in Gates : s.results[g].outcome = "none"
      BY DEF Coherent, Begun, NotRun
    <3> QED
      BY <1>1, <3>1 DEF Coherent, Explained, Suites
  <2>2. ~s.halted
    BY <1>1 DEF Coherent, Explained
  <2>3. \A i \in DOMAIN t.calls : t.calls[i] = c
    BY <1>1
  <2> QED
    BY <1>1, <1>2, <1>3, <1>f, <1>s, <2>1, <2>2, <2>3 DEF Explained
<1>6. Recorded(t)
  <2>1. ASSUME t.plan = Gates PROVE HasSetupFailure(t.results)
    <3>1. PICK g \in Gates : g = 1
      BY <1>3, GateAssumption DEF Gates
    <3> QED
      BY <2>1, <3>1, <1>1, <1>2 DEF HasSetupFailure
  <2> QED
    BY <2>1 DEF Recorded
<1>7. Begun(t)
  <2>1. NGates + 1 # 0
    BY <1>3
  <2> QED
    BY <1>1, <1>f, <2>1 DEF Begun
<1> QED
  BY <1>4, <1>5, <1>6, <1>7 DEF Coherent

LEMMA SavedIsCoherent ==
  ASSUME NEW s \in Suites, Coherent(s), Finished(s), NEW saved,
         NEW t, t = [s EXCEPT !.saved = saved]
  PROVE  Coherent(t)
<1>1. /\ t.results = s.results /\ t.failures = s.failures /\ t.failed = s.failed
      /\ t.halted = s.halted /\ t.calls = s.calls /\ t.next = s.next
      /\ t.plan = s.plan /\ t.skip = s.skip
  BY DEF Suites
<1>2. Due(t) = {} /\ t.next > 0
  BY <1>1 DEF Finished, Due
<1>3. TakenInOrder(t) /\ Begun(t)
  BY <1>1, <1>2 DEF Coherent, TakenInOrder, Begun
<1>4. Explained(t)
  <2>1. SetupFailed(s) => SetupFailed(t)
    BY <1>1 DEF SetupFailed
  <2> QED
    BY <1>1, <2>1 DEF Coherent, Explained
<1>5. Recorded(t)
  <2>1. \A n : CallOf(t, n) = CallOf(s, n)
    BY <1>1, SameCount
  <2>2. \A g : Ran(t, g) <=> Ran(s, g)
    BY <1>1 DEF Ran
  <2> QED
    BY <1>1, <2>1, <2>2 DEF Coherent, Recorded
<1> QED
  BY <1>3, <1>4, <1>5 DEF Coherent

-----------------------------------------------------------------------------
(* A suite takes its next gate *)

\* The record after gate g got its result, for the three ways it gets one.
Taken(s, t, g, result, failures, failed, halted, calls) ==
  /\ t.next = g + 1 /\ t.results = [s.results EXCEPT ![g] = result]
  /\ t.failures \in {s.failures \cup failures, s.failures \cup failures \cup {"publication"}}
  /\ t.failed = (IF failed THEN s.failed \cup {g} ELSE s.failed)
  /\ t.halted = halted /\ t.calls = calls
  /\ t.plan = s.plan /\ t.skip = s.skip /\ t.saved = s.saved

Halted(s, t, g) ==
  /\ s.halted
  /\ Taken(s, t, g, Result("skipped", "pending"), {}, FALSE, TRUE, s.calls)
Skipped(s, t, g) ==
  /\ ~s.halted /\ policy.needs[g] \cap s.failed # {}
  /\ Taken(s, t, g, Result("skipped", "pending"),
           IF g \in policy.blocking THEN {"dependency"} ELSE {}, TRUE, FALSE, s.calls)
Executed(s, t, g, c) ==
  /\ ~s.halted
  /\ Taken(s, t, g, runDeclaredGate(c),
           IF g \in policy.blocking \/ c = "unconfirmed" THEN GateFailure(c) ELSE {},
           c # "pass", c = "unconfirmed", Append(s.calls, c))

\* What every such step shares.
LEMMA TakenFacts ==
  ASSUME TypeOK, NEW s \in Suites, Coherent(s), s.next > 0,
         NEW g \in Due(s), \A h \in Due(s) : g <= h, NEW t \in Suites,
         NEW result, NEW failures, NEW failed, NEW halted, NEW calls,
         Taken(s, t, g, result, failures, failed, halted, calls)
  PROVE  /\ g \in Gates /\ g \in Nat /\ s.next \in Nat /\ s.next <= g /\ NGates \in Nat
         /\ s.results[g] = NotRun /\ s.results[g].outcome = "none"
         /\ t.results[g] = result
         /\ \A h \in Gates : h # g => t.results[h] = s.results[h]
         /\ \A h \in s.plan : h < t.next => h < s.next \/ h = g
         /\ \A h \in Gates : h < s.next => h # g /\ h < t.next /\ h \in Nat
         /\ ~HasSetupFailure(s.results) /\ "setup_exit" \notin s.failures
         /\ "unavailable" \notin s.failures /\ s.saved = "no"
         /\ s.plan = Gates => s.next = g
<1>1. /\ g \in s.plan /\ g >= s.next /\ s.plan \subseteq Gates
      /\ s.next \in Nat /\ NGates \in Nat /\ s.results \in [Gates -> Results]
  BY GateAssumption DEF Due, Suites
<1>2. g \in Gates /\ g \in Nat /\ g <= NGates /\ s.next < NGates + 1
  BY <1>1 DEF Gates
<1>3. s.results[g] = NotRun
  BY <1>1, <1>2 DEF Coherent, TakenInOrder
<1>4. t.next = g + 1 /\ t.results = [s.results EXCEPT ![g] = result]
  BY DEF Taken
<1>5. \A h \in s.plan : h < t.next => h < s.next \/ h = g
  BY <1>1, <1>2, <1>4 DEF Due, Gates
<1>6. \A h \in Gates : h < s.next => h # g /\ h < t.next /\ h \in Nat
  BY <1>1, <1>2, <1>4 DEF Gates
<1>7. ~HasSetupFailure(s.results) /\ "setup_exit" \notin s.failures
  BY <1>1, <1>2 DEF Coherent, Explained, SetupFailed
<1>8. "unavailable" \notin s.failures /\ s.saved = "no"
  <2>1. s.saved \in {"no", "stored", "stored_with_error", "lost"}
    BY DEF Suites
  <2>2. Due(s) # {}
    OBVIOUS
  <2>3. s.next # NGates + 1
    BY <1>1, <1>2
  <2> QED
    BY <2>1, <2>2, <2>3 DEF Coherent, Begun
<1>9. s.plan = Gates => s.next = g
  BY <1>1, <1>2 DEF Due, Gates
<1> QED
  BY <1>1, <1>2, <1>3, <1>4, <1>5, <1>6, <1>7, <1>8, <1>9 DEF NotRun

\* A command and what the gate makes of it.
LEMMA CommandFacts ==
  ASSUME NEW c \in Commands
  PROVE  /\ runDeclaredGate(c).outcome \in {"passed", "failed", "error"}
         /\ runDeclaredGate(c) # NotRun
         /\ c = "pass" <=> runDeclaredGate(c).outcome = "passed"
         /\ GateFailure(c) \subseteq {"command", "runtime", "unconfirmed"}
         /\ "command" \in GateFailure(c) => runDeclaredGate(c).outcome = "failed"
         /\ "unconfirmed" \in GateFailure(c) <=> c = "unconfirmed"
         /\ runDeclaredGate(c).outcome = "error" =>
              "runtime" \in GateFailure(c) \/ "unconfirmed" \in GateFailure(c)
         /\ GateFailure(c) = {} <=> c = "pass"
         /\ c = "unconfirmed" => GateFailure(c) = {"unconfirmed"}
  BY DEF Result, runDeclaredGate, GateFailure, NotRun, TimedOut, Commands

\* What taking a gate adds to the explanation of the record.
LEMMA TakenIsExplained ==
  ASSUME TypeOK, NEW s \in Suites, Coherent(s), s.next > 0,
         NEW g \in Due(s), \A h \in Due(s) : g <= h, NEW t \in Suites,
         NEW c \in Commands,
         Halted(s, t, g) \/ Skipped(s, t, g) \/ Executed(s, t, g, c)
  PROVE  TakenInOrder(t) /\ Explained(t) /\ Begun(t)
<1>1. PICK result, failures, failed, halted, calls :
        /\ Taken(s, t, g, result, failures, failed, halted, calls)
        /\ \/ /\ Halted(s, t, g)
              /\ result = Result("skipped", "pending") /\ failures = {}
              /\ failed = FALSE /\ halted = TRUE /\ calls = s.calls
           \/ /\ Skipped(s, t, g) /\ failed = TRUE /\ halted = FALSE
              /\ result = Result("skipped", "pending") /\ calls = s.calls
              /\ failures = IF g \in policy.blocking THEN {"dependency"} ELSE {}
           \/ /\ Executed(s, t, g, c) /\ result = runDeclaredGate(c)
              /\ failures = IF g \in policy.blocking \/ c = "unconfirmed"
                              THEN GateFailure(c) ELSE {}
              /\ failed = (c # "pass") /\ halted = (c = "unconfirmed")
              /\ calls = Append(s.calls, c)
  BY DEF Halted, Skipped, Executed
<1>2. /\ g \in Gates /\ g \in Nat /\ s.next \in Nat /\ s.next <= g /\ NGates \in Nat
      /\ s.results[g] = NotRun /\ s.results[g].outcome = "none"
      /\ t.results[g] = result
      /\ \A h \in Gates : h # g => t.results[h] = s.results[h]
      /\ \A h \in s.plan : h < t.next => h < s.next \/ h = g
      /\ \A h \in Gates : h < s.next => h # g /\ h < t.next /\ h \in Nat
      /\ ~HasSetupFailure(s.results) /\ "setup_exit" \notin s.failures
      /\ "unavailable" \notin s.failures /\ s.saved = "no"
  BY <1>1, TakenFacts
<1>3. /\ t.next = g + 1 /\ t.calls = calls /\ t.halted = halted
      /\ s.failures \subseteq t.failures /\ failures \subseteq t.failures
      /\ t.failures \subseteq s.failures \cup failures \cup {"publication"}
      /\ t.failed = (IF failed THEN s.failed \cup {g} ELSE s.failed)
      /\ t.plan = s.plan /\ t.saved = "no"
  BY <1>1, <1>2 DEF Taken
<1>4. /\ result.outcome \in {"passed", "failed", "error", "skipped"}
      /\ result # NotRun
      /\ failures \subseteq {"command", "runtime", "unconfirmed", "dependency"}
      /\ failed => result.outcome \in {"failed", "error", "skipped"}
  <2>1. /\ Result("skipped", "pending").outcome = "skipped"
        /\ Result("skipped", "pending") # NotRun
    BY DEF Result, NotRun
  <2> QED
    BY <1>1, <2>1, CommandFacts
<1>5. /\ policy.blocking \subseteq Gates
      /\ policy.needs \in [Gates -> SUBSET Gates]
  BY PolicyFacts DEF TypeOK
<1>6. TakenInOrder(t)
  <2>1. ASSUME NEW h \in Gates, h >= t.next PROVE t.results[h] = NotRun
    <3>1. h # g /\ h >= s.next
      BY <2>1, <1>2, <1>3 DEF Gates
    <3> QED
      BY <3>1, <1>2 DEF Coherent, TakenInOrder
  <2>2. ASSUME NEW h \in t.plan, h < t.next PROVE t.results[h] # NotRun
    <3>1. h \in Gates
      BY <1>3 DEF Suites
    <3>2. CASE h = g
      BY <3>2, <1>2, <1>4
    <3>3. CASE h < s.next /\ h # g
      BY <3>1, <3>3, <1>2, <1>3 DEF Coherent, TakenInOrder
    <3> QED
      BY <2>2, <3>1, <3>2, <3>3, <1>2, <1>3
  <2> QED
    BY <2>1, <2>2 DEF TakenInOrder
<1>7. Begun(t)
  BY <1>2, <1>3, <1>4 DEF Coherent, Begun
<1>8. Explained(t)
  <2>1. "command" \in t.failures =>
          \E h \in policy.blocking : t.results[h].outcome = "failed"
    <3>1. CASE "command" \in s.failures
      BY <3>1, <1>2, <1>5 DEF Coherent, Explained
    <3>2. CASE "command" \in failures
      <4>1. g \in policy.blocking /\ result.outcome = "failed"
        BY <3>2, <1>1, CommandFacts
      <4> QED
        BY <4>1, <1>2
    <3> QED
      BY <3>1, <3>2, <1>3
  <2>2. /\ t.halted => \E i \in DOMAIN t.calls : t.calls[i] = "unconfirmed"
        /\ (\E i \in DOMAIN t.calls : t.calls[i] = "unconfirmed")
             => "unconfirmed" \in t.failures
    <3>1. CASE calls = s.calls /\ (Halted(s, t, g) \/ halted = FALSE)
      <4>1. t.halted => s.halted
        BY <3>1, <1>3 DEF Halted
      <4> QED
        BY <3>1, <4>1, <1>3 DEF Coherent, Explained
    <3>2. CASE Executed(s, t, g, c) /\ calls = Append(s.calls, c)
      <4>1. /\ DOMAIN calls = 1..(Len(s.calls) + 1) /\ Len(s.calls) \in Nat
            /\ \A i \in 1..Len(s.calls) : calls[i] = s.calls[i]
            /\ calls[Len(s.calls) + 1] = c /\ DOMAIN s.calls = 1..Len(s.calls)
        BY <3>2 DEF Suites
      <4>2. t.halted <=> c = "unconfirmed"
        BY <3>2 DEF Executed, Taken
      <4>3. c = "unconfirmed" => "unconfirmed" \in t.failures
        BY <3>2 DEF Executed, Taken, GateFailure
      <4>4. ASSUME NEW i \in DOMAIN t.calls, t.calls[i] = "unconfirmed"
            PROVE  "unconfirmed" \in t.failures
        <5>1. CASE i \in DOMAIN s.calls
          BY <4>1, <4>4, <5>1, <1>3 DEF Coherent, Explained
        <5>2. CASE i = Len(s.calls) + 1
          BY <4>1, <4>3, <4>4, <5>2, <1>3
        <5> QED
          BY <4>1, <5>1, <5>2, <1>3
      <4>5. c = "unconfirmed" => \E i \in DOMAIN t.calls : t.calls[i] = "unconfirmed"
        BY <4>1, <1>3
      <4> QED
        BY <4>2, <4>4, <4>5
    <3> QED
      BY <1>1, <3>1, <3>2
  <2>3. \A h \in t.failed : /\ t.results[h].outcome \in {"failed", "error", "skipped"}
                            /\ h < t.next
    <3>1. s.failed \subseteq Gates
      BY DEF Suites
    <3>2. ASSUME NEW h \in s.failed
          PROVE  t.results[h].outcome \in {"failed", "error", "skipped"} /\ h < t.next
      <4>1. s.results[h].outcome \in {"failed", "error", "skipped"} /\ h < s.next
        BY DEF Coherent, Explained
      <4> QED
        BY <3>1, <4>1, <1>2
    <3>3. failed => t.results[g].outcome \in {"failed", "error", "skipped"} /\ g < t.next
      BY <1>2, <1>3, <1>4
    <3> QED
      BY <3>2, <3>3, <1>3
  <2>4. ASSUME NEW h \in policy.blocking, t.results[h].outcome = "error"
        PROVE  t.failures \cap {"runtime", "unconfirmed"} # {}
    <3>1. CASE h = g
      <4>1. failures \cap {"runtime", "unconfirmed"} # {}
        <5>1. result.outcome = "error"
          BY <3>1, <2>4, <1>2
        <5>2. Result("skipped", "pending").outcome # "error"
          BY DEF Result
        <5>3. result = runDeclaredGate(c) /\ failures = GateFailure(c)
          BY <3>1, <5>1, <5>2, <1>1
        <5> QED
          BY <5>1, <5>3, CommandFacts
      <4> QED
        BY <4>1, <1>3
    <3>2. CASE h # g
      <4>1. s.failures \cap {"runtime", "unconfirmed"} # {}
        BY <3>2, <2>4, <1>2, <1>5 DEF Coherent, Explained
      <4> QED
        BY <4>1, <1>3
    <3> QED
      BY <3>1, <3>2
  <2>5. ASSUME NEW h \in Gates, t.results[h].outcome = "skipped"
        PROVE  "unconfirmed" \in t.failures \/ policy.needs[h] \cap t.failed # {}
    <3>0. s.failed \subseteq t.failed
      BY <1>3
    <3>1. CASE h = g /\ Halted(s, t, g)
      <4>1. "unconfirmed" \in s.failures
        BY <3>1 DEF Halted, Coherent, Explained
      <4> QED
        BY <4>1, <1>3
    <3>2. CASE h = g /\ Skipped(s, t, g)
      BY <3>0, <3>2 DEF Skipped
    <3>3. CASE h = g /\ Executed(s, t, g, c)
      <4>1. t.results[g] = runDeclaredGate(c)
        BY <1>2, <3>3 DEF Executed, Taken, Suites
      <4> QED
        BY <3>3, <4>1, <2>5 DEF Result, runDeclaredGate
    <3>4. CASE h # g
      BY <3>0, <3>4, <2>5, <1>2, <1>3 DEF Coherent, Explained
    <3> QED
      BY <1>1, <3>1, <3>2, <3>3, <3>4
  <2>6. ~HasSetupFailure(t.results) /\ "setup_exit" \notin t.failures
    BY <1>2, <1>3, <1>4 DEF HasSetupFailure
  <2> QED
    BY <2>1, <2>2, <2>3, <2>4, <2>5, <2>6 DEF Explained
<1> QED
  BY <1>6, <1>7, <1>8

\* What taking a gate adds to the list of commands.
LEMMA TakenIsRecorded ==
  ASSUME TypeOK, NEW s \in Suites, Coherent(s), s.next > 0,
         NEW g \in Due(s), \A h \in Due(s) : g <= h, NEW t \in Suites,
         NEW c \in Commands,
         Halted(s, t, g) \/ Skipped(s, t, g) \/ Executed(s, t, g, c)
  PROVE  Recorded(t)
<1> SUFFICES ASSUME t.plan = Gates PROVE Recorded(t)
  BY DEF Recorded
<1>1. PICK result, failures, failed, halted, calls :
        /\ Taken(s, t, g, result, failures, failed, halted, calls)
        /\ \/ /\ Halted(s, t, g)
              /\ result = Result("skipped", "pending") /\ failures = {}
              /\ calls = s.calls
           \/ /\ Skipped(s, t, g)
              /\ result = Result("skipped", "pending") /\ calls = s.calls
              /\ failures = IF g \in policy.blocking THEN {"dependency"} ELSE {}
           \/ /\ Executed(s, t, g, c) /\ result = runDeclaredGate(c)
              /\ failures = IF g \in policy.blocking \/ c = "unconfirmed"
                              THEN GateFailure(c) ELSE {}
              /\ calls = Append(s.calls, c)
  BY DEF Halted, Skipped, Executed
<1>2. /\ g \in Gates /\ g \in Nat /\ NGates \in Nat
      /\ t.results[g] = result
      /\ \A h \in Gates : h # g => t.results[h] = s.results[h]
      /\ \A h \in s.plan : h < t.next => h < s.next \/ h = g
      /\ \A h \in Gates : h < s.next => h # g /\ h < t.next /\ h \in Nat
      /\ ~HasSetupFailure(s.results) /\ "unavailable" \notin s.failures
      /\ s.plan = Gates => s.next = g
  BY <1>1, TakenFacts
<1>3. /\ t.next = g + 1 /\ t.calls = calls /\ t.skip = s.skip /\ s.plan = Gates
      /\ t.failures \subseteq s.failures \cup failures \cup {"publication"}
  BY <1>1 DEF Taken
<1>4. /\ s.next = g /\ Len(s.calls) = CallOf(s, g - 1)
      /\ ~s.skip => s.calls[1] = "pass"
  BY <1>2, <1>3 DEF Coherent, Recorded
<1>5. /\ policy.blocking \subseteq Gates
      /\ Result("skipped", "pending").outcome = "skipped"
      /\ s.calls \in Seq(Commands) /\ DOMAIN s.calls = 1..Len(s.calls)
      /\ Len(s.calls) \in Nat
  BY PolicyFacts DEF TypeOK, Result, Suites
\* What was recorded before the gate stays where it was.
<1>6. ASSUME NEW h \in Gates, h < g
      PROVE  CallOf(t, h) = CallOf(s, h) /\ (Ran(t, h) <=> Ran(s, h))
  <2>1. h \in Nat /\ \A k \in 1..h : k \in Gates /\ k # g
    BY <1>2, <1>6 DEF Gates
  <2>2. \A k \in 1..h : s.results[k] = t.results[k]
    BY <1>2, <2>1
  <2> QED
    BY <1>2, <1>3, <1>6, <2>2, SameCount DEF Ran
<1>7. CallOf(t, g - 1) = CallOf(s, g - 1)
  <2>1. PICK n : n = g - 1 /\ \A k \in 1..n : k \in Gates /\ k # g
    BY <1>2 DEF Gates
  <2>2. \A k \in 1..n : s.results[k] = t.results[k]
    BY <1>2, <2>1
  <2>3. CallOf(t, n) = CallOf(s, n)
    BY <1>3, <2>2, SameCount
  <2> QED
    BY <2>1, <2>3
<1>8. CallOf(t, g) = Len(s.calls) + (IF Ran(t, g) THEN 1 ELSE 0)
  BY <1>4, <1>7, NextCount, <1>2
<1>9. /\ DOMAIN s.calls \subseteq DOMAIN calls
      /\ \A i \in DOMAIN s.calls : calls[i] = s.calls[i]
  BY <1>1, <1>5
<1>10. Ran(t, g) => /\ Executed(s, t, g, c) /\ calls = Append(s.calls, c)
                    /\ result = runDeclaredGate(c)
  BY <1>1, <1>2, <1>5 DEF Ran
<1>11. Executed(s, t, g, c) /\ result = runDeclaredGate(c) => Ran(t, g)
  BY <1>2, CommandFacts DEF Ran
<1>a. ASSUME NEW h \in Gates, h < g, Ran(t, h)
      PROVE  /\ CallOf(s, h) \in DOMAIN s.calls /\ CallOf(t, h) = CallOf(s, h)
             /\ CallOf(t, h) \in DOMAIN calls
             /\ calls[CallOf(t, h)] = s.calls[CallOf(s, h)]
             /\ t.results[h] = runDeclaredGate(calls[CallOf(t, h)])
  <2>1. Ran(s, h) /\ CallOf(t, h) = CallOf(s, h)
    BY <1>6, <1>a
  <2>2. /\ CallOf(s, h) \in DOMAIN s.calls
        /\ s.results[h] = runDeclaredGate(s.calls[CallOf(s, h)])
    BY <1>2, <1>3, <1>4, <1>a, <2>1 DEF Coherent, Recorded
  <2>3. t.results[h] = s.results[h]
    BY <1>2, <1>4, <1>a
  <2> QED
    BY <1>9, <2>1, <2>2, <2>3
<1>b. Ran(t, g) => /\ CallOf(t, g) = Len(s.calls) + 1
                   /\ CallOf(t, g) \in DOMAIN calls /\ calls[CallOf(t, g)] = c
                   /\ t.results[g] = runDeclaredGate(c)
  BY <1>2, <1>5, <1>8, <1>10
<1>c. Len(calls) = CallOf(t, g)
  <2>1. CASE Ran(t, g)
    BY <2>1, <1>5, <1>8, <1>10
  <2>2. CASE ~Ran(t, g)
    BY <2>2, <1>1, <1>8, <1>11
  <2> QED
    BY <2>1, <2>2
<1>d. ~t.skip => calls[1] = "pass"
  <2> SUFFICES ASSUME ~t.skip PROVE calls[1] = "pass"
    OBVIOUS
  <2>1. PICK n \in 0..NGates : n = g - 1
    BY <1>2 DEF Gates
  <2>2. CallOf(s, n) >= 1
    BY <1>3, CountsAreNumbers
  <2>3. 1 \in DOMAIN s.calls
    BY <1>4, <1>5, <2>1, <2>2
  <2> QED
    BY <1>3, <1>4, <1>9, <2>3
<1>e. ASSUME NEW i \in DOMAIN calls
      PROVE  \/ ~t.skip /\ i = 1
             \/ \E h \in Gates : h < t.next /\ Ran(t, h) /\ CallOf(t, h) = i
  <2>1. CASE i \in DOMAIN s.calls
    <3>1. \/ ~s.skip /\ i = 1
          \/ \E h \in Gates : h < s.next /\ Ran(s, h) /\ CallOf(s, h) = i
      BY <1>2, <1>3, <1>4, <2>1 DEF Coherent, Recorded
    <3> QED
      BY <1>2, <1>3, <1>4, <1>6, <3>1
  <2>2. CASE i \notin DOMAIN s.calls
    <3>1. i = Len(s.calls) + 1 /\ Executed(s, t, g, c) /\ result = runDeclaredGate(c)
      BY <1>1, <1>5, <2>2
    <3>2. Ran(t, g) /\ CallOf(t, g) = i /\ g < t.next
      BY <1>2, <1>3, <1>5, <1>8, <1>11, <3>1
    <3> QED
      BY <1>2, <3>2
  <2> QED
    BY <2>1, <2>2
<1>f. ASSUME NEW f \in t.failures
      PROVE  \/ f = "publication"
             \/ \E h \in policy.blocking : h < t.next /\ t.results[h].outcome = "skipped"
             \/ \E h \in Gates :
                  /\ h < t.next /\ Ran(t, h) /\ f \in GateFailure(calls[CallOf(t, h)])
                  /\ h \in policy.blocking \/ f = "unconfirmed"
  <2>1. CASE f \in s.failures
    <3>1. \/ f = "publication"
          \/ \E h \in policy.blocking : h < s.next /\ s.results[h].outcome = "skipped"
          \/ \E h \in Gates :
               /\ h < s.next /\ Ran(s, h) /\ f \in GateFailure(s.calls[CallOf(s, h)])
               /\ h \in policy.blocking \/ f = "unconfirmed"
      BY <1>2, <1>3, <1>4, <2>1 DEF Coherent, Recorded
    <3>2. ASSUME NEW h \in policy.blocking, h < s.next, s.results[h].outcome = "skipped"
          PROVE  h < t.next /\ t.results[h].outcome = "skipped"
      BY <1>2, <1>5, <3>2
    <3>3. ASSUME NEW h \in Gates, h < s.next, Ran(s, h),
                 f \in GateFailure(s.calls[CallOf(s, h)])
          PROVE  h < t.next /\ Ran(t, h) /\ f \in GateFailure(calls[CallOf(t, h)])
      BY <1>2, <1>4, <1>6, <1>a, <3>3
    <3> QED
      BY <3>1, <3>2, <3>3
  <2>2. CASE f \in failures /\ Skipped(s, t, g) /\ result = Result("skipped", "pending")
                /\ g \in policy.blocking
    <3>1. g < t.next
      BY <1>2, <1>3
    <3> QED
      BY <2>2, <3>1, <1>2, <1>5
  <2>3. CASE /\ f \in failures /\ Executed(s, t, g, c) /\ result = runDeclaredGate(c)
             /\ failures = IF g \in policy.blocking \/ c = "unconfirmed"
                             THEN GateFailure(c) ELSE {}
    <3>1. Ran(t, g) /\ calls[CallOf(t, g)] = c /\ g < t.next
      BY <1>2, <1>3, <1>11, <1>b, <2>3
    <3>2. f \in GateFailure(c) /\ (g \in policy.blocking \/ c = "unconfirmed")
      BY <2>3
    <3>3. c = "unconfirmed" => f = "unconfirmed"
      BY <3>2, CommandFacts
    <3> QED
      BY <1>2, <3>1, <3>2, <3>3
  <2>4. f \in failures => \/ Skipped(s, t, g) /\ result = Result("skipped", "pending")
                             /\ g \in policy.blocking
                          \/ /\ Executed(s, t, g, c) /\ result = runDeclaredGate(c)
                             /\ failures = IF g \in policy.blocking \/ c = "unconfirmed"
                                             THEN GateFailure(c) ELSE {}
    BY <1>1
  <2> QED
    BY <2>1, <2>2, <2>3, <2>4, <1>3
<1>g. ASSUME NEW h \in Gates, h < t.next, Ran(t, h)
      PROVE  /\ CallOf(t, h) \in DOMAIN calls
             /\ t.results[h] = runDeclaredGate(calls[CallOf(t, h)])
  <2>1. h < g \/ h = g
    BY <1>g, <1>2, <1>3 DEF Gates
  <2> QED
    BY <2>1, <1>g, <1>a, <1>b
<1>h. Len(calls) = CallOf(t, t.next - 1)
  <2>1. t.next - 1 = g
    BY <1>2, <1>3
  <2> QED
    BY <2>1, <1>c
<1> QED
  BY <1>3, <1>d, <1>e, <1>f, <1>g, <1>h DEF Recorded

-----------------------------------------------------------------------------
(* Every suite in progress keeps its word *)

\* The steps of a suite, as what they do to its record.
SuiteStep(s, t) ==
  \/ /\ s.calls = <<>> /\ \A g \in Gates : s.results[g] = NotRun
     /\ t = [s EXCEPT !.next = NGates + 1, !.saved = "stored",
                      !.failures = {"unavailable"}]
  \/ s.next = 0 /\ t = [s EXCEPT !.next = 1, !.calls = <<"pass">>]
  \/ /\ s.next = 0
     /\ \E c \in Commands \ {"pass"} :
          \E f \in {SetupFailure(c), SetupFailure(c) \cup {"publication"}} : \E results :
             /\ results = [g \in Gates |-> IF g \in s.plan
                             THEN Result("setup_failed", "error") ELSE NotRun]
             /\ t = [s EXCEPT !.next = NGates + 1, !.calls = <<c>>,
                              !.results = results, !.failures = f]
  \/ /\ s.next > 0
     /\ \E g \in Due(s), c \in Commands :
          /\ \A h \in Due(s) : g <= h
          /\ Halted(s, t, g) \/ Skipped(s, t, g) \/ Executed(s, t, g, c)
  \/ Finished(s) /\ \E saved : t = [s EXCEPT !.saved = saved]

LEMMA StepIsCoherent ==
  ASSUME TypeOK, NEW s \in Suites, Coherent(s), NEW t \in Suites, SuiteStep(s, t)
  PROVE  Coherent(t)
<1>1. ASSUME s.next > 0, NEW g \in Due(s), NEW c \in Commands,
             \A h \in Due(s) : g <= h,
             Halted(s, t, g) \/ Skipped(s, t, g) \/ Executed(s, t, g, c)
      PROVE  Coherent(t)
  BY <1>1, TakenIsExplained, TakenIsRecorded DEF Coherent
<1>2. ASSUME s.next = 0, NEW c \in Commands \ {"pass"},
             NEW f \in {SetupFailure(c), SetupFailure(c) \cup {"publication"}},
             NEW results,
             results = [g \in Gates |-> IF g \in s.plan
                          THEN Result("setup_failed", "error") ELSE NotRun],
             t = [s EXCEPT !.next = NGates + 1, !.calls = <<c>>,
                           !.results = results, !.failures = f]
      PROVE  Coherent(t)
  BY <1>2, SetupFailureIsCoherent
<1>3. ASSUME s.calls = <<>>, \A g \in Gates : s.results[g] = NotRun,
             t = [s EXCEPT !.next = NGates + 1, !.saved = "stored",
                           !.failures = {"unavailable"}]
      PROVE  Coherent(t)
  BY <1>3, UnavailableIsCoherent
<1>4. ASSUME s.next = 0, t = [s EXCEPT !.next = 1, !.calls = <<"pass">>]
      PROVE  Coherent(t)
  BY <1>4, SetupIsCoherent
<1>5. ASSUME Finished(s), NEW saved, t = [s EXCEPT !.saved = saved]
      PROVE  Coherent(t)
  BY <1>5, SavedIsCoherent
<1> QED
  BY <1>1, <1>2, <1>3, <1>4, <1>5 DEF SuiteStep

\* What stays when a suite that a step does not touch is looked at again.
LEMMA Untouched ==
  ASSUME NEW s, Coherent(s), policy' = policy
  PROVE  Coherent(s)'
  BY DEF Coherent, TakenInOrder, Explained, Recorded, Begun, Due, Ran, CallOf,
     RanUpTo, SetupFailed, HasSetupFailure

LEMMA StillPrepared ==
  ASSUME NEW s, Prepared(s), Earned(s), setups \subseteq setups', passes \subseteq passes'
  PROVE  Prepared(s)' /\ Earned(s)'
  BY DEF Prepared, Earned

\* A step of a suite changes its own record, keeps what it was about, and adds
\* to the history what it says was done.
LEMMA StepOfSuite ==
  ASSUME TypeOK, TypeOK', NEW r \in Runners, suites[r] \in Suites, SuiteOK(suites[r]),
         SuiteUnavailable(r) \/ RunSetup(r) \/ RunNextGate(r) \/ persistGateSuite(r)
  PROVE  \E t \in Suites :
           /\ suites' = [suites EXCEPT ![r] = t] /\ SuiteStep(suites[r], t)
           /\ t.purpose = suites[r].purpose /\ t.plan = suites[r].plan
           /\ t.rev = suites[r].rev /\ t.phase = suites[r].phase
           /\ Prepared(t)' /\ Earned(t)'
           /\ setups \subseteq setups' /\ passes \subseteq passes'
           /\ UNCHANGED <<policy, run, ck>>
<1> DEFINE s == suites[r]
<1>1. PICK t : t = suites'[r]
  OBVIOUS
<1>s. /\ s \in Suites /\ s.results \in [Gates -> Results] /\ s.calls \in Seq(Commands)
      /\ s.plan \subseteq Gates /\ s.next \in 0..NGates + 1
      /\ Prepared(s) /\ Earned(s) /\ Coherent(s) /\ NGates \in Nat
  BY GateAssumption DEF Suites, SuiteOK
<1>t. suites'[r] \in Suites \cup {NoSuite} /\ suites \in [Runners -> Suites \cup {NoSuite}]
  BY DEF TypeOK
<1>c. ASSUME suites' = [suites EXCEPT ![r] = t], SuiteStep(s, t), t # NoSuite,
             t.purpose = s.purpose /\ t.plan = s.plan /\ t.rev = s.rev /\ t.phase = s.phase,
             Prepared(t)', Earned(t)', setups \subseteq setups', passes \subseteq passes',
             UNCHANGED <<policy, run, ck>>
      PROVE  \E u \in Suites :
           /\ suites' = [suites EXCEPT ![r] = u] /\ SuiteStep(s, u)
           /\ u.purpose = s.purpose /\ u.plan = s.plan
           /\ u.rev = s.rev /\ u.phase = s.phase
           /\ Prepared(u)' /\ Earned(u)'
           /\ setups \subseteq setups' /\ passes \subseteq passes'
           /\ UNCHANGED <<policy, run, ck>>
  BY <1>c, <1>t, <1>1
<1>n. s # NoSuite /\ s.phase \in Phases /\ "none" \notin Phases
  BY <1>s, SuiteIsReal DEF Suites, Phases
<1>m. t.phase = s.phase => t # NoSuite
  BY <1>n DEF NoSuite
<1>2. CASE SuiteUnavailable(r)
  <2>1. /\ s.calls = <<>> /\ \A g \in Gates : s.results[g] = NotRun
        /\ suites' = [suites EXCEPT ![r] = t]
        /\ t = [s EXCEPT !.next = NGates + 1, !.saved = "stored",
                         !.failures = {"unavailable"}]
        /\ UNCHANGED <<policy, run, ck, setups, passes>>
    BY <1>1, <1>2, <1>t DEF SuiteUnavailable
  <2>2. /\ t.purpose = s.purpose /\ t.plan = s.plan /\ t.rev = s.rev
        /\ t.phase = s.phase /\ t.ck = s.ck /\ t.results = s.results
        /\ t.skip = s.skip /\ t.next = NGates + 1
    BY <2>1, <1>s DEF Suites
  <2>3. Prepared(t)' /\ Earned(t)'
    BY <2>1, <2>2, <1>s DEF Prepared, Earned
  <2>4. SuiteStep(s, t)
    BY <2>1 DEF SuiteStep
  <2> QED
    BY <1>c, <1>m, <2>1, <2>2, <2>3, <2>4
<1>3. CASE RunSetup(r)
  <2>0. s.next = 0 /\ UNCHANGED <<policy, run, ck, passes>>
    BY <1>3 DEF RunSetup
  <2>a. ~s.skip /\ \A g \in Gates : s.results[g] = NotRun
    BY <2>0, <1>s DEF Coherent, Begun
  <2>1. CASE /\ suites' = [suites EXCEPT ![r].next = 1, ![r].calls = <<"pass">>]
             /\ setups' = setups \cup {<<s.phase, s.ck>>}
    <3>1. /\ suites' = [suites EXCEPT ![r] = t]
          /\ t = [s EXCEPT !.next = 1, !.calls = <<"pass">>]
      BY <2>1, <1>1, <1>t
    <3>2. /\ t.purpose = s.purpose /\ t.plan = s.plan /\ t.rev = s.rev
          /\ t.phase = s.phase /\ t.ck = s.ck /\ t.results = s.results
      BY <3>1, <1>s DEF Suites
    <3>3. Prepared(t)' /\ Earned(t)'
      BY <2>0, <2>1, <3>2, <1>s DEF Prepared, Earned
    <3>4. SuiteStep(s, t)
      BY <2>0, <3>1 DEF SuiteStep
    <3>5. setups \subseteq setups' /\ passes \subseteq passes'
      BY <2>0, <2>1
    <3> QED
      BY <1>c, <1>m, <2>0, <3>1, <3>2, <3>3, <3>4, <3>5
  <2>2. ASSUME NEW c \in Commands \ {"pass"}, NEW published \in SUBSET s.plan,
               NEW results,
               results = [g \in Gates |-> IF g \in s.plan
                            THEN Result("setup_failed", "error") ELSE NotRun],
               suites' = [suites EXCEPT ![r].next = NGates + 1,
                     ![r].calls = <<c>>, ![r].results = results,
                     ![r].failures = SetupFailure(c) \cup
                        (IF published = s.plan THEN {} ELSE {"publication"})],
               setups' = setups
        PROVE  \E u \in Suites :
           /\ suites' = [suites EXCEPT ![r] = u] /\ SuiteStep(s, u)
           /\ u.purpose = s.purpose /\ u.plan = s.plan
           /\ u.rev = s.rev /\ u.phase = s.phase
           /\ Prepared(u)' /\ Earned(u)'
           /\ setups \subseteq setups' /\ passes \subseteq passes'
           /\ UNCHANGED <<policy, run, ck>>
    <3>1. PICK f \in {SetupFailure(c), SetupFailure(c) \cup {"publication"}} :
              f = SetupFailure(c) \cup
                        (IF published = s.plan THEN {} ELSE {"publication"})
      OBVIOUS
    <3>2. /\ suites' = [suites EXCEPT ![r] = t]
          /\ t = [s EXCEPT !.next = NGates + 1, !.calls = <<c>>,
                           !.results = results, !.failures = f]
      BY <2>2, <3>1, <1>1, <1>t
    <3>3. /\ t.purpose = s.purpose /\ t.plan = s.plan /\ t.rev = s.rev
          /\ t.phase = s.phase /\ t.ck = s.ck /\ t.results = results
          /\ t.skip = s.skip /\ t.next = NGates + 1
      BY <3>2, <1>s DEF Suites
    <3>4. \A g \in Gates : /\ results[g].outcome # "passed"
                           /\ results[g] = NotRun \/ results[g].outcome = "setup_failed"
      BY <2>2 DEF Result, NotRun
    <3>5. Prepared(t)' /\ Earned(t)'
      BY <2>a, <3>3, <3>4, <1>s DEF Prepared, Earned
    <3>6. SuiteStep(s, t)
      BY <2>0, <2>2, <3>2 DEF SuiteStep
    <3> QED
      BY <1>c, <1>m, <2>0, <2>2, <3>2, <3>3, <3>5, <3>6
  <2> QED
    BY <1>3, <2>1, <2>2 DEF RunSetup
<1>4. CASE RunNextGate(r)
  <2>1. PICK g \in Due(s) : /\ \A h \in Due(s) : g <= h
                            /\ HaltedGate(r, g) \/ SkippedGate(r, g) \/ ExecutedGate(r, g)
    BY <1>4 DEF RunNextGate
  <2>2. s.next > 0 /\ UNCHANGED <<policy, run, ck, setups>>
    BY <1>4 DEF RunNextGate
  <2>3. g \in Gates /\ s.next \in 1..NGates
    BY <2>1, <2>2, <1>s DEF Due, Gates
  <2>4. ASSUME NEW result, NEW failures, NEW failed, NEW halted, NEW calls,
               NEW published \in BOOLEAN,
               recordGate(r, g, result, failures, failed, halted, calls, published)
        PROVE  /\ suites' = [suites EXCEPT ![r] = t]
               /\ Taken(s, t, g, result, failures, failed, halted, calls)
               /\ t.purpose = s.purpose /\ t.plan = s.plan /\ t.rev = s.rev
               /\ t.phase = s.phase /\ t.ck = s.ck /\ t.skip = s.skip
    <3>1. PICK results, f, d :
             /\ results = [s.results EXCEPT ![g] = result]
             /\ f = s.failures \cup failures \cup
                      (IF published THEN {} ELSE {"publication"})
             /\ d = (IF failed THEN s.failed \cup {g} ELSE s.failed)
      OBVIOUS
    <3>2. /\ suites' = [suites EXCEPT ![r] = t]
          /\ t = [s EXCEPT !.next = g + 1, !.results = results, !.calls = calls,
                           !.failures = f, !.failed = d, !.halted = halted]
      BY <2>4, <3>1, <1>1, <1>t DEF recordGate
    <3>3. /\ t.next = g + 1 /\ t.results = results /\ t.calls = calls
          /\ t.failures = f /\ t.failed = d /\ t.halted = halted
          /\ t.purpose = s.purpose /\ t.plan = s.plan /\ t.rev = s.rev
          /\ t.phase = s.phase /\ t.ck = s.ck /\ t.skip = s.skip /\ t.saved = s.saved
      BY <3>2, <1>s DEF Suites
    <3>4. f \in {s.failures \cup failures, s.failures \cup failures \cup {"publication"}}
      BY <3>1
    <3> QED
      BY <3>1, <3>2, <3>3, <3>4 DEF Taken
  <2>5. PICK c \in Commands : \E result :
          /\ suites' = [suites EXCEPT ![r] = t]
          /\ Halted(s, t, g) \/ Skipped(s, t, g) \/ Executed(s, t, g, c)
          /\ t.purpose = s.purpose /\ t.plan = s.plan /\ t.rev = s.rev
          /\ t.phase = s.phase /\ t.ck = s.ck /\ t.skip = s.skip
          /\ t.results = [s.results EXCEPT ![g] = result]
          /\ result.outcome = "passed" => <<s.phase, s.ck, g>> \in passes'
          /\ passes \subseteq passes'
    <3>1. CASE HaltedGate(r, g)
      <4>1. PICK c \in Commands : c = "fail"
        BY DEF Commands
      <4>2. PICK published \in BOOLEAN :
               recordGate(r, g, Result("skipped", "pending"), {}, FALSE, TRUE,
                          s.calls, published)
        BY <3>1 DEF HaltedGate
      <4>3. passes' = passes /\ s.halted
        BY <3>1 DEF HaltedGate
      <4>4. /\ suites' = [suites EXCEPT ![r] = t] /\ Halted(s, t, g)
            /\ t.purpose = s.purpose /\ t.plan = s.plan /\ t.rev = s.rev
            /\ t.phase = s.phase /\ t.ck = s.ck /\ t.skip = s.skip
        BY <4>2, <4>3, <2>4 DEF Halted
      <4>5. /\ t.results = [s.results EXCEPT ![g] = Result("skipped", "pending")]
            /\ Result("skipped", "pending").outcome # "passed"
        BY <4>4 DEF Halted, Taken, Result
      <4> QED
        BY <4>1, <4>3, <4>4, <4>5
    <3>2. CASE SkippedGate(r, g)
      <4>1. PICK c \in Commands : c = "fail"
        BY DEF Commands
      <4>2. PICK published \in BOOLEAN :
               recordGate(r, g, Result("skipped", "pending"),
                          IF g \in policy.blocking THEN {"dependency"} ELSE {},
                          TRUE, FALSE, s.calls, published)
        BY <3>2 DEF SkippedGate
      <4>3. passes' = passes /\ ~s.halted /\ policy.needs[g] \cap s.failed # {}
        BY <3>2 DEF SkippedGate
      <4>4. /\ suites' = [suites EXCEPT ![r] = t] /\ Skipped(s, t, g)
            /\ t.purpose = s.purpose /\ t.plan = s.plan /\ t.rev = s.rev
            /\ t.phase = s.phase /\ t.ck = s.ck /\ t.skip = s.skip
        BY <4>2, <4>3, <2>4 DEF Skipped
      <4>5. /\ t.results = [s.results EXCEPT ![g] = Result("skipped", "pending")]
            /\ Result("skipped", "pending").outcome # "passed"
        BY <4>4 DEF Skipped, Taken, Result
      <4> QED
        BY <4>1, <4>3, <4>4, <4>5
    <3>3. CASE ExecutedGate(r, g)
      <4>1. PICK c \in Commands, published \in BOOLEAN :
               /\ recordGate(r, g, runDeclaredGate(c),
                    IF g \in policy.blocking \/ terminationUnconfirmed(GateFailure(c))
                      THEN GateFailure(c) ELSE {},
                    GateFailure(c) # {}, terminationUnconfirmed(GateFailure(c)),
                    Append(s.calls, c), published)
               /\ passes' = IF c = "pass"
                            THEN passes \cup {<<s.phase, s.ck, g>>} ELSE passes
               /\ ~s.halted
        BY <3>3 DEF ExecutedGate
      <4>2. /\ terminationUnconfirmed(GateFailure(c)) = (c = "unconfirmed")
            /\ (GateFailure(c) # {}) = (c # "pass")
        BY CommandFacts DEF terminationUnconfirmed
      <4>3. recordGate(r, g, runDeclaredGate(c),
              IF g \in policy.blocking \/ c = "unconfirmed" THEN GateFailure(c) ELSE {},
              c # "pass", c = "unconfirmed", Append(s.calls, c), published)
        BY <4>1, <4>2
      <4>4. /\ suites' = [suites EXCEPT ![r] = t] /\ Executed(s, t, g, c)
            /\ t.purpose = s.purpose /\ t.plan = s.plan /\ t.rev = s.rev
            /\ t.phase = s.phase /\ t.ck = s.ck /\ t.skip = s.skip
        BY <4>1, <4>3, <2>4 DEF Executed
      <4>5. /\ t.results = [s.results EXCEPT ![g] = runDeclaredGate(c)]
            /\ runDeclaredGate(c).outcome = "passed" => c = "pass"
        BY <4>4, CommandFacts DEF Executed, Taken
      <4> QED
        BY <4>1, <4>4, <4>5
    <3> QED
      BY <2>1, <3>1, <3>2, <3>3
  <2>p. PICK result :
          /\ t.results = [s.results EXCEPT ![g] = result]
          /\ result.outcome = "passed" => <<s.phase, s.ck, g>> \in passes'
    BY <2>5
  <2>6. Prepared(t)'
    BY <2>2, <2>3, <2>5, <1>s DEF Prepared
  <2>7. Earned(t)'
    BY <2>3, <2>5, <2>p, <1>s DEF Earned
  <2>8. SuiteStep(s, t)
    BY <2>1, <2>2, <2>5 DEF SuiteStep
  <2> QED
    BY <1>c, <1>m, <2>2, <2>5, <2>6, <2>7, <2>8
<1>5. CASE persistGateSuite(r)
  <2>1. PICK saved : /\ suites' = [suites EXCEPT ![r] = t]
                     /\ t = [s EXCEPT !.saved = saved]
    BY <1>5, <1>1, <1>t DEF persistGateSuite
  <2>2. /\ t.purpose = s.purpose /\ t.plan = s.plan /\ t.rev = s.rev
        /\ t.phase = s.phase /\ t.ck = s.ck /\ t.results = s.results
        /\ t.skip = s.skip /\ t.next = s.next
    BY <2>1, <1>s DEF Suites
  <2>3. UNCHANGED <<policy, run, ck, setups, passes>> /\ Finished(s)
    BY <1>5 DEF persistGateSuite
  <2>4. Prepared(t)' /\ Earned(t)'
    BY <2>2, <2>3, <1>s DEF Prepared, Earned
  <2>5. SuiteStep(s, t)
    BY <2>1, <2>3 DEF SuiteStep
  <2> QED
    BY <1>c, <1>m, <2>1, <2>2, <2>3, <2>4, <2>5
<1> QED
  BY <1>2, <1>3, <1>4, <1>5

-----------------------------------------------------------------------------
(* The invariant *)

LEMMA GateStarts == Init => GateInv
<1> SUFFICES ASSUME Init PROVE GateInv
  OBVIOUS
<1>1. TypeOK /\ Live = {}
  BY TypeStarts DEF Init, Live
<1>2. RowsEarned /\ ReadyIsEarned
  BY DEF Init, RowsEarned, ReadyIsEarned, NotRun
<1> QED
  BY <1>1, <1>2 DEF GateInv

\* A suite that begins starts from the run and the rows as they are.
LEMMA FreshIsOK ==
  ASSUME GateInv, TypeOK', NEW r \in Runners, NEW purpose \in {"run", "gate"},
         NEW phase \in Phases, NEW plan \in SUBSET Gates,
         Begin(r, purpose, phase, plan),
         purpose = "run" => plan = Gates
           /\ run.stage = (IF phase = "baseline" THEN "claim" ELSE "check")
  PROVE  \E t : suites' = [suites EXCEPT ![r] = t] /\ SuiteOK(t)'
<1>1. PICK skip \in BOOLEAN : skip = setupAlreadySucceeded(phase)
  BY DEF setupAlreadySucceeded, GateInv, TypeOK
<1>2. PICK t : t = Fresh(purpose, phase, plan, skip)
  OBVIOUS
<1>3. /\ suites' = [suites EXCEPT ![r] = t] /\ UNCHANGED <<policy, run, setups, passes>>
  BY <1>1, <1>2 DEF Begin
<1>4. /\ t.phase = phase /\ t.purpose = purpose /\ t.ck = ck /\ t.rev = run.rev
      /\ t.plan = plan /\ t.skip = skip /\ t.next = (IF skip THEN 1 ELSE 0)
      /\ t.results = [g \in Gates |-> NotRun]
  BY <1>2 DEF Fresh
<1>5. Coherent(t)'
  BY <1>2, <1>3, FreshIsCoherent, Untouched DEF GateInv
<1>6. skip => <<phase, ck>> \in setups
  <2> SUFFICES ASSUME skip PROVE <<phase, ck>> \in setups
    OBVIOUS
  <2>1. PICK g \in Gates : /\ rows[phase][ck][g] # NotRun
                           /\ rows[phase][ck][g].outcome # "setup_failed"
    BY <1>1 DEF setupAlreadySucceeded, Stored
  <2>2. ck \in 1..MaxCheckpoints
    BY DEF GateInv, TypeOK
  <2> QED
    BY <2>1, <2>2 DEF GateInv, RowsEarned
<1>7. Prepared(t)'
  <2>1. t.next \in 1..NGates => skip
    BY <1>4
  <2> QED
    BY <1>3, <1>4, <1>6, <2>1 DEF Prepared
<1>8. Earned(t)'
  BY <1>4 DEF Earned, NotRun
<1>9. Belongs(t)'
  <2>1. run.rev \in Nat
    BY DEF GateInv, TypeOK
  <2> QED
    BY <1>3, <1>4, <2>1 DEF Belongs
<1> QED
  BY <1>3, <1>5, <1>7, <1>8, <1>9 DEF SuiteOK

\* The suites a step leaves alone keep their word.
LEMMA OthersAreOK ==
  ASSUME GateInv, NEW s \in Live, policy' = policy, setups \subseteq setups',
         passes \subseteq passes', run' = run \/ run'.rev = run.rev + 1
  PROVE  SuiteOK(s)'
<1>1. SuiteOK(s) /\ s \in Suites /\ run.rev \in Nat
  BY DEF GateInv, TypeOK, Live
<1>2. Coherent(s)' /\ Prepared(s)' /\ Earned(s)'
  BY <1>1, Untouched, StillPrepared DEF SuiteOK
<1>3. Belongs(s)'
  <2>1. s.rev \in Nat
    BY <1>1 DEF Suites
  <2> QED
    BY <1>1, <2>1 DEF SuiteOK, Belongs
<1> QED
  BY <1>2, <1>3 DEF SuiteOK

\* Rows are written only by suites, from their own results.
LEMMA RowsStayEarned ==
  ASSUME GateInv, TypeOK', setups \subseteq setups', passes \subseteq passes',
         rows' = rows \/ \E s \in Live : saveGateResults(s)
  PROVE  RowsEarned'
<1>1. CASE rows' = rows
  BY <1>1 DEF GateInv, RowsEarned
<1>2. ASSUME NEW s \in Live, saveGateResults(s) PROVE RowsEarned'
  <2>1. SuiteOK(s) /\ s \in Suites
    BY DEF GateInv, TypeOK, Live
  <2>2. s.phase \in Phases /\ s.ck \in 1..MaxCheckpoints
    BY <2>1 DEF Suites
  <2>3. ASSUME NEW p \in Phases, NEW c \in 1..MaxCheckpoints, NEW g \in Gates
        PROVE  \/ rows'[p][c][g] = rows[p][c][g]
               \/ p = s.phase /\ c = s.ck /\ rows'[p][c][g] = s.results[g]
    <3>1. PICK row : row = [h \in Gates |-> IF h \in s.plan THEN s.results[h]
                                           ELSE rows[s.phase][s.ck][h]]
      OBVIOUS
    <3>2. rows' = [rows EXCEPT ![s.phase][s.ck] = row]
      BY <1>2, <2>2, <3>1 DEF saveGateResults, GateInv, TypeOK
    <3> QED
      BY <2>2, <3>1, <3>2 DEF GateInv, TypeOK
  <2>4. ASSUME NEW p \in Phases, NEW c \in 1..MaxCheckpoints, NEW g \in Gates
        PROVE  /\ rows'[p][c][g].outcome = "passed" => <<p, c, g>> \in passes'
               /\ rows'[p][c][g] # NotRun /\ rows'[p][c][g].outcome # "setup_failed"
                    => <<p, c>> \in setups'
    <3>1. CASE rows'[p][c][g] = rows[p][c][g]
      BY <3>1 DEF GateInv, RowsEarned
    <3>2. CASE p = s.phase /\ c = s.ck /\ rows'[p][c][g] = s.results[g]
      BY <3>2, <2>1 DEF SuiteOK, Prepared, Earned
    <3> QED
      BY <3>1, <3>2, <2>3
  <2> QED
    BY <2>4 DEF RowsEarned
<1> QED
  BY <1>1, <1>2

\* Only MarkReady makes the pull request ready, and then nothing moves.
LEMMA ReadyStaysEarned ==
  ASSUME GateInv, policy' = policy, setups \subseteq setups', passes \subseteq passes',
         \/ run'.stage # "ready"
         \/ run' = run /\ ck' = ck
         \/ MarkReady
  PROVE  ReadyIsEarned'
<1>1. CASE run'.stage # "ready"
  BY <1>1 DEF ReadyIsEarned
<1>2. CASE run' = run /\ ck' = ck
  BY <1>2 DEF GateInv, ReadyIsEarned
<1>3. CASE MarkReady
  <2>1. /\ ck' = ck /\ ck \in 1..MaxCheckpoints /\ "checkpoint" \in Phases
        /\ \A g \in Gates : ensureFinalGateOutcomeAccepted(
                              rows["checkpoint"][ck][g], g \in policy.blocking)
    BY <1>3 DEF MarkReady, Step, ensureFinalCheckpointGatesAccepted, Stored,
       GateInv, TypeOK, Phases
  <2>2. \A g \in Gates :
          /\ rows["checkpoint"][ck][g].outcome \in {"passed", "failed"}
          /\ g \in policy.blocking => rows["checkpoint"][ck][g].outcome = "passed"
    BY <2>1 DEF ensureFinalGateOutcomeAccepted, Result
  <2>3. PICK g \in Gates : g = 1
    BY GateAssumption DEF Gates
  <2>4. <<"checkpoint", ck>> \in setups
    <3>1. /\ rows["checkpoint"][ck][g].outcome # NotRun.outcome
          /\ rows["checkpoint"][ck][g].outcome # "setup_failed"
      BY <2>2, <2>3 DEF NotRun
    <3>2. rows["checkpoint"][ck][g] # NotRun
      BY <3>1
    <3> QED
      BY <2>1, <3>1, <3>2 DEF GateInv, RowsEarned
  <2>5. policy.blocking \subseteq Gates
    BY PolicyFacts DEF GateInv, TypeOK
  <2>6. \A h \in policy.blocking : <<"checkpoint", ck, h>> \in passes
    BY <2>1, <2>2, <2>5 DEF GateInv, RowsEarned
  <2> QED
    BY <2>1, <2>4, <2>6 DEF ReadyIsEarned
<1> QED
  BY <1>1, <1>2, <1>3

LEMMA GateKept == GateInv /\ [Next]_vars => GateInv'
<1> SUFFICES ASSUME GateInv, [Next]_vars PROVE GateInv'
  OBVIOUS
<1>0. TypeOK /\ TypeOK'
  BY TypeKept DEF GateInv
\* Putting a sound record in one place leaves only sound records.
<1>p. ASSUME NEW r \in Runners, NEW t, suites' = [suites EXCEPT ![r] = t],
             t # NoSuite => SuiteOK(t)', \A s \in Live : SuiteOK(s)'
      PROVE  \A s \in Live' : SuiteOK(s)'
  <2>1. \A s \in Live' : s \in Live \/ (s = t /\ t # NoSuite)
    BY <1>p, <1>0 DEF Live, TypeOK
  <2> QED
    BY <2>1, <1>p
<1>1. ASSUME NEW r \in Runners, NEW purpose \in {"run", "gate"},
             NEW phase \in Phases, NEW plan \in SUBSET Gates,
             Begin(r, purpose, phase, plan),
             purpose = "run" => plan = Gates
               /\ run.stage = (IF phase = "baseline" THEN "claim" ELSE "check")
      PROVE  GateInv'
  <2>1. PICK t : suites' = [suites EXCEPT ![r] = t] /\ SuiteOK(t)'
    BY <1>0, <1>1, FreshIsOK
  <2>2. UNCHANGED <<policy, run, ck, rows, setups, passes>>
    BY <1>1 DEF Begin
  <2>3. \A s \in Live : SuiteOK(s)'
    BY <2>2, OthersAreOK
  <2>4. \A s \in Live' : SuiteOK(s)'
    BY <2>1, <2>3, <1>p
  <2> QED
    BY <1>0, <2>2, <2>4, RowsStayEarned, ReadyStaysEarned DEF GateInv
<1>2. ASSUME NEW r \in Runners, RunBaseline(r) \/ runConfiguredGates(r)
      PROVE  GateInv'
  BY <1>1, <1>2 DEF RunBaseline, runConfiguredGates, Phases
<1>3. ASSUME NEW r \in Runners, NEW g \in Gates, RunGate(r, g) PROVE GateInv'
  <2>1. gateDependencyPlan(g) \in SUBSET Gates
    BY <1>0, PlanOfGates DEF TypeOK
  <2> QED
    BY <1>1, <1>3, <2>1 DEF RunGate, Phases
<1>4. ASSUME NEW r \in Runners,
             \/ SuiteUnavailable(r) \/ RunSetup(r) \/ RunNextGate(r)
             \/ persistGateSuite(r)
      PROVE  GateInv'
  <2>1. suites[r] # NoSuite
    BY <1>4 DEF SuiteUnavailable, RunSetup, RunNextGate, persistGateSuite, Finished
  <2>2. suites[r] \in Suites /\ suites[r] \in Live /\ SuiteOK(suites[r])
    BY <2>1 DEF GateInv, TypeOK, Live
  <2>3. PICK t \in Suites :
          /\ suites' = [suites EXCEPT ![r] = t] /\ SuiteStep(suites[r], t)
          /\ t.purpose = suites[r].purpose /\ t.plan = suites[r].plan
          /\ t.rev = suites[r].rev /\ t.phase = suites[r].phase
          /\ Prepared(t)' /\ Earned(t)'
          /\ setups \subseteq setups' /\ passes \subseteq passes'
          /\ UNCHANGED <<policy, run, ck>>
    BY <1>0, <1>4, <2>2, StepOfSuite
  <2>4. Coherent(t)
    BY <1>0, <2>2, <2>3, StepIsCoherent DEF SuiteOK
  <2>5. Coherent(t)'
    BY <2>3, <2>4, Untouched
  <2>6. Belongs(t)'
    BY <2>2, <2>3 DEF SuiteOK, Belongs
  <2>7. SuiteOK(t)'
    BY <2>3, <2>5, <2>6 DEF SuiteOK
  <2>8. \A s \in Live : SuiteOK(s)'
    BY <2>3, OthersAreOK
  <2>9. \A s \in Live' : SuiteOK(s)'
    BY <2>3, <2>7, <2>8, <1>p
  <2>10. rows' = rows \/ \E s \in Live : saveGateResults(s)
    BY <1>4, <2>2 DEF SuiteUnavailable, RunSetup, RunNextGate, persistGateSuite
  <2>11. RowsEarned'
    BY <1>0, <2>3, <2>10, RowsStayEarned
  <2>12. ReadyIsEarned'
    BY <2>3, ReadyStaysEarned
  <2> QED
    BY <1>0, <2>9, <2>11, <2>12 DEF GateInv
<1>5. ASSUME NEW r \in Runners,
             finishBaseline(r) \/ finishCheck(r) \/ finishGate(r) \/ Crash(r)
      PROVE  GateInv'
  <2>1. /\ suites' = [suites EXCEPT ![r] = NoSuite]
        /\ UNCHANGED <<policy, ck, rows, passes, setups>>
    BY <1>5 DEF finishBaseline, finishCheck, finishGate, Judged, Crash
  <2>2. \/ run' = run
        \/ run'.rev = run.rev + 1 /\ run'.stage # "ready"
    <3>1. ASSUME NEW stage \in Stages \ {"ready"}, MoveRun(r, stage)
          PROVE  run' = run \/ (run'.rev = run.rev + 1 /\ run'.stage # "ready")
      BY <3>1 DEF MoveRun
    <3>2. CASE finishBaseline(r)
      BY <3>1, <3>2 DEF finishBaseline, Stages
    <3>3. CASE finishCheck(r)
      BY <3>1, <3>3 DEF finishCheck, Stages
    <3> QED
      BY <1>5, <3>2, <3>3 DEF finishGate, Crash
  <2>3. \A s \in Live : SuiteOK(s)'
    BY <2>1, <2>2, OthersAreOK
  <2>4. \A s \in Live' : SuiteOK(s)'
    BY <2>1, <2>3, <1>p
  <2> QED
    BY <1>0, <2>1, <2>2, <2>4, RowsStayEarned, ReadyStaysEarned DEF GateInv
<1>6. CASE Implement \/ ResumeCheck \/ ReviewRepair \/ MarkReady
  <2>1. /\ UNCHANGED <<policy, suites, rows, passes, setups>>
        /\ run'.rev = run.rev + 1
        /\ run'.stage # "ready" \/ MarkReady
    BY <1>6 DEF Implement, ResumeCheck, ReviewRepair, MarkReady, Step
  <2>2. Live' = Live
    BY <2>1 DEF Live
  <2>3. \A s \in Live' : SuiteOK(s)'
    BY <2>1, <2>2, OthersAreOK
  <2> QED
    BY <1>0, <2>1, <2>3, RowsStayEarned, ReadyStaysEarned DEF GateInv
<1>7. CASE UNCHANGED vars
  <2>1. UNCHANGED <<policy, suites, rows, passes, setups, run, ck>>
    BY <1>7 DEF vars
  <2>2. Live' = Live
    BY <2>1 DEF Live
  <2>3. \A s \in Live' : SuiteOK(s)'
    BY <2>1, <2>2, OthersAreOK
  <2> QED
    BY <1>0, <2>1, <2>3, RowsStayEarned, ReadyStaysEarned DEF GateInv
<1> QED
  BY <1>2, <1>3, <1>4, <1>5, <1>6, <1>7 DEF Next, Runner

\* A pull request becomes ready only on commands that exited 0 at its very
\* checkpoint, in a prepared checkout: for every packet and every interleaving
\* of suites, reused setups, partial runs, lost writes and crashes.
THEOREM Readiness == Spec => []ReadyIsEarned
<1>1. GateInv => ReadyIsEarned
  BY DEF GateInv
<1> QED
  BY GateStarts, GateKept, <1>1, PTL DEF Spec

-----------------------------------------------------------------------------
(* The onboarding proof and final readiness *)

\* The two rules, command by command.
LEMMA OneCommand ==
  ASSUME NEW c \in Commands, NEW b \in BOOLEAN
  PROVE  /\ accepted(commandOutcome(c), b) =>
              /\ ensureFinalGateOutcomeAccepted(runDeclaredGate(c), b)
              /\ c # "unconfirmed"
              /\ b => GateFailure(c) = {}
         /\ ensureFinalGateOutcomeAccepted(runDeclaredGate(c), b) /\ c # "late_error"
              => accepted(commandOutcome(c), b)
         /\ ~accepted("skipped", b)
         /\ commandOutcome(c) = "passed" <=> c = "pass"
<1>1. Commands = {"pass", "fail", "timeout", "error", "late_error", "unconfirmed"}
  BY DEF Commands
<1>2. CASE c = "pass"
  BY <1>2 DEF accepted, commandOutcome, ensureFinalGateOutcomeAccepted,
     runDeclaredGate, Result, GateFailure, TimedOut
<1>3. CASE c = "fail"
  BY <1>3 DEF accepted, commandOutcome, ensureFinalGateOutcomeAccepted,
     runDeclaredGate, Result, GateFailure, TimedOut
<1>4. CASE c = "timeout" \/ c = "late_error"
  BY <1>4 DEF accepted, commandOutcome, ensureFinalGateOutcomeAccepted,
     runDeclaredGate, Result, GateFailure, TimedOut
<1>5. CASE c = "error" \/ c = "unconfirmed"
  BY <1>5 DEF accepted, commandOutcome, ensureFinalGateOutcomeAccepted,
     runDeclaredGate, Result, GateFailure, TimedOut
<1> QED
  BY <1>1, <1>2, <1>3, <1>4, <1>5

\* A suite that finished with everything published has a result for each gate.
LEMMA FinishedFacts ==
  ASSUME GateInv, NEW s \in Live, Due(s) = {}, s.plan = Gates,
         "unavailable" \notin s.failures
  PROVE  \A g \in Gates : g < s.next /\ s.results[g] # NotRun
<1>1. s \in Suites /\ SuiteOK(s) /\ s.next \in Int
  BY GateAssumption DEF GateInv, TypeOK, Live, Suites
<1>2. \A g \in Gates : g < s.next
  BY <1>1 DEF Due, Gates
<1> QED
  BY <1>1, <1>2 DEF SuiteOK, Coherent, TakenInOrder

\* What the proof reads for a gate is what its command ended with.
LEMMA Summarized ==
  ASSUME NEW s \in Suites, NEW g \in Gates, s.results[g].outcome # "setup_failed",
         Ran(s, g) => CallOf(s, g) \in DOMAIN s.calls
  PROVE  summarize(s, g) =
           IF Ran(s, g) THEN commandOutcome(s.calls[CallOf(s, g)]) ELSE "skipped"
<1>1. {h \in 1..g : s.results[h].outcome \notin {"skipped", "setup_failed"}} = RanUpTo(s, g)
  BY DEF RanUpTo, Ran
<1>2. Ran(s, g) => CallOf(s, g) <= Len(s.calls)
  BY DEF Suites
<1>3. CASE Ran(s, g)
  BY <1>1, <1>2, <1>3 DEF summarize, CallOf, Ran
<1>4. CASE ~Ran(s, g)
  <2>1. s.results[g].outcome = "skipped"
    BY <1>4 DEF Ran
  <2>2. summarize(s, g) = "skipped"
    BY <2>1 DEF summarize
  <2> QED
    BY <1>4, <2>2
<1> QED
  BY <1>3, <1>4

\* A proof that passes has a suite the run would pass and readiness accept, and
\* but for an output limit hit after the deadline also the other way round.
THEOREM ProofIsThePromise == Spec => []ProofPredictsReadiness
<1>1. GateInv => ProofPredictsReadiness
  <2> SUFFICES ASSUME GateInv, NEW r \in Runners, NEW s, s = suites[r],
                      Finished(s), s.plan = Gates, ~s.skip, s.calls # <<>>,
                      "publication" \notin s.failures
               PROVE  LET ready == \A g \in Gates : ensureFinalGateOutcomeAccepted(
                                     s.results[g], g \in policy.blocking)
                      IN  /\ verdict(s, policy.blocking) => ready /\ s.failures = {}
                          /\ ready /\ (\A i \in DOMAIN s.calls : s.calls[i] # "late_error")
                               => verdict(s, policy.blocking)
    BY DEF ProofPredictsReadiness
  <2> DEFINE ready == \A g \in Gates : ensureFinalGateOutcomeAccepted(
                        s.results[g], g \in policy.blocking)
  <2>1. s \in Suites /\ s \in Live /\ SuiteOK(s) /\ s.next > 0 /\ Due(s) = {}
    BY DEF GateInv, TypeOK, Live, Finished
  <2>2. /\ s.calls \in Seq(Commands) /\ s.results \in [Gates -> Results]
        /\ policy.blocking \subseteq Gates /\ 1 \in Gates
    BY <2>1, PolicyFacts, GateAssumption DEF Suites, GateInv, TypeOK, Gates
  <2>3. CASE HasSetupFailure(s.results)
    <3>1. PICK c \in Commands \ {"pass"} : s.calls = <<c>>
      BY <2>1, <2>3 DEF SuiteOK, Coherent, Explained, SetupFailed
    <3>2. s.results[1].outcome = "setup_failed"
      BY <2>1, <2>2, <2>3 DEF SuiteOK, Coherent, Explained, SetupFailed
    <3>3. ~verdict(s, policy.blocking)
      <4>1. s.calls[1] = c /\ c \in Commands /\ c # "pass"
        BY <3>1
      <4>2. commandOutcome(c) # "passed"
        BY <4>1, OneCommand
      <4>3. commandOutcome(s.calls[1]) # "passed"
        BY <4>1, <4>2
      <4> QED
        BY <4>3 DEF verdict
    <3>4. ~ready
      BY <3>2, <2>2 DEF ensureFinalGateOutcomeAccepted, Result
    <3> QED
      BY <3>3, <3>4
  <2>4. CASE ~HasSetupFailure(s.results)
    <3>1. "unavailable" \notin s.failures
      BY <2>1 DEF SuiteOK, Coherent, Begun
    <3>2. \A g \in Gates : g < s.next /\ s.results[g] # NotRun
      BY <2>1, <3>1, FinishedFacts
    <3>3. /\ s.calls[1] = "pass"
          /\ \A g \in Gates : Ran(s, g) =>
               /\ CallOf(s, g) \in DOMAIN s.calls
               /\ s.results[g] = runDeclaredGate(s.calls[CallOf(s, g)])
          /\ \A f \in s.failures :
               \/ \E g \in policy.blocking : s.results[g].outcome = "skipped"
               \/ \E g \in Gates :
                    /\ Ran(s, g) /\ f \in GateFailure(s.calls[CallOf(s, g)])
                    /\ g \in policy.blocking \/ f = "unconfirmed"
      BY <2>1, <2>4, <3>1, <3>2 DEF SuiteOK, Coherent, Recorded
    <3>4. \A g \in Gates : summarize(s, g) =
            IF Ran(s, g) THEN commandOutcome(s.calls[CallOf(s, g)]) ELSE "skipped"
      BY <2>1, <2>4, <3>3, Summarized DEF HasSetupFailure
    <3>5. \A g \in Gates : Ran(s, g) => s.calls[CallOf(s, g)] \in Commands
      BY <2>2, <3>3
    <3>6. verdict(s, policy.blocking) <=>
            \A g \in Gates : accepted(summarize(s, g), g \in policy.blocking)
      BY <3>3, OneCommand DEF verdict, Commands
    <3>7. ASSUME NEW g \in Gates, ~Ran(s, g)
          PROVE  /\ ~accepted(summarize(s, g), g \in policy.blocking)
                 /\ ~ensureFinalGateOutcomeAccepted(s.results[g], g \in policy.blocking)
      <4>1. s.results[g].outcome = "skipped"
        BY <3>7, <2>4 DEF Ran, HasSetupFailure
      <4> QED
        BY <4>1, <3>4, <3>7 DEF accepted, ensureFinalGateOutcomeAccepted, Result
    <3>8. ASSUME NEW g \in Gates, Ran(s, g), NEW c \in Commands, NEW b \in BOOLEAN,
                 c = s.calls[CallOf(s, g)], b = (g \in policy.blocking)
          PROVE  /\ summarize(s, g) = commandOutcome(c)
                 /\ s.results[g] = runDeclaredGate(c)
                 /\ accepted(summarize(s, g), g \in policy.blocking) =>
                      /\ ensureFinalGateOutcomeAccepted(s.results[g], g \in policy.blocking)
                      /\ c # "unconfirmed" /\ (b => GateFailure(c) = {})
                 /\ ensureFinalGateOutcomeAccepted(s.results[g], g \in policy.blocking)
                      /\ c # "late_error"
                      => accepted(summarize(s, g), g \in policy.blocking)
      <4>1. summarize(s, g) = commandOutcome(c)
        BY <3>4, <3>8
      <4>2. s.results[g] = runDeclaredGate(c)
        BY <3>3, <3>8
      <4>3. /\ accepted(commandOutcome(c), b) =>
                 /\ ensureFinalGateOutcomeAccepted(runDeclaredGate(c), b)
                 /\ c # "unconfirmed"
                 /\ b => GateFailure(c) = {}
            /\ ensureFinalGateOutcomeAccepted(runDeclaredGate(c), b) /\ c # "late_error"
                 => accepted(commandOutcome(c), b)
        BY OneCommand
      <4> QED
        BY <4>1, <4>2, <4>3, <3>8
    <3>9. ASSUME verdict(s, policy.blocking) PROVE ready
      <4> SUFFICES ASSUME NEW g \in Gates
                   PROVE  ensureFinalGateOutcomeAccepted(s.results[g], g \in policy.blocking)
        OBVIOUS
      <4>1. accepted(summarize(s, g), g \in policy.blocking)
        BY <3>6, <3>9
      <4>2. Ran(s, g)
        BY <3>7, <4>1
      <4>3. PICK c \in Commands : c = s.calls[CallOf(s, g)]
        BY <3>5, <4>2
      <4>4. PICK b \in BOOLEAN : b = (g \in policy.blocking)
        <5>1. CASE g \in policy.blocking
          <6>1. TRUE \in BOOLEAN /\ TRUE = (g \in policy.blocking)
            BY <5>1
          <6> QED
            BY <6>1
        <5>2. CASE g \notin policy.blocking
          <6>1. FALSE \in BOOLEAN /\ FALSE = (g \in policy.blocking)
            BY <5>2
          <6> QED
            BY <6>1
        <5> QED
          BY <5>1, <5>2
      <4> QED
        BY <3>8, <4>1, <4>2, <4>3, <4>4
    <3>10. ASSUME verdict(s, policy.blocking), NEW f \in s.failures PROVE FALSE
      <4>1. CASE \E g \in policy.blocking : s.results[g].outcome = "skipped"
        BY <4>1, <3>6, <3>7, <3>10, <2>2 DEF Ran
      <4>2. ASSUME NEW g \in Gates, Ran(s, g), f \in GateFailure(s.calls[CallOf(s, g)]),
                   g \in policy.blocking \/ f = "unconfirmed"
            PROVE  FALSE
        <5>1. PICK c \in Commands : c = s.calls[CallOf(s, g)]
          BY <3>5, <4>2
        <5>2. PICK b \in BOOLEAN : b = (g \in policy.blocking)
          <6>1. CASE g \in policy.blocking
            <7>1. TRUE \in BOOLEAN /\ TRUE = (g \in policy.blocking)
              BY <6>1
            <7> QED
              BY <7>1
          <6>2. CASE g \notin policy.blocking
            <7>1. FALSE \in BOOLEAN /\ FALSE = (g \in policy.blocking)
              BY <6>2
            <7> QED
              BY <7>1
          <6> QED
            BY <6>1, <6>2
        <5>3. accepted(summarize(s, g), g \in policy.blocking)
          BY <3>6, <3>10
        <5>4. c # "unconfirmed" /\ (b => GateFailure(c) = {})
          BY <3>8, <4>2, <5>1, <5>2, <5>3
        <5>5. f \in GateFailure(c)
          BY <4>2, <5>1
        <5>6. f # "unconfirmed"
          BY <5>4, <5>5 DEF GateFailure
        <5>7. g \in policy.blocking
          BY <4>2, <5>6
        <5>8. b
          BY <5>2, <5>7
        <5> QED
          BY <5>4, <5>5, <5>8
      <4> QED
        BY <3>3, <3>10, <4>1, <4>2
    <3>11. ASSUME ready, \A i \in DOMAIN s.calls : s.calls[i] # "late_error"
           PROVE  verdict(s, policy.blocking)
      <4> SUFFICES ASSUME NEW g \in Gates
                   PROVE  accepted(summarize(s, g), g \in policy.blocking)
        BY <3>6
      <4>1. ensureFinalGateOutcomeAccepted(s.results[g], g \in policy.blocking)
        BY <3>11
      <4>2. Ran(s, g)
        BY <3>7, <4>1
      <4>3. PICK c \in Commands : c = s.calls[CallOf(s, g)]
        BY <3>5, <4>2
      <4>4. PICK b \in BOOLEAN : b = (g \in policy.blocking)
        <5>1. CASE g \in policy.blocking
          <6>1. TRUE \in BOOLEAN /\ TRUE = (g \in policy.blocking)
            BY <5>1
          <6> QED
            BY <6>1
        <5>2. CASE g \notin policy.blocking
          <6>1. FALSE \in BOOLEAN /\ FALSE = (g \in policy.blocking)
            BY <5>2
          <6> QED
            BY <6>1
        <5> QED
          BY <5>1, <5>2
      <4>5. c # "late_error"
        BY <3>3, <3>11, <4>2, <4>3
      <4> QED
        BY <3>8, <4>1, <4>2, <4>3, <4>4, <4>5
    <3> QED
      BY <3>9, <3>10, <3>11
  <2> QED
    BY <2>3, <2>4
<1> QED
  BY GateStarts, GateKept, <1>1, PTL DEF Spec

-----------------------------------------------------------------------------
(* A suite decides about its run *)

\* The end of a suite of the run moves it on only on complete, published
\* evidence, and back to its agents only for failures they can repair.
THEOREM EvidenceDecides == Spec => SuiteDecidesOnEvidence
<1>1. GateInv /\ [Next]_vars => [MovesOnEvidence /\ RepairsCommands]_vars
  <2> SUFFICES ASSUME GateInv, Next PROVE MovesOnEvidence /\ RepairsCommands
    OBVIOUS
  <2>p. /\ policy.blocking \subseteq Gates
        /\ policy.needs \in [Gates -> SUBSET Gates] /\ 1 \in Gates
    BY PolicyFacts, GateAssumption DEF GateInv, TypeOK, Gates
  \* The suite of the run whose end moves the run, and what it shows.
  <2>1. ASSUME NEW r \in Runners, NEW phase \in Phases, Judged(r, "run", phase),
               run' # run, suites[r].rev = run.rev,
               "unavailable" \notin suites[r].failures
        PROVE  /\ suites[r] \in Suites /\ SuiteOK(suites[r]) /\ Ends(r)
               /\ suites[r].plan = Gates
               /\ \A g \in Gates : suites[r].results[g] # NotRun
               /\ run.stage = (IF phase = "baseline" THEN "claim" ELSE "check")
    <3>1. suites[r] \in Suites /\ suites[r] \in Live /\ SuiteOK(suites[r])
      BY <2>1 DEF Judged, GateInv, TypeOK, Live
    <3>2. Ends(r)
      BY <2>1, <3>1 DEF Judged, Ends, GateInv, TypeOK
    <3>3. /\ suites[r].plan = Gates /\ Due(suites[r]) = {}
          /\ run.stage = (IF phase = "baseline" THEN "claim" ELSE "check")
      BY <2>1, <3>1 DEF Judged, SuiteOK, Coherent, Begun, Belongs, Phases
    <3> QED
      BY <2>1, <3>1, <3>2, <3>3, FinishedFacts
  <2>2. ASSUME NEW r \in Runners, finishBaseline(r), run' # run,
               run'.stage \in {"implementation", "draft_pr"}
        PROVE  /\ suites[r].saved = "stored" /\ suites[r].rev = run.rev
               /\ suites[r].failures \cap {"publication", "unavailable", "unconfirmed"} = {}
               /\ Judged(r, "run", "baseline") /\ run.stage = "claim"
    <3>1. /\ suites[r].saved = "stored" /\ suites[r].rev = run.rev
          /\ Judged(r, "run", "baseline")
          /\ suites[r].failures = {} \/ baselineFailureErrorTargeted(suites[r])
      BY <2>2 DEF finishBaseline, MoveRun
    <3>2. suites[r].failures \cap {"publication", "unavailable", "unconfirmed"} = {}
      BY <3>1 DEF baselineFailureErrorTargeted
    <3> QED
      BY <2>1, <2>2, <3>1, <3>2 DEF Phases
  <2>3. ASSUME NEW r \in Runners, finishCheck(r), run' # run,
               run'.stage \in {"implementation", "draft_pr"}
        PROVE  /\ suites[r].saved = "stored" /\ suites[r].rev = run.rev
               /\ suites[r].failures \cap {"publication", "unavailable", "unconfirmed"} = {}
               /\ Judged(r, "run", "checkpoint") /\ run.stage = "check"
               /\ run'.stage = "implementation" =>
                    isRepairableCheckFailure(suites[r].failures, suites[r].saved)
    <3>1. /\ Judged(r, "run", "checkpoint") /\ suites[r].rev = run.rev
          /\ \/ /\ suites[r].failures = {} /\ suites[r].saved = "stored"
                /\ run'.stage = "draft_pr"
             \/ isRepairableCheckFailure(suites[r].failures, suites[r].saved)
      BY <2>3 DEF finishCheck, MoveRun
    <3>2. /\ suites[r].saved = "stored"
          /\ suites[r].failures \cap {"publication", "unavailable", "unconfirmed"} = {}
          /\ run'.stage = "implementation" =>
               isRepairableCheckFailure(suites[r].failures, suites[r].saved)
      BY <3>1 DEF isRepairableCheckFailure
    <3> QED
      BY <2>1, <2>3, <3>1, <3>2 DEF Phases
  <2>4. MovesOnEvidence
    <3> SUFFICES ASSUME NEW q \in Runners, Ends(q), run' # run,
                        run'.stage \in {"implementation", "draft_pr"}
                 PROVE  \E r \in Runners :
                          /\ Ends(r) /\ suites[r].saved = "stored"
                          /\ "publication" \notin suites[r].failures
                          /\ \A g \in Gates : suites[r].results[g] # NotRun
                          /\ \A i \in DOMAIN suites[r].calls :
                               suites[r].calls[i] # "unconfirmed"
      BY DEF MovesOnEvidence
    <3>1. PICK r \in Runners : finishBaseline(r) \/ finishCheck(r)
      BY DEF Next, Runner, RunBaseline, runConfiguredGates, RunGate, Begin,
         SuiteUnavailable, RunSetup, RunNextGate, persistGateSuite, finishGate,
         Crash, Implement, ResumeCheck, ReviewRepair, MarkReady, Step, Ends
    <3>2. /\ suites[r].saved = "stored" /\ suites[r].rev = run.rev
          /\ suites[r].failures \cap {"publication", "unavailable", "unconfirmed"} = {}
          /\ \E phase \in Phases : Judged(r, "run", phase)
      BY <2>2, <2>3, <3>1 DEF Phases
    <3>3. /\ SuiteOK(suites[r]) /\ Ends(r)
          /\ \A g \in Gates : suites[r].results[g] # NotRun
      BY <2>1, <3>2
    <3>4. \A i \in DOMAIN suites[r].calls : suites[r].calls[i] # "unconfirmed"
      BY <3>2, <3>3 DEF SuiteOK, Coherent, Explained
    <3> QED
      BY <3>2, <3>3, <3>4
  <2>5. RepairsCommands
    <3> SUFFICES ASSUME run.stage = "check", run'.stage = "implementation"
                 PROVE  \E r \in Runners :
            /\ Ends(r)
            /\ Unhealthy(suites[r].results) # {} \/ HasSetupFailure(suites[r].results)
            /\ HasSetupFailure(suites[r].results) => suites[r].calls = <<"fail">>
            /\ \A g \in Unhealthy(suites[r].results) :
                 \/ suites[r].results[g].outcome \in {"failed", "setup_failed"}
                 \/ \E d \in policy.needs[g] :
                      suites[r].results[d].outcome \in {"failed", "error", "skipped"}
      BY DEF RepairsCommands
    <3>1. PICK r \in Runners : finishBaseline(r) \/ finishCheck(r)
      BY DEF Next, Runner, RunBaseline, runConfiguredGates, RunGate, Begin,
         SuiteUnavailable, RunSetup, RunNextGate, persistGateSuite, finishGate,
         Crash, Implement, ResumeCheck, ReviewRepair, MarkReady, Step
    <3>2. finishCheck(r)
      BY <2>2, <3>1
    <3> DEFINE s == suites[r]
    <3>3. /\ s.rev = run.rev /\ Judged(r, "run", "checkpoint")
          /\ s.failures \cap {"publication", "unavailable", "unconfirmed"} = {}
          /\ isRepairableCheckFailure(s.failures, s.saved)
      BY <2>3, <3>2
    <3>4. /\ Ends(r) /\ s \in Suites /\ s.plan = Gates /\ Explained(s)
          /\ s.failures \subseteq {"command", "setup_exit", "dependency"}
          /\ s.failures \cap {"command", "setup_exit"} # {}
      BY <2>1, <3>3 DEF SuiteOK, Coherent, isRepairableCheckFailure, Phases
    <3>5. HasSetupFailure(s.results) \/ "setup_exit" \in s.failures
            => s.calls = <<"fail">> /\ HasSetupFailure(s.results)
      <4> SUFFICES ASSUME SetupFailed(s)
                   PROVE  s.calls = <<"fail">> /\ HasSetupFailure(s.results)
        BY <3>4 DEF Explained
      <4>1. PICK c \in Commands \ {"pass"} : s.calls = <<c>> /\ SetupFailure(c) \subseteq s.failures
        BY DEF SetupFailed
      <4>2. c = "fail"
        BY <3>4, <4>1 DEF SetupFailure
      <4>3. HasSetupFailure(s.results)
        BY <2>p, <3>4 DEF SetupFailed, HasSetupFailure
      <4> QED
        BY <4>1, <4>2, <4>3
    <3>6. "command" \in s.failures => Unhealthy(s.results) # {}
      BY <3>4 DEF Explained, Unhealthy
    <3>7. ASSUME NEW g \in Unhealthy(s.results),
                 s.results[g].outcome \notin {"failed", "setup_failed"}
          PROVE  \E d \in policy.needs[g] :
                   s.results[d].outcome \in {"failed", "error", "skipped"}
      <4>1. g \in policy.blocking /\ s.results[g].outcome \in {"error", "skipped"}
        BY <3>7 DEF Unhealthy
      <4>2. s.results[g].outcome = "skipped"
        BY <3>4, <4>1 DEF Explained
      <4>3. policy.needs[g] \cap s.failed # {}
        BY <2>p, <3>4, <4>1, <4>2 DEF Explained
      <4> QED
        BY <3>4, <4>3 DEF Explained
    <3> QED
      BY <3>4, <3>5, <3>6, <3>7
  <2> QED
    BY <2>4, <2>5
<1> QED
  BY GateStarts, GateKept, <1>1, PTL DEF Spec, SuiteDecidesOnEvidence

=============================================================================
