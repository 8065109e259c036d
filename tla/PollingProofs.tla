---------------------------- MODULE PollingProofs ---------------------------
(***************************************************************************)
(* Proofs about module Polling, for any monitors and pages: how long a     *)
(* fetch may take, how old that and POLL_INTERVAL_MINUTES let a heartbeat  *)
(* become, and for which intervals the health check is patient enough.     *)
(***************************************************************************)
EXTENDS Polling, TLAPS

-----------------------------------------------------------------------------
(* How long a fetch may take. *)

(* FlareSolverr's rounds end with one of them. *)
LEMMA LastRoundIsRound ==
    ASSUME NEW solver \in [Rounds -> Tries]
    PROVE  LastRound(solver) \in Rounds
<1> DEFINE Last(i) == /\ Answers(solver[i]) \/ i = flareSolverrRetries
                      /\ \A j \in 1 .. i - 1 : ~Answers(solver[j])
<1>1. Rounds = {1, 2, 3}
  BY DEF Rounds, flareSolverrRetries
<1>2. \E i \in Rounds : Last(i)
  <2>1. CASE Answers(solver[1])
    BY <1>1, <2>1
  <2>2. CASE ~Answers(solver[1]) /\ Answers(solver[2])
    <3>1. Last(2)
      BY <2>2
    <3>2. QED
      BY <1>1, <3>1
  <2>3. CASE ~Answers(solver[1]) /\ ~Answers(solver[2])
    <3>1. Last(3)
      BY <2>3 DEF flareSolverrRetries
    <3>2. QED
      BY <1>1, <3>1
  <2>4. QED
    BY <2>1, <2>2, <2>3
<1>3. LastRound(solver) = CHOOSE i \in Rounds : Last(i)
  BY DEF LastRound
<1>4. QED
  BY <1>2, <1>3

LEMMA SecondsBound ==
    ASSUME NEW try, NEW timeout \in Nat
    PROVE  Seconds(try, timeout) \in {0, timeout}
BY DEF Seconds

(* Three rounds of 150 seconds, and the pauses.                             *)
LEMMA SolverBound ==
    ASSUME NEW solver \in [Rounds -> Tries]
    PROVE  SolverSeconds(solver) \in 0 .. 465
<1> DEFINE S(i) == Seconds(solver[i], 150)
           Def(f) == [i \in 0 .. flareSolverrRetries |->
                        IF i = 0 THEN 0
                        ELSE f[i - 1] + Seconds(solver[i], 150) + 5 * (i - 1)]
           g == [i \in 0 .. flareSolverrRetries |->
                   IF i = 0 THEN 0 ELSE IF i = 1 THEN S(1)
                   ELSE IF i = 2 THEN S(1) + S(2) + 5 ELSE S(1) + S(2) + S(3) + 15]
           upTo == CHOOSE f : f = Def(f)
<1>1. S(1) \in {0, 150} /\ S(2) \in {0, 150} /\ S(3) \in {0, 150}
  BY SecondsBound
<1>2. g = Def(g)
  BY <1>1 DEF flareSolverrRetries
<1>3. upTo = Def(upTo)
  <2> HIDE DEF Def, g
  <2>1. QED
    BY <1>2
<1>4. SolverSeconds(solver) = upTo[LastRound(solver)]
  BY DEF SolverSeconds
<1> HIDE DEF upTo
<1>5. /\ upTo[0] = 0
      /\ upTo[1] = upTo[0] + S(1)
      /\ upTo[2] = upTo[1] + S(2) + 5
      /\ upTo[3] = upTo[2] + S(3) + 10
  BY <1>1, <1>3 DEF flareSolverrRetries
<1>6. LastRound(solver) \in {1, 2, 3}
  BY LastRoundIsRound DEF Rounds, flareSolverrRetries
<1>7. QED
  BY <1>1, <1>4, <1>5, <1>6

(* A fetch is over within nine minutes, whatever each of its tries meets.   *)
THEOREM FetchEnds ==
    ASSUME NEW withSolver \in BOOLEAN
    PROVE  FetchSeconds(withSolver) \subseteq 0 .. 525
<1> DEFINE tls == {Seconds(try, 30) : try \in Tries}
           solver == IF withSolver THEN {SolverSeconds(s) : s \in [Rounds -> Tries]} ELSE {0}
<1>1. tls \subseteq {0, 30}
  BY SecondsBound
<1>2. solver \subseteq 0 .. 465
  BY SolverBound
<1>3. FetchSeconds(withSolver)
        = tls \cup {a + b + c : a \in tls, b \in tls, c \in solver \cup {0}}
  BY DEF FetchSeconds
<1> HIDE DEF tls, solver
<1>4. SUFFICES ASSUME NEW t \in FetchSeconds(withSolver) PROVE t \in 0 .. 525
  OBVIOUS
<1>5. CASE t \in tls
  BY <1>1, <1>5
<1>6. CASE t \in {a + b + c : a \in tls, b \in tls, c \in solver \cup {0}}
  <2>1. PICK a \in tls, b \in tls, c \in solver \cup {0} : t = a + b + c
    BY <1>6
  <2>2. a \in {0, 30} /\ b \in {0, 30} /\ c \in 0 .. 465
    BY <1>1, <1>2
  <2>3. QED
    BY <2>1, <2>2
<1>7. QED
  BY <1>3, <1>5, <1>6

LEMMA CostBound ==
    ASSUME NEW m
    PROVE  CostsOf(m) \subseteq 0 .. 9
<1>1. ASSUME NEW withSolver \in BOOLEAN, NEW x \in SlowMinutes(withSolver)
      PROVE  x \in 0 .. 9
  <2>1. PICK t \in FetchSeconds(withSolver) : x = Minutes(t)
    BY <1>1 DEF SlowMinutes
  <2>2. t \in 0 .. 525
    BY FetchEnds
  <2>3. QED
    BY <2>1, <2>2 DEF Minutes
<1>2. SlowWith \subseteq 0 .. 9 /\ SlowWithout \subseteq 0 .. 9
  BY <1>1 DEF SlowWith, SlowWithout
<1>3. QED
  BY <1>2 DEF CostsOf

-----------------------------------------------------------------------------
(* Type correctness. *)

(* The poller's timer fires within 75 seconds for every minute of the       *)
(* interval.                                                                *)
LEMMA WaitBound ==
    /\ Minutes(75 * BaseInterval) \in Nat
    /\ Waits(BaseInterval) \cup Waits(1) \subseteq 0 .. Minutes(75 * BaseInterval)
BY PollingAssumption DEF Waits, Minutes

LEMMA MonitorsAreSome == Len(Monitors) \in Nat \ {0}
BY PollingAssumption

LEMMA TypeInit == Init => TypeOK
<1> SUFFICES ASSUME Init PROVE TypeOK
  OBVIOUS
<1>1. /\ turn \in 0 .. Len(Monitors)
      /\ timer \in 0 .. Minutes(75 * BaseInterval)
      /\ faults \in 0 .. MaxFaults
  BY WaitBound, MonitorsAreSome, PollingAssumption DEF Init
<1>2. beat \in 0 .. StaleAfter /\ up \in 0 .. StartPeriod /\ strikes \in 0 .. Retries
  BY DEF Init, StaleAfter, StartPeriod, Retries
<1>3. left \in 0 .. 9 /\ long \in 0 .. 2
  BY DEF Init
<1>4. QED
  BY <1>1, <1>2, <1>3, Zenon DEF Init, TypeOK

(* A check begins. *)
LEMMA StartCheckType ==
    ASSUME TypeOK, NEW i \in 1 .. Len(Monitors), StartCheck(i)
    PROVE  turn' \in 0 .. Len(Monitors) /\ left' \in 0 .. 9 /\ long' \in 0 .. 2
<1>1. left' \in 0 .. 9
  BY CostBound DEF StartCheck
<1>2. QED
  BY <1>1, MonitorsAreSome DEF StartCheck, TypeOK, Lesser

LEMMA TypeStep == TypeOK /\ [Next]_vars => TypeOK'
<1> SUFFICES ASSUME TypeOK, [Next]_vars PROVE TypeOK'
  OBVIOUS
<1> USE WaitBound, MonitorsAreSome, PollingAssumption
    DEF settings, running, container, history, StaleAfter, StartPeriod, Retries
<1>1. CASE UNCHANGED vars
  BY <1>1 DEF vars, TypeOK
<1>2. ASSUME NEW m \in Pages, Hang(m) \/ Respond(m) PROVE TypeOK'
  BY <1>2 DEF Hang, Respond, TypeOK
<1>3. CASE Tick
  <2>1. left' \in 0 .. 9 /\ timer' \in 0 .. Minutes(75 * BaseInterval)
    BY <1>3 DEF Tick, TypeOK, Greater
  <2>2. beat' \in 0 .. StaleAfter /\ up' \in 0 .. StartPeriod /\ strikes' \in 0 .. Retries
    BY <1>3 DEF Tick, Probe, TypeOK, Lesser
  <2>3. asked' = FALSE /\ UNCHANGED <<settings, slow, turn, byCheck, history, faults>>
    BY <1>3 DEF Tick
  <2>4. QED
    BY <2>1, <2>2, <2>3 DEF TypeOK
<1>4. CASE BeginRun
  <2>1. turn' \in 0 .. Len(Monitors) /\ left' \in 0 .. 9 /\ long' \in 0 .. 2
    BY <1>4, StartCheckType DEF BeginRun
  <2>2. QED
    BY <1>4, <2>1 DEF BeginRun, TypeOK
<1>5. CASE EndCheck
  <2>1. CASE turn < Len(Monitors) /\ StartCheck(turn + 1) /\ UNCHANGED <<byCheck, timer, beat, written>>
    <3>1. turn + 1 \in 1 .. Len(Monitors)
      BY <2>1 DEF TypeOK
    <3>2. turn' \in 0 .. Len(Monitors) /\ left' \in 0 .. 9 /\ long' \in 0 .. 2
      BY <2>1, <3>1, StartCheckType
    <3>3. QED
      BY <1>5, <2>1, <3>2 DEF EndCheck, TypeOK
  <2>2. CASE EndOfRun
    <3>1. turn' = 0 /\ left' = 0 /\ timer' \in 0 .. Minutes(75 * BaseInterval)
            /\ beat' \in 0 .. StaleAfter /\ long' \in 0 .. 2
      <4>1. /\ timer' = timer \/ timer' \in Waits(BaseInterval) \cup Waits(1)
            /\ beat' \in {beat, 0} /\ long' \in {long, 0}
            /\ turn' = 0 /\ left' = 0
        BY <2>2 DEF EndOfRun
      <4>2. timer' \in 0 .. Minutes(75 * BaseInterval)
        BY <4>1, Zenon, WaitBound DEF TypeOK
      <4>3. QED
        BY <4>1, <4>2 DEF TypeOK
    <3>2. byCheck' \in BOOLEAN
      BY <2>2, (byCheck /\ timer = 0 /\ monitoring) \in BOOLEAN, Zenon DEF EndOfRun
    <3>3. written' \in BOOLEAN
      BY <2>2, Zenon DEF EndOfRun, TypeOK
    <3>4. QED
      BY <1>5, <3>1, <3>2, <3>3 DEF EndCheck, TypeOK
  <2>3. QED
    BY <1>5, <2>1, <2>2 DEF EndCheck
<1>6. CASE CheckCommand
  <2>1. turn' \in 0 .. Len(Monitors) /\ left' \in 0 .. 9 /\ long' \in 0 .. 2
    BY <1>6, StartCheckType DEF CheckCommand
  <2>2. QED
    BY <1>6, <2>1 DEF CheckCommand, TypeOK
<1>7. CASE Autoheal \/ Crash
  <2>1. beat' \in 0 .. StaleAfter /\ faults' \in 0 .. MaxFaults
    <3>1. beat \in 0 .. StaleAfter /\ faults \in 0 .. MaxFaults
      BY DEF TypeOK
    <3>2. CASE Autoheal
      BY <3>1, <3>2 DEF Autoheal
    <3>3. CASE Crash
      <4>1. beat' \in {beat, StaleAfter, 0}
        BY <3>3, Zenon DEF Crash
      <4>2. faults < MaxFaults /\ faults' = faults + 1
        BY <3>3 DEF Crash
      <4>3. QED
        BY <3>1, <4>1, <4>2
    <3>4. QED
      BY <1>7, <3>2, <3>3
  <2>2. NewProcess
    BY <1>7 DEF Autoheal, Crash
  <2>3. /\ turn' \in 0 .. Len(Monitors) /\ left' \in 0 .. 9
        /\ timer' \in 0 .. Minutes(75 * BaseInterval)
        /\ up' \in 0 .. StartPeriod /\ strikes' \in 0 .. Retries /\ long' \in 0 .. 2
    BY <2>2 DEF NewProcess
  <2>4. /\ byCheck' = FALSE /\ asked' = FALSE /\ written' = FALSE
        /\ UNCHANGED <<monitoring, configured, slow>>
    BY <2>2 DEF NewProcess
  <2>5. QED
    BY <2>1, <2>3, <2>4 DEF TypeOK
<1>8. QED
  BY <1>1, <1>2, <1>3, <1>4, <1>5, <1>6, <1>7 DEF Next

(* Type correctness: in every behaviour the variables keep their types; in  *)
(* particular no check takes longer than nine minutes.                      *)
THEOREM TypeCorrect == Spec => []TypeOK
<1>1. QED
  BY TypeInit, TypeStep, PTL DEF Spec

-----------------------------------------------------------------------------
(* The health check and pages that hang. *)

(* The longest wait of the poller. *)
Longest == Minutes(75 * BaseInterval)

LEMMA LongestBound ==
    /\ Longest \in Nat
    /\ Waits(BaseInterval) \cup Waits(1) \subseteq 0 .. Longest
    /\ BaseInterval <= 5 => Longest <= 7
    /\ BaseInterval <= 12 => Longest <= 15
BY WaitBound, PollingAssumption DEF Longest, Minutes

LEMMA TimerBound ==
    ASSUME TypeOK
    PROVE  timer \in 0 .. Longest
BY Zenon DEF TypeOK, Longest

(* Arithmetic. *)
LEMMA Sooner ==
    ASSUME NEW a \in Int, NEW b \in Int, NEW t \in Int, NEW l \in Int,
           b <= a + 1, a + t <= l
    PROVE  b + (t - 1) <= l
OBVIOUS

LEMMA Later ==
    ASSUME NEW a \in Int, NEW t \in Nat, NEW c \in 0 .. 9, NEW l \in Int, a + t <= l
    PROVE  a + t <= l + 9 /\ a + c <= l + 9
OBVIOUS

(* The age of the heartbeat, beyond StaleAfter too: the probes since then   *)
(* have all failed.                                                         *)
AgeOf(old, failed) == IF old < StaleAfter THEN old ELSE StaleAfter - 1 + failed

(* When a check takes time, who writes the heartbeat, and that a heartbeat  *)
(* that is not yet too old clears the strikes.                              *)
Schedule ==
    /\ turn = 0 => left = 0
    /\ turn > 0 /\ ~byCheck => monitoring
    /\ written => monitoring
    /\ 0 < beat /\ beat < StaleAfter => strikes = 0

(* While nothing has hung since the heartbeat it is no older than the       *)
(* poller's timer allows; while one check has, it will be no older than the *)
(* timer and one slow fetch.                                                *)
WithinBudget ==
    /\ written /\ long = 0 => left = 0 /\ AgeOf(beat, strikes) + timer <= Longest
    /\ written /\ long = 1 => AgeOf(beat, strikes) + Greater(timer, left) <= Longest + 9

Inv ==
    /\ TypeOK
    /\ Schedule
    /\ WithinBudget

LEMMA InvInit == Init => Inv
<1> SUFFICES ASSUME Init PROVE Inv
  OBVIOUS
<1>1. Schedule
  BY DEF Init, Schedule, StaleAfter
<1>2. WithinBudget
  BY DEF Init, WithinBudget
<1>3. QED
  BY <1>1, <1>2, TypeInit DEF Inv

(* A minute that goes by makes the heartbeat a minute older, no more; what  *)
(* is still to come is a minute less.                                       *)
LEMMA TickStep ==
    ASSUME Inv, TypeOK', Tick
    PROVE  Schedule' /\ WithinBudget'
<1> USE DEF StaleAfter
<1>1. /\ turn \in Nat /\ left \in 0 .. 9 /\ timer \in Nat
      /\ beat \in 0 .. 15 /\ strikes \in 0 .. 3 /\ long \in 0 .. 2
  BY WaitBound, MonitorsAreSome DEF Inv, TypeOK, Retries
<1>2. /\ left' = Greater(left - 1, 0) /\ timer' = Greater(timer - 1, 0)
      /\ UNCHANGED <<monitoring, turn, byCheck, written, long>>
  BY DEF Tick, settings, history
<1>3. /\ monitoring => beat' = Lesser(beat + 1, 15)
      /\ ~monitoring => beat' = 0
      /\ strikes' = IF beat' < 15 THEN 0 ELSE IF up' < StartPeriod THEN strikes ELSE strikes + 1
  BY DEF Tick, Probe
<1>4. Schedule'
  BY <1>1, <1>2, <1>3 DEF Inv, Schedule, Greater
<1>5. ASSUME written PROVE AgeOf(beat', strikes') <= AgeOf(beat, strikes) + 1
  <2>1. monitoring
    BY <1>5 DEF Inv, Schedule
  <2>2. CASE beat < 14
    BY <1>1, <1>3, <2>1, <2>2 DEF AgeOf, Lesser
  <2>3. CASE beat >= 14
    BY <1>1, <1>3, <2>1, <2>3 DEF Inv, Schedule, AgeOf, Lesser
  <2>4. QED
    BY <1>1, <2>2, <2>3
<1>6. AgeOf(beat, strikes) \in Int /\ AgeOf(beat', strikes') \in Int
  BY <1>1, <1>3 DEF AgeOf, Lesser
<1>7. written => timer > 0 \/ left > 0
  BY <1>1 DEF Inv, Schedule, Tick, Waiting
<1>8. WithinBudget'
  <2>1. ASSUME written, long = 0
        PROVE  left' = 0 /\ AgeOf(beat', strikes') + timer' <= Longest
    <3>1. left = 0 /\ AgeOf(beat, strikes) + timer <= Longest
      BY <2>1 DEF Inv, WithinBudget
    <3>2. timer' = timer - 1 /\ left' = 0
      BY <1>1, <1>2, <1>7, <2>1, <3>1 DEF Greater
    <3>3. AgeOf(beat', strikes') + (timer - 1) <= Longest
      BY <1>1, <1>5, <1>6, <2>1, <3>1, Sooner, LongestBound
    <3>4. QED
      BY <3>2, <3>3, Zenon
  <2>2. ASSUME written, long = 1
        PROVE  AgeOf(beat', strikes') + Greater(timer', left') <= Longest + 9
    <3>1. AgeOf(beat, strikes) + Greater(timer, left) <= Longest + 9
      BY <2>2 DEF Inv, WithinBudget
    <3>2. Greater(timer', left') = Greater(timer, left) - 1 /\ Greater(timer, left) \in Int
      BY <1>1, <1>2, <1>7, <2>2 DEF Greater
    <3>3. Longest + 9 \in Int
      BY LongestBound
    <3>4. AgeOf(beat', strikes') + (Greater(timer, left) - 1) <= Longest + 9
      BY <1>5, <1>6, <2>2, <3>1, <3>2, <3>3, Sooner
    <3>5. QED
      BY <3>2, <3>4, Zenon
  <2>3. QED
    BY <1>2, <2>1, <2>2 DEF WithinBudget
<1>9. QED
  BY <1>4, <1>8

(* A check that begins and hangs takes nine minutes at most.                *)
LEMMA StartCheckStep ==
    ASSUME Inv, NEW i, StartCheck(i), left = 0, UNCHANGED <<beat, strikes, timer, written>>
    PROVE  WithinBudget'
<1> USE DEF StaleAfter
<1>1. left' \in 0 .. 9
  BY CostBound DEF StartCheck
<1>2. long \in 0 .. 2 /\ timer \in Nat /\ beat \in 0 .. 15 /\ strikes \in Nat
  BY WaitBound DEF Inv, TypeOK, Retries
<1>3. AgeOf(beat, strikes) \in Int /\ AgeOf(beat', strikes') = AgeOf(beat, strikes)
  BY <1>2 DEF AgeOf
<1>4. long' = IF left' > 0 THEN Lesser(long + 1, 2) ELSE long
  BY DEF StartCheck
<1>5. ASSUME written', long' = 0 PROVE left' = 0 /\ AgeOf(beat', strikes') + timer' <= Longest
  <2>1. left' = 0 /\ long = 0
    BY <1>1, <1>2, <1>4, <1>5 DEF Lesser
  <2>2. QED
    BY <1>3, <1>5, <2>1 DEF Inv, WithinBudget
<1>6. ASSUME written', long' = 1 PROVE AgeOf(beat', strikes') + Greater(timer', left') <= Longest + 9
  <2>1. CASE left' = 0
    <3>1. AgeOf(beat, strikes) + Greater(timer, left) <= Longest + 9
      BY <1>4, <1>6, <2>1 DEF Inv, WithinBudget
    <3>2. QED
      BY <1>3, <2>1, <3>1 DEF Greater
  <2>2. CASE left' > 0
    <3>1. long = 0
      BY <1>2, <1>4, <1>6, <2>2 DEF Lesser
    <3>2. AgeOf(beat, strikes) + timer <= Longest
      BY <1>6, <3>1 DEF Inv, WithinBudget
    <3>3. AgeOf(beat, strikes) + timer <= Longest + 9 /\ AgeOf(beat, strikes) + left' <= Longest + 9
      BY <1>1, <1>2, <1>3, <3>2, Later, LongestBound
    <3>4. Greater(timer', left') \in {timer, left'}
      BY DEF Greater
    <3>5. QED
      BY <1>3, <3>3, <3>4, Zenon
  <2>3. QED
    BY <1>1, <2>1, <2>2
<1>7. QED
  BY <1>5, <1>6 DEF WithinBudget

LEMMA InvStep == Inv /\ [Next]_vars => Inv'
<1> SUFFICES ASSUME Inv, [Next]_vars PROVE Schedule' /\ WithinBudget'
  BY TypeStep DEF Inv
<1>0. TypeOK /\ TypeOK' /\ Schedule /\ WithinBudget
  BY TypeStep DEF Inv
<1>1. CASE UNCHANGED vars
  BY <1>0, <1>1 DEF vars, Schedule, WithinBudget, AgeOf
<1>2. ASSUME NEW m \in Pages, Hang(m) \/ Respond(m) PROVE Schedule' /\ WithinBudget'
  BY <1>0, <1>2 DEF Hang, Respond, settings, running, container, history,
                    Schedule, WithinBudget, AgeOf
<1>3. CASE Tick
  BY <1>0, <1>3, TickStep
<1>4. CASE BeginRun
  <2>1. WithinBudget'
    BY <1>0, <1>4, StartCheckStep DEF BeginRun, Schedule, container
  <2>2. Schedule'
    BY <1>0, <1>4 DEF BeginRun, StartCheck, Schedule, settings, container
  <2>3. QED
    BY <2>1, <2>2
<1>5. CASE CheckCommand
  <2>1. WithinBudget'
    BY <1>0, <1>5, StartCheckStep DEF CheckCommand, Schedule, container
  <2>2. Schedule'
    BY <1>0, <1>5 DEF CheckCommand, StartCheck, Schedule, settings, container
  <2>3. QED
    BY <2>1, <2>2
<1>6. CASE EndCheck
  <2>1. turn > 0 /\ left = 0 /\ UNCHANGED <<monitoring, strikes>>
    BY <1>6 DEF EndCheck, settings
  <2>2. CASE StartCheck(turn + 1) /\ UNCHANGED <<byCheck, timer, beat, written>>
    <3>1. WithinBudget'
      BY <2>1, <2>2, StartCheckStep
    <3>2. turn' = turn + 1 /\ turn \in Nat
      BY <1>0, <2>2, MonitorsAreSome DEF StartCheck, TypeOK
    <3>3. Schedule'
      BY <1>0, <2>1, <2>2, <3>2 DEF Schedule
    <3>4. QED
      BY <3>1, <3>3
  <2>3. CASE EndOfRun /\ byCheck /\ UNCHANGED <<timer, beat, written, long>>
    <3>1. turn' = 0 /\ left' = 0
      BY <2>3 DEF EndOfRun
    <3>2. Schedule'
      BY <1>0, <2>1, <2>3, <3>1 DEF Schedule
    <3>3. WithinBudget'
      <4>1. AgeOf(beat', strikes') = AgeOf(beat, strikes)
        BY <2>1, <2>3 DEF AgeOf, StaleAfter
      <4>2. left' = left /\ UNCHANGED <<timer, written, long>>
        BY <2>1, <2>3, <3>1
      <4>3. QED
        BY <1>0, <4>1, <4>2 DEF WithinBudget
    <3>4. QED
      BY <3>2, <3>3
  <2>4. CASE EndOfRun /\ ~byCheck
    <3>1. turn' = 0 /\ left' = 0 /\ beat' = 0 /\ long' = 0
            /\ timer' \in Waits(BaseInterval) \cup Waits(1)
      BY <2>4 DEF EndOfRun
    <3>2. timer' \in 0 .. Longest
      BY <3>1, LongestBound
    <3>3. Schedule'
      BY <1>0, <2>1, <2>4, <3>1 DEF Schedule
    <3>4. WithinBudget'
      <4>1. AgeOf(beat', strikes') = 0
        BY <3>1 DEF AgeOf, StaleAfter
      <4>2. AgeOf(beat', strikes') + timer' <= Longest
        <5>1. ASSUME NEW t \in 0 .. Longest PROVE 0 + t <= Longest
          BY LongestBound
        <5>2. QED
          BY <3>2, <4>1, <5>1, Zenon
      <4>3. left' = 0 /\ long' # 1
        BY <3>1
      <4>4. QED
        BY <4>2, <4>3, Zenon DEF WithinBudget
    <3>5. QED
      BY <3>3, <3>4
  <2>5. QED
    BY <1>6, <2>2, <2>3, <2>4 DEF EndCheck, EndOfRun
<1>7. CASE Autoheal \/ Crash
  <2>1. turn' = 0 /\ left' = 0 /\ ~written' /\ strikes' = 0
    BY <1>7 DEF Autoheal, Crash, NewProcess
  <2>2. QED
    BY <2>1 DEF Schedule, WithinBudget
<1>8. QED
  BY <1>1, <1>2, <1>3, <1>4, <1>5, <1>6, <1>7 DEF Next

(* The inductive invariant, for any interval.                               *)
THEOREM Invariance == Spec => []Inv
<1>1. QED
  BY InvInit, InvStep, PTL DEF Spec

(* The third probe to fail finds a heartbeat that is 17 minutes old.        *)
LEMMA KillStep ==
    ASSUME Inv, Inv', Next, strikes' = Retries, strikes < Retries, written
    PROVE  /\ long \in 0 .. 2
           /\ long = 0 => 17 <= Longest
           /\ long = 1 => 17 <= Longest + 9
<1>1. CASE Tick
  <2>1. beat' = StaleAfter /\ UNCHANGED <<written, long>>
    <3>1. ~(beat' < StaleAfter) /\ UNCHANGED <<written, long>>
      BY <1>1 DEF Tick, Probe, Retries, history
    <3>2. QED
      BY <3>1 DEF Inv, TypeOK, StaleAfter
  <2>2. AgeOf(beat', strikes') = 17
    BY <2>1 DEF AgeOf, StaleAfter, Retries
  <2>3. timer' \in 0 .. Longest /\ left' \in 0 .. 9 /\ long \in 0 .. 2
    <3>1. TypeOK /\ TypeOK'
      BY DEF Inv
    <3>2. timer' \in 0 .. Longest
      BY <3>1, Zenon DEF TypeOK, Longest
    <3>3. QED
      BY <3>1, <3>2, Zenon DEF TypeOK
  <2>4. Greater(timer', left') \in Nat /\ timer' \in Nat
    BY <2>3, LongestBound DEF Greater
  <2>5. /\ long = 0 => 17 + timer' <= Longest
        /\ long = 1 => 17 + Greater(timer', left') <= Longest + 9
    <3>1. WithinBudget' /\ written' /\ long' = long
      BY <2>1 DEF Inv
    <3>2. QED
      BY <2>2, <3>1, Zenon DEF WithinBudget
  <2>6. ASSUME NEW t \in Nat, NEW l \in Int, 17 + t <= l PROVE 17 <= l
    BY <2>6
  <2>7. long = 0 => 17 <= Longest
    <3>1. Longest \in Int
      BY LongestBound
    <3>2. QED
      BY <2>4, <2>5, <2>6, <3>1, Zenon
  <2>8. long = 1 => 17 <= Longest + 9
    <3>1. Longest + 9 \in Int
      BY LongestBound
    <3>2. QED
      BY <2>4, <2>5, <2>6, <3>1, Zenon
  <2>9. QED
    BY <2>3, <2>7, <2>8
<1>2. CASE ~Tick
  <2>1. strikes' \in {strikes, 0}
    BY <1>2 DEF Next, Hang, Respond, BeginRun, EndCheck, CheckCommand, Autoheal, Crash,
                NewProcess, container
  <2>2. QED
    BY <2>1 DEF Retries
<1>3. QED
  BY <1>1, <1>2

(* A bot that has completed a run is restarted by the health check only if  *)
(* two checks have hung since, whatever the monitors are and however often  *)
(* /check is used, if POLL_INTERVAL_MINUTES is five at most.                *)
THEOREM OneHangIsSurvived ==
    ASSUME BaseInterval <= 5
    PROVE  Spec => KilledOnlyIfTwiceSlow
<1>1. Inv /\ Inv' /\ [Next]_vars
        => [strikes' = Retries /\ strikes < Retries => ~written \/ long = 2]_vars
  <2> SUFFICES ASSUME Inv, Inv', Next, strikes' = Retries, strikes < Retries, written
               PROVE  long = 2
    BY DEF vars
  <2>1. /\ long \in 0 .. 2
        /\ long = 0 => 17 <= Longest
        /\ long = 1 => 17 <= Longest + 9
    BY KillStep
  <2>2. QED
    BY <2>1, LongestBound
<1>2. QED
  BY <1>1, Invariance, PTL DEF Spec, KilledOnlyIfTwiceSlow

(* While nothing hangs the health check restarts no process that has        *)
(* completed a run.                                                         *)
KilledOnlyIfSlow ==
    [][strikes' = Retries /\ strikes < Retries => ~written \/ long > 0]_vars

(* With an interval of up to twelve minutes a bot that has completed a run  *)
(* is not restarted unless a check has hung since: the poller's own wait    *)
(* (interval + jitter of runPolling) is never taken for a hang.             *)
THEOREM WaitingIsNotHanging ==
    ASSUME BaseInterval <= 12
    PROVE  Spec => KilledOnlyIfSlow
<1>1. Inv /\ Inv' /\ [Next]_vars
        => [strikes' = Retries /\ strikes < Retries => ~written \/ long > 0]_vars
  <2> SUFFICES ASSUME Inv, Inv', Next, strikes' = Retries, strikes < Retries, written
               PROVE  long > 0
    BY DEF vars
  <2>1. long \in 0 .. 2 /\ (long = 0 => 17 <= Longest)
    BY KillStep
  <2>2. QED
    BY <2>1, LongestBound
<1>2. QED
  BY <1>1, Invariance, PTL DEF Spec, KilledOnlyIfSlow
=============================================================================
