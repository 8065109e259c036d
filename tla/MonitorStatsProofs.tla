------------------------- MODULE MonitorStatsProofs -------------------------
(***************************************************************************)
(* Proofs about module MonitorStats, for any monitors and error texts, any *)
(* number of failures between two messages, of restarts and of messages    *)
(* lost; and about the three ways of module Fetcher to a page.             *)
(***************************************************************************)
EXTENDS MonitorStats, TLAPS

-----------------------------------------------------------------------------
(* What a step does. *)

(* The count of failures, modulo adminRenotifyEvery. *)
LEMMA Modulo ==
    ASSUME NEW f \in 0 .. RenotifyEvery - 1
    PROVE  /\ f + 1 < RenotifyEvery => (f + 1) % RenotifyEvery = f + 1
           /\ f + 1 = RenotifyEvery => (f + 1) % RenotifyEvery = 0
           /\ {0, 1, (f + 1) % RenotifyEvery} \subseteq 0 .. RenotifyEvery - 1
BY StatsAssumption

(* The new count of failures is one of three numbers. *)
LEMMA NewCount ==
    ASSUME TypeOK, NEW m \in Monitors, NEW error \in Texts \cup {NoError},
           UpdateAndCheck(m, error)
    PROVE  \E n \in 0 .. RenotifyEvery - 1 : fails' = [fails EXCEPT ![m] = n]
<1> DEFINE n == IF error = NoError THEN 0
                ELSE IF error # text[m] THEN 1 ELSE (fails[m] + 1) % RenotifyEvery
<1>1. fails' = [fails EXCEPT ![m] = n]
  BY DEF UpdateAndCheck
<1>2. n \in {0, 1, (fails[m] + 1) % RenotifyEvery}
  OBVIOUS
<1>3. fails[m] \in 0 .. RenotifyEvery - 1
  BY DEF TypeOK
<1>4. {0, 1, (fails[m] + 1) % RenotifyEvery} \subseteq 0 .. RenotifyEvery - 1
  BY <1>3, Modulo
<1>5. n \in 0 .. RenotifyEvery - 1
  BY <1>2, <1>4
<1> HIDE DEF n
<1>6. QED
  BY <1>1, <1>5

(* A check ends with an error or without. *)
LEMMA CheckEffect ==
    ASSUME NEW m \in Monitors, Check(m)
    PROVE  \E error \in Texts \cup {NoError} : UpdateAndCheck(m, error)
BY DEF Check, Errors

(* A monitor's own entries after updateAndCheck. *)
LEMMA UpdateOwn ==
    ASSUME TypeOK, NEW m \in Monitors, NEW error \in Texts \cup {NoError},
           UpdateAndCheck(m, error)
    PROVE  /\ text'[m] = error
           /\ fails'[m] \in 0 .. RenotifyEvery - 1
           /\ \/ /\ silent'[m] = 0
                 /\ \/ missed'[m]
                    \/ ~missed'[m] /\ told'[m] = IF error = NoError THEN "recovered" ELSE "broken"
              \/ /\ error = text[m]
                 /\ told'[m] = told[m] /\ missed'[m] = missed[m]
                 /\ \/ error = NoError /\ silent'[m] = 0
                    \/ /\ error # NoError
                       /\ fails'[m] = fails[m] + 1
                       /\ silent'[m] \in {silent[m], silent[m] + 1}
<1> USE DEF TypeOK
<1>1. text'[m] = error
  BY DEF UpdateAndCheck
<1>2. fails'[m] \in 0 .. RenotifyEvery - 1
  BY NewCount
<1>3. CASE ShouldNotify(m, error)
  <2>1. Send(m, IF error = NoError THEN "recovered" ELSE "broken")
    BY <1>3 DEF UpdateAndCheck
  <2>2. QED
    BY <1>1, <1>2, <2>1 DEF Send
<1>4. CASE ~ShouldNotify(m, error)
  <2>1. KeepSilent(m, error)
    BY <1>4 DEF UpdateAndCheck
  <2>2. error = text[m] /\ (error # NoError => (fails[m] + 1) % RenotifyEvery # 0)
    BY <1>4 DEF ShouldNotify
  <2>3. error # NoError => fails'[m] = fails[m] + 1
    <3>1. error # NoError => fails'[m] = (fails[m] + 1) % RenotifyEvery
      BY <2>2 DEF UpdateAndCheck
    <3>2. QED
      BY <2>2, <3>1, Modulo, StatsAssumption
  <2>4. QED
    BY <1>1, <1>2, <2>1, <2>2, <2>3 DEF KeepSilent
<1>5. QED
  BY <1>3, <1>4

(* No other monitor's entry changes. *)
LEMMA UpdateOther ==
    ASSUME TypeOK, NEW m \in Monitors, NEW error \in Texts \cup {NoError},
           UpdateAndCheck(m, error), NEW n \in Monitors, n # m
    PROVE  /\ text'[n] = text[n] /\ fails'[n] = fails[n]
           /\ told'[n] = told[n] /\ missed'[n] = missed[n] /\ silent'[n] = silent[n]
BY DEF TypeOK, UpdateAndCheck, Send, KeepSilent

-----------------------------------------------------------------------------
(* Type correctness. *)

LEMMA TypeInit == Init => TypeOK
BY StatsAssumption DEF Init, TypeOK

LEMMA TypeUpdate ==
    ASSUME TypeOK, NEW m \in Monitors, NEW error \in Texts \cup {NoError},
           UpdateAndCheck(m, error)
    PROVE  /\ text' \in [Monitors -> Texts \cup {NoError}]
           /\ fails' \in [Monitors -> 0 .. RenotifyEvery - 1]
           /\ told' \in [Monitors -> {"nothing", "broken", "recovered"}]
           /\ missed' \in [Monitors -> BOOLEAN]
           /\ silent' \in [Monitors -> 0 .. RenotifyEvery]
           /\ faults' \in 0 .. MaxFaults
<1> USE StatsAssumption DEF TypeOK
<1>1. text' \in [Monitors -> Texts \cup {NoError}]
  BY DEF UpdateAndCheck
<1>2. fails' \in [Monitors -> 0 .. RenotifyEvery - 1]
  BY NewCount
<1>3. CASE ShouldNotify(m, error)
  <2>1. PICK message \in {"recovered", "broken"} : Send(m, message)
    BY <1>3 DEF UpdateAndCheck
  <2>2. told' \in [Monitors -> {"nothing", "broken", "recovered"}]
    BY <2>1 DEF Send
  <2>3. missed' \in [Monitors -> BOOLEAN]
    BY <2>1 DEF Send
  <2>4. silent' \in [Monitors -> 0 .. RenotifyEvery]
    BY <2>1 DEF Send
  <2>5. faults' \in 0 .. MaxFaults
    BY <2>1 DEF Send, Fault
  <2>6. QED
    BY <1>1, <1>2, <2>2, <2>3, <2>4, <2>5
<1>4. CASE ~ShouldNotify(m, error)
  <2>1. KeepSilent(m, error)
    BY <1>4 DEF UpdateAndCheck
  <2>2. QED
    BY <1>1, <1>2, <2>1 DEF KeepSilent
<1>5. QED
  BY <1>3, <1>4

LEMMA TypeStep == TypeOK /\ [Next]_vars => TypeOK'
<1> SUFFICES ASSUME TypeOK, [Next]_vars PROVE TypeOK'
  OBVIOUS
<1> USE StatsAssumption DEF TypeOK, sources, stats, history
<1>1. CASE UNCHANGED vars
  BY <1>1 DEF vars
<1>2. ASSUME NEW m \in Monitors, Change(m) PROVE TypeOK'
  BY <1>2 DEF Change, Ways
<1>3. ASSUME NEW m \in Monitors, Render(m) PROVE TypeOK'
  BY <1>3 DEF Render
<1>4. CASE Switch
  <2>1. aiOn' \in BOOLEAN
    BY <1>4, (~aiOn) \in BOOLEAN, Zenon DEF Switch
  <2>2. QED
    BY <1>4, <2>1 DEF Switch
<1>5. ASSUME NEW m \in Monitors, Check(m) PROVE TypeOK'
  <2>1. PICK error \in Texts \cup {NoError} : UpdateAndCheck(m, error)
    BY <1>5, CheckEffect
  <2>2. UNCHANGED sources /\ todo' = todo \ {m}
    BY <1>5 DEF Check
  <2>3. /\ text' \in [Monitors -> Texts \cup {NoError}]
        /\ fails' \in [Monitors -> 0 .. RenotifyEvery - 1]
        /\ told' \in [Monitors -> {"nothing", "broken", "recovered"}]
        /\ missed' \in [Monitors -> BOOLEAN]
        /\ silent' \in [Monitors -> 0 .. RenotifyEvery]
        /\ faults' \in 0 .. MaxFaults
    BY <2>1, TypeUpdate
  <2>4. QED
    BY <2>2, <2>3
<1>6. CASE BeginRun
  BY <1>6 DEF BeginRun
<1>7. CASE Restart
  BY <1>7 DEF Restart, Fault
<1>8. QED
  BY <1>1, <1>2, <1>3, <1>4, <1>5, <1>6, <1>7 DEF Next

(* Type correctness: in every behaviour the variables keep their types.     *)
THEOREM TypeCorrect == Spec => []TypeOK
<1>1. QED
  BY TypeInit, TypeStep, PTL DEF Spec

-----------------------------------------------------------------------------
(* What the admin knows. *)

(* An error has been kept from the admin for no longer than it has lasted.  *)
SilentNoLongerThanFailing == \A m \in Monitors : silent[m] <= fails[m]

Inv ==
    /\ TypeOK
    /\ KnowsUnlessMissed
    /\ SilentNoLongerThanFailing

LEMMA InvInit == Init => Inv
<1> SUFFICES ASSUME Init PROVE Inv
  OBVIOUS
<1>1. KnowsUnlessMissed
  BY DEF Init, KnowsUnlessMissed
<1>2. SilentNoLongerThanFailing
  BY DEF Init, SilentNoLongerThanFailing
<1>3. QED
  BY <1>1, <1>2, TypeInit DEF Inv

LEMMA InvCheck ==
    ASSUME Inv, NEW m \in Monitors, Check(m)
    PROVE  KnowsUnlessMissed' /\ SilentNoLongerThanFailing'
<1>1. PICK error \in Texts \cup {NoError} : UpdateAndCheck(m, error)
  BY CheckEffect
<1>2. TypeOK /\ TypeOK'
  BY TypeStep DEF Inv, Next
<1>3. ASSUME NEW n \in Monitors
      PROVE  /\ ~missed'[n] => (told'[n] = "broken" <=> text'[n] # NoError)
             /\ silent'[n] <= fails'[n]
  <2>1. CASE n = m
    <3>1. ~missed[m] => (told[m] = "broken" <=> text[m] # NoError)
      BY DEF Inv, KnowsUnlessMissed
    <3>2. silent[m] <= fails[m] /\ silent[m] \in Nat /\ fails[m] \in Nat
      BY <1>2, StatsAssumption DEF Inv, SilentNoLongerThanFailing, TypeOK
    <3>3. QED
      BY <1>1, <1>2, <2>1, <3>1, <3>2, UpdateOwn, StatsAssumption
  <2>2. CASE n # m
    BY <1>1, <1>2, <2>2, UpdateOther DEF Inv, KnowsUnlessMissed, SilentNoLongerThanFailing
  <2>3. QED
    BY <2>1, <2>2
<1>4. QED
  BY <1>3 DEF KnowsUnlessMissed, SilentNoLongerThanFailing

LEMMA InvStep == Inv /\ [Next]_vars => Inv'
<1> SUFFICES ASSUME Inv, [Next]_vars
             PROVE  KnowsUnlessMissed' /\ SilentNoLongerThanFailing'
  BY TypeStep DEF Inv
<1> USE DEF Inv, KnowsUnlessMissed, SilentNoLongerThanFailing, sources, stats, history
<1>1. CASE UNCHANGED vars
  BY <1>1 DEF vars
<1>2. CASE BeginRun \/ Switch \/ \E m \in Monitors : Change(m) \/ Render(m)
  BY <1>2 DEF BeginRun, Switch, Change, Render
<1>3. ASSUME NEW m \in Monitors, Check(m)
      PROVE  KnowsUnlessMissed' /\ SilentNoLongerThanFailing'
  BY <1>3, InvCheck
<1>4. CASE Restart
  <2>1. ASSUME NEW m \in Monitors, ~missed'[m] PROVE told'[m] = "broken" <=> text'[m] # NoError
    <3>1. missed'[m] = (missed[m] \/ text[m] # NoError) /\ text'[m] = NoError /\ told' = told
      BY <1>4 DEF Restart
    <3>2. ~missed[m] /\ text[m] = NoError
      BY <2>1, <3>1
    <3>3. QED
      BY <3>1, <3>2
  <2>2. SilentNoLongerThanFailing'
    BY <1>4 DEF Restart
  <2>3. QED
    BY <2>1, <2>2
<1>5. QED
  BY <1>1, <1>2, <1>3, <1>4 DEF Next

(* The inductive invariant. *)
THEOREM Invariance == Spec => []Inv
<1>1. QED
  BY InvInit, InvStep, PTL DEF Spec

(* The admin's last message tells what the last check found, unless a       *)
(* message was lost or a restart forgot the error: however errors come,     *)
(* change and go (changed, wasError and shouldNotify of updateAndCheck).    *)
THEOREM AdminKnows == Spec => []KnowsUnlessMissed
<1>1. Inv => KnowsUnlessMissed
  BY DEF Inv
<1>2. QED
  BY <1>1, Invariance, PTL

(* Fewer than adminRenotifyEvery checks in a row fail in silence, whatever  *)
(* adminRenotifyEvery is and whatever the errors say.                       *)
THEOREM NeverSilent == Spec => []NeverSilentForLong
<1>1. Inv => NeverSilentForLong
  BY StatsAssumption DEF Inv, TypeOK, SilentNoLongerThanFailing, NeverSilentForLong
<1>2. QED
  BY <1>1, Invariance, PTL

-----------------------------------------------------------------------------
(* The ways to a page. *)

(* FlareSolverr's rounds end with one of them, the first that gives a       *)
(* document if any does.                                                    *)
LEMMA LastRoundIsLast ==
    ASSUME NEW solver \in [Rounds -> Tries]
    PROVE  /\ LastRound(solver) \in Rounds
           /\ Answers(solver[LastRound(solver)]) \/ LastRound(solver) = flareSolverrRetries
           /\ \A j \in 1 .. LastRound(solver) - 1 : ~Answers(solver[j])
<1> DEFINE Last(i) == /\ Answers(solver[i]) \/ i = flareSolverrRetries
                      /\ \A j \in 1 .. i - 1 : ~Answers(solver[j])
<1>1. Rounds = {1, 2, 3}
  BY DEF Rounds, flareSolverrRetries
<1>2. \E i \in Rounds : Last(i)
  <2>1. CASE Answers(solver[1])
    BY <1>1, <2>1
  <2>2. CASE ~Answers(solver[1]) /\ Answers(solver[2])
    <3>1. Last(2)
      BY <2>2
    <3>2. QED
      BY <1>1, <3>1
  <2>3. CASE ~Answers(solver[1]) /\ ~Answers(solver[2])
    <3>1. Last(3)
      BY <2>3 DEF flareSolverrRetries
    <3>2. QED
      BY <1>1, <3>1
  <2>4. QED
    BY <2>1, <2>2, <2>3
<1>3. LastRound(solver) = CHOOSE i \in Rounds : Last(i)
  BY DEF LastRound
<1>4. LastRound(solver) \in Rounds /\ Last(LastRound(solver))
  BY <1>2, <1>3
<1>5. QED
  BY <1>4

(* A fetch gives a page if and only if one of the ways works that the bot   *)
(* may take: a way before it that fails, hangs or gives a challenge page    *)
(* does not hide it, whatever FlareSolverr's other rounds give (Fetch,      *)
(* isRealHTML, fetchFlareSolverr).                                          *)
THEOREM OneWayToFetch ==
    ASSUME NEW ways \in SUBSET Ways, NEW c \in BOOLEAN, NEW met \in Meets(ways)
    PROVE  Fetched(met, c) <=> \E way \in ways : way # "solver" \/ c
<1>1. met \in Meetings
  BY DEF Meets
<1>2. (Real(met.tls) <=> "tls" \in ways) /\ (Real(met.curl) <=> "curl" \in ways)
  BY DEF Meets
<1>3. met.solver \in [Rounds -> Tries]
  BY <1>1 DEF Meetings
<1>4. Real(met.solver[LastRound(met.solver)]) <=> "solver" \in ways
  <2>1. CASE "solver" \in ways
    BY <2>1 DEF Meets
  <2>2. CASE "solver" \notin ways
    <3>1. \A i \in Rounds : ~Real(met.solver[i])
      BY <2>2 DEF Meets
    <3>2. QED
      BY <1>3, <2>2, <3>1, LastRoundIsLast
  <2>3. QED
    BY <2>1, <2>2
<1>5. QED
  BY <1>2, <1>4 DEF Fetched, Ways
=============================================================================
