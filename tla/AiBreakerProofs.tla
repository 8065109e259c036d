--------------------------- MODULE AiBreakerProofs --------------------------
(***************************************************************************)
(* Proofs about module AiBreaker, for any number of goroutines, limit of   *)
(* failures, cooldown and number of retries: what whoever interleaves with *)
(* whom cannot disturb, and what the breaker is for while nobody does.     *)
(***************************************************************************)
EXTENDS AiBreaker, FiniteSetTheorems, TLAPS, WellFoundedInduction

-----------------------------------------------------------------------------
(* Induction over the natural numbers, for a set instead of a predicate.    *)

LEMMA SetInduction ==
    ASSUME NEW S, 0 \in S, \A n \in Nat : n \in S => n + 1 \in S
    PROVE  Nat \subseteq S
<1> DEFINE Less == {ss \in Nat \X Nat : ss[1] < ss[2]}
           T == Nat \ S
<1>1. IsWellFoundedOn(Less, Nat)
  BY NatLessThanWellFounded DEF OpToRel
<1>2. SUFFICES ASSUME T # {} PROVE FALSE
  OBVIOUS
<1>3. T \subseteq Nat
  OBVIOUS
<1> HIDE DEF T, Less
<1>4. PICK x \in T : \A y \in T : <<y, x>> \notin Less
  BY <1>1, <1>2, <1>3, WFMin
<1>5. x \in Nat /\ x \notin S
  BY DEF T
<1>6. x # 0
  BY <1>5
<1>7. x - 1 \in Nat /\ x - 1 \notin S
  BY <1>5, <1>6
<1>8. <<x - 1, x>> \in Less
  BY <1>5, <1>7 DEF Less
<1>9. QED
  BY <1>4, <1>7, <1>8 DEF T

-----------------------------------------------------------------------------
(* cooldownFor. *)

(* A function is what the recursion describes, as far as n. *)
Doubles(f, n) ==
    \A i \in 0 .. n : f[i] = IF i <= 1 THEN 1 ELSE Lesser(2 * f[i - 1], CooldownMax)

LEMMA DoublingExists ==
    \A n \in Nat : \E f \in [0 .. n -> 1 .. CooldownMax] : Doubles(f, n)
<1> DEFINE S == {n \in Nat : \E f \in [0 .. n -> 1 .. CooldownMax] : Doubles(f, n)}
<1> USE BreakerAssumption
<1>1. 0 \in S
  <2>1. [i \in 0 .. 0 |-> 1] \in [0 .. 0 -> 1 .. CooldownMax]
    OBVIOUS
  <2>2. Doubles([i \in 0 .. 0 |-> 1], 0)
    BY DEF Doubles
  <2>3. QED
    BY <2>1, <2>2
<1>2. ASSUME NEW n \in Nat, n \in S PROVE n + 1 \in S
  <2>1. PICK f \in [0 .. n -> 1 .. CooldownMax] : Doubles(f, n)
    BY <1>2
  <2> DEFINE v == IF n = 0 THEN 1 ELSE Lesser(2 * f[n], CooldownMax)
             g == [i \in 0 .. n + 1 |-> IF i = n + 1 THEN v ELSE f[i]]
  <2>2. v \in 1 .. CooldownMax
    <3>1. f[n] \in 1 .. CooldownMax
      OBVIOUS
    <3>2. QED
      BY <3>1 DEF Lesser
  <2>3. g \in [0 .. n + 1 -> 1 .. CooldownMax]
    <3> HIDE DEF v
    <3>1. QED
      BY <2>2
  <2>4. Doubles(g, n + 1)
    <3>1. SUFFICES ASSUME NEW i \in 0 .. n + 1
                   PROVE  g[i] = IF i <= 1 THEN 1 ELSE Lesser(2 * g[i - 1], CooldownMax)
      BY DEF Doubles
    <3>2. CASE i = n + 1
      BY <3>2
    <3>3. CASE i # n + 1
      <4>1. i \in 0 .. n
        BY <3>3
      <4>2. g[i] = f[i] /\ (i > 1 => g[i - 1] = f[i - 1])
        BY <4>1
      <4>3. QED
        BY <2>1, <4>1, <4>2 DEF Doubles
    <3>4. QED
      BY <3>2, <3>3
  <2>5. QED
    BY <2>3, <2>4
<1> HIDE DEF S
<1>3. Nat \subseteq S
  BY <1>1, <1>2, SetInduction
<1>4. QED
  BY <1>3 DEF S

(* The cooldown of the first trip and of the next one. *)
LEMMA CooldownDef ==
    /\ CooldownFor[0] = 1
    /\ \A n \in 0 .. MaxStreak - 1 :
          CooldownFor[n + 1] = IF n = 0 THEN 1 ELSE Lesser(2 * CooldownFor[n], CooldownMax)
    /\ CooldownFor = [n \in 0 .. MaxStreak |-> CooldownFor[n]]
<1> DEFINE Def(f) == [n \in 0 .. MaxStreak |->
                        IF n <= 1 THEN 1 ELSE Lesser(2 * f[n - 1], CooldownMax)]
<1>1. PICK f \in [0 .. MaxStreak -> 1 .. CooldownMax] : Doubles(f, MaxStreak)
  BY DoublingExists, BreakerAssumption
<1>2. f = Def(f)
  BY <1>1 DEF Doubles
<1>3. CooldownFor = CHOOSE g : g = Def(g)
  BY DEF CooldownFor
<1>4. CooldownFor = Def(CooldownFor)
  BY <1>2, <1>3
<1>5. \A i \in 0 .. MaxStreak :
        CooldownFor[i] = IF i <= 1 THEN 1 ELSE Lesser(2 * CooldownFor[i - 1], CooldownMax)
  BY <1>4
<1>6. CooldownFor[0] = 1
  BY <1>5, BreakerAssumption
<1>7. ASSUME NEW n \in 0 .. MaxStreak - 1
      PROVE  CooldownFor[n + 1] = IF n = 0 THEN 1 ELSE Lesser(2 * CooldownFor[n], CooldownMax)
  <2>1. n + 1 \in 0 .. MaxStreak /\ (n + 1 <= 1 <=> n = 0) /\ (n + 1) - 1 = n
    BY BreakerAssumption
  <2>2. QED
    BY <1>5, <2>1
<1>8. CooldownFor = [n \in 0 .. MaxStreak |-> CooldownFor[n]]
  BY <1>4
<1>9. QED
  BY <1>6, <1>7, <1>8

(* The cooldown is defined for every number of trips, never below its base  *)
(* and never above its maximum.                                             *)
LEMMA CooldownType == CooldownFor \in [0 .. MaxStreak -> 1 .. CooldownMax]
<1> DEFINE S == {n \in Nat : n <= MaxStreak => CooldownFor[n] \in 1 .. CooldownMax}
<1> USE BreakerAssumption
<1>1. 0 \in S
  BY CooldownDef
<1>2. ASSUME NEW n \in Nat, n \in S PROVE n + 1 \in S
  <2>1. CASE n + 1 <= MaxStreak
    <3>1. CooldownFor[n] \in 1 .. CooldownMax
      BY <1>2, <2>1
    <3>2. CooldownFor[n + 1] = IF n = 0 THEN 1 ELSE Lesser(2 * CooldownFor[n], CooldownMax)
      <4>1. n \in 0 .. MaxStreak - 1
        BY <2>1
      <4>2. QED
        BY <4>1, CooldownDef
    <3>3. QED
      BY <3>1, <3>2 DEF Lesser
  <2>2. CASE ~(n + 1 <= MaxStreak)
    BY <2>2
  <2>3. QED
    BY <2>1, <2>2
<1> HIDE DEF S
<1>3. Nat \subseteq S
  BY <1>1, <1>2, SetInduction
<1>4. \A n \in 0 .. MaxStreak : CooldownFor[n] \in 1 .. CooldownMax
  BY <1>3 DEF S
<1>5. QED
  BY <1>4, CooldownDef

(* cooldownFor: it begins with the base, never shrinks from one trip to the *)
(* next, and ends at the maximum: the shift neither overflows nor stops     *)
(* short.                                                                   *)
THEOREM CooldownGrows ==
    /\ CooldownFor[0] = 1
    /\ \A n \in 0 .. MaxStreak - 1 : CooldownFor[n] <= CooldownFor[n + 1]
    /\ \A n \in 0 .. MaxStreak : CooldownFor[n] \in 1 .. CooldownMax
    /\ CooldownFor[MaxStreak] = CooldownMax
<1> USE BreakerAssumption
<1>1. CooldownFor[0] = 1
  BY CooldownDef
<1>2. ASSUME NEW n \in 0 .. MaxStreak - 1 PROVE CooldownFor[n] <= CooldownFor[n + 1]
  <2>1. CooldownFor[n] \in 1 .. CooldownMax
    BY CooldownType
  <2>2. CooldownFor[n + 1] = IF n = 0 THEN 1 ELSE Lesser(2 * CooldownFor[n], CooldownMax)
    BY CooldownDef
  <2>3. QED
    BY <1>1, <2>1, <2>2 DEF Lesser
<1>3. QED
  BY <1>1, <1>2, CooldownType, SaturationAssumption

-----------------------------------------------------------------------------
(* The attempts of a request. *)

Ends(reply) == reply \in {"answer", "refused"}

(* There is a first attempt that ends them, or the last one does.           *)
LEMMA LastAttemptIsLast ==
    ASSUME NEW replies \in Attempts
    PROVE  /\ LastAttempt(replies) \in 0 .. MaxRetries
           /\ Ends(replies[LastAttempt(replies)]) \/ LastAttempt(replies) = MaxRetries
           /\ \A j \in 0 .. LastAttempt(replies) - 1 : ~Ends(replies[j])
<1> DEFINE Last(i) == /\ Ends(replies[i]) \/ i = MaxRetries
                      /\ \A j \in 0 .. i - 1 : ~Ends(replies[j])
           Quiet(n) == \A j \in 0 .. n - 1 : ~Ends(replies[j])
           S == {n \in Nat : n <= MaxRetries => Quiet(n)}
<1> USE BreakerAssumption
<1>1. \E i \in 0 .. MaxRetries : Last(i)
  <2>1. SUFFICES ASSUME \A i \in 0 .. MaxRetries : ~Last(i) PROVE FALSE
    OBVIOUS
  <2>2. 0 \in S
    OBVIOUS
  <2>3. ASSUME NEW n \in Nat, n \in S PROVE n + 1 \in S
    <3>1. SUFFICES ASSUME n + 1 <= MaxRetries PROVE Quiet(n + 1)
      OBVIOUS
    <3>2. Quiet(n) /\ ~Last(n)
      BY <2>1, <2>3, <3>1
    <3>3. ~Ends(replies[n])
      BY <3>2
    <3>4. QED
      BY <3>2, <3>3
  <2> HIDE DEF S
  <2>4. Nat \subseteq S
    BY <2>2, <2>3, SetInduction
  <2>5. Quiet(MaxRetries)
    BY <2>4 DEF S
  <2>6. Last(MaxRetries)
    BY <2>5
  <2>7. QED
    BY <2>1, <2>6
<1>2. LastAttempt(replies) = CHOOSE i \in 0 .. MaxRetries : Last(i)
  BY DEF LastAttempt, Ends
<1> HIDE DEF Last
<1>3. LastAttempt(replies) \in 0 .. MaxRetries /\ Last(LastAttempt(replies))
  BY <1>1, <1>2
<1>4. QED
  BY <1>3 DEF Last

(* Complete succeeds if and only if some attempt is answered and the key    *)
(* was not refused before it, however many retries there are and whatever   *)
(* else the attempts come to (do; the loop of Complete).                    *)
THEOREM OneAnswerIsEnough ==
    ASSUME NEW replies \in Attempts
    PROVE  replies[LastAttempt(replies)] = "answer"
             <=> \E i \in 0 .. MaxRetries :
                    /\ replies[i] = "answer"
                    /\ \A j \in 0 .. i - 1 : replies[j] # "refused"
<1> DEFINE last == LastAttempt(replies)
<1>1. /\ last \in 0 .. MaxRetries
      /\ Ends(replies[last]) \/ last = MaxRetries
      /\ \A j \in 0 .. last - 1 : ~Ends(replies[j])
  BY LastAttemptIsLast
<1> HIDE DEF last
<1> USE BreakerAssumption DEF Ends
<1>2. ASSUME replies[last] = "answer"
      PROVE  \E i \in 0 .. MaxRetries : /\ replies[i] = "answer"
                                        /\ \A j \in 0 .. i - 1 : replies[j] # "refused"
  BY <1>1, <1>2
<1>3. ASSUME NEW i \in 0 .. MaxRetries, replies[i] = "answer",
             \A j \in 0 .. i - 1 : replies[j] # "refused"
      PROVE  replies[last] = "answer"
  <2>1. ~(i \in 0 .. last - 1)
    BY <1>1, <1>3
  <2>2. last <= i
    BY <1>1, <2>1
  <2>3. CASE last = i
    BY <1>3, <2>3
  <2>4. CASE last # i
    <3>1. last \in 0 .. i - 1
      BY <1>1, <2>2, <2>4
    <3>2. replies[last] # "refused" /\ last # MaxRetries
      BY <1>3, <3>1
    <3>3. QED
      BY <1>1, <3>2
  <2>5. QED
    BY <2>3, <2>4
<1>4. QED
  BY <1>2, <1>3 DEF last

-----------------------------------------------------------------------------
(* Type correctness. *)

LEMMA TypeInit == Init => TypeOK
<1> SUFFICES ASSUME Init PROVE TypeOK
  OBVIOUS
<1>1. consecutiveFailures \in 0 .. FailureLimit /\ age \in 0 .. CooldownMax
        /\ disableStreak \in 0 .. MaxStreak /\ alerts \in Nat
  BY BreakerAssumption DEF Init
<1>2. since \in [Callers -> 0 .. CooldownMax]
  BY BreakerAssumption DEF Init
<1>3. pc \in [Callers -> Labels] /\ fatal \in [Callers -> BOOLEAN]
  BY DEF Init, Labels
<1>4. QED
  BY <1>1, <1>2, <1>3 DEF Init, TypeOK

(* A goroutine goes on to a label that exists.                              *)
LEMMA Labelled ==
    ASSUME TypeOK, NEW c \in Callers, NEW label \in Labels, Goto(c, label)
    PROVE  /\ pc' \in [Callers -> Labels]
           /\ pc'[c] = label
           /\ \A d \in Callers : d # c => pc'[d] = pc[d]
BY DEF TypeOK, Goto

LEMMA LabelsIncludeAll ==
    {"idle", "enabled?", "request", "hard?", "since", "streak", "reset", "enable",
     "disable", "date", "count", "harden", "alert", "disabled?", "recover", "unmute",
     "unstreak", "clear"} \subseteq Labels
BY DEF Labels, InIsEnabled, InFailure, InSuccess

(* Where a step of goroutine c leads to. *)
LEMMA CallerMoves ==
    ASSUME TypeOK, NEW c \in Callers, Call(c) \/ Complete(c)
    PROVE  \E label \in Labels : Goto(c, label)
<1> USE LabelsIncludeAll DEF Granted
<1>1. CASE Call(c)
  BY <1>1 DEF Call
<1>2. CASE IsEnabled(c)
  BY <1>2 DEF IsEnabled, LoadDisabled, LoadHard, LoadSince, LoadStreak, ResetFailures, Enable
<1>3. CASE Fail(c)
  BY <1>3 DEF Fail, RequestFails, Disable, Date, Count, Harden, Alert
<1>4. CASE Succeed(c)
  BY <1>4 DEF Succeed, RequestSucceeds, StillDisabled, Recover, Unmute, Unstreak, Clear
<1>5. QED
  BY <1>1, <1>2, <1>3, <1>4 DEF Complete

LEMMA TypeStep == TypeOK /\ [Next]_vars => TypeOK'
<1> SUFFICES ASSUME TypeOK, [Next]_vars PROVE TypeOK'
  OBVIOUS
<1> USE BreakerAssumption
<1>1. CASE UNCHANGED vars
  BY <1>1 DEF vars, TypeOK
<1>2. CASE Tick
  BY <1>2 DEF Tick, TypeOK, locals
<1>3. ASSUME NEW c \in Callers, Call(c) \/ Complete(c) PROVE TypeOK'
  <2>1. pc' \in [Callers -> Labels]
    BY <1>3, CallerMoves, Labelled
  <2>2. CASE Call(c)
    <3>1. overlapped' \in BOOLEAN
      BY <2>2, (\E d \in Callers : pc[d] # "idle") \in BOOLEAN, Zenon DEF Call, TypeOK
    <3>2. UNCHANGED <<fields, locals, alerts, late>>
      BY <2>2 DEF Call
    <3>3. QED
      BY <2>1, <3>1, <3>2 DEF TypeOK, fields, locals
  <2>3. CASE Complete(c)
    <3>1. CASE IsEnabled(c)
      <4>1. since' \in [Callers -> 0 .. CooldownMax]
        BY <3>1 DEF IsEnabled, LoadDisabled, LoadHard, LoadSince, LoadStreak,
                    ResetFailures, Enable, TypeOK, locals
      <4>2. consecutiveFailures' \in 0 .. FailureLimit
        BY <3>1 DEF IsEnabled, LoadDisabled, LoadHard, LoadSince, LoadStreak,
                    ResetFailures, Enable, TypeOK, fields
      <4>3. disabled' \in BOOLEAN
        BY <3>1, Zenon DEF IsEnabled, LoadDisabled, LoadHard, LoadSince, LoadStreak,
                    ResetFailures, Enable, TypeOK, fields
      <4>4. UNCHANGED <<age, hardDisabled, notified, disableStreak, fatal, alerts, late>>
        BY <3>1 DEF IsEnabled, LoadDisabled, LoadHard, LoadSince, LoadStreak,
                    ResetFailures, Enable, fields, locals
      <4>5. QED
        BY <2>1, <2>3, <4>1, <4>2, <4>3, <4>4 DEF TypeOK, Complete
    <3>2. CASE Fail(c)
      <4>1. fatal' \in [Callers -> BOOLEAN]
        <5>1. CASE RequestFails(c)
          <6>1. PICK error : fatal' = [fatal EXCEPT ![c] = error \in HardFatal]
            BY <5>1 DEF RequestFails
          <6>2. CASE error \in HardFatal
            <7>1. fatal' = [fatal EXCEPT ![c] = TRUE]
              BY <6>1, <6>2, Zenon
            <7>2. QED
              BY <7>1 DEF TypeOK
          <6>3. CASE error \notin HardFatal
            <7>1. fatal' = [fatal EXCEPT ![c] = FALSE]
              BY <6>1, <6>3, (error \in HardFatal) = FALSE
            <7>2. QED
              BY <7>1 DEF TypeOK
          <6>4. QED
            BY <6>2, <6>3
        <5>2. CASE ~RequestFails(c)
          <6>1. fatal' = fatal
            BY <3>2, <5>2 DEF Fail, Disable, Date, Count, Harden, Alert, locals
          <6>2. QED
            BY <6>1 DEF TypeOK
        <5>3. QED
          BY <5>1, <5>2
      <4>2. /\ consecutiveFailures' \in 0 .. FailureLimit
            /\ age' \in 0 .. CooldownMax
            /\ disableStreak' \in 0 .. MaxStreak
        BY <3>2 DEF Fail, RequestFails, Disable, Date, Count, Harden, Alert, TypeOK, Lesser
      <4>3. disabled' \in BOOLEAN /\ hardDisabled' \in BOOLEAN /\ notified' \in BOOLEAN
        BY <3>2, Zenon DEF Fail, RequestFails, Disable, Date, Count, Harden, Alert, TypeOK
      <4>4. alerts' \in Nat /\ late' \subseteq Callers
        BY <3>2 DEF Fail, RequestFails, Disable, Date, Count, Harden, Alert, Announce,
                    Recovering, TypeOK
      <4>5. UNCHANGED since
        BY <3>2 DEF Fail, RequestFails, Disable, Date, Count, Harden, Alert, locals
      <4>6. QED
        BY <2>1, <2>3, <4>1, <4>2, <4>3, <4>4, <4>5 DEF TypeOK, Complete
    <3>3. CASE Succeed(c)
      <4>1. /\ consecutiveFailures' \in 0 .. FailureLimit
            /\ disableStreak' \in 0 .. MaxStreak
            /\ alerts' \in Nat /\ late' \subseteq Callers
        BY <3>3 DEF Succeed, RequestSucceeds, StillDisabled, Recover, Unmute, Unstreak,
                    Clear, TypeOK, fields
      <4>2. disabled' \in BOOLEAN /\ notified' \in BOOLEAN
        BY <3>3, Zenon DEF Succeed, RequestSucceeds, StillDisabled, Recover, Unmute,
                    Unstreak, Clear, TypeOK, fields
      <4>3. UNCHANGED <<age, hardDisabled, since, fatal>>
        BY <3>3 DEF Succeed, RequestSucceeds, StillDisabled, Recover, Unmute, Unstreak,
                    Clear, fields, locals
      <4>4. QED
        BY <2>1, <2>3, <4>1, <4>2, <4>3 DEF TypeOK, Complete
    <3>4. QED
      BY <2>3, <3>1, <3>2, <3>3 DEF Complete
  <2>4. QED
    BY <1>3, <2>2, <2>3
<1>4. QED
  BY <1>1, <1>2, <1>3 DEF Next

(* Type correctness: in every behaviour the variables keep their types.     *)
THEOREM TypeCorrect == Spec => []TypeOK
<1>1. QED
  BY TypeInit, TypeStep, PTL DEF Spec

-----------------------------------------------------------------------------
(* Whoever interleaves with whom. *)

(* Since the last success nobody has joined those who may still reset the   *)
(* alert.  An alert is paid for by one of them who has: the first is free,  *)
(* and while notified is reset one more is due.                             *)
Due == IF notified THEN 0 ELSE 1

AlertsCounted ==
    alerts > 0 =>
        /\ Recovering \subseteq late
        /\ alerts + Cardinality(Recovering) + Due <= 1 + Cardinality(late)

LEMMA RecoveringFinite ==
    /\ IsFiniteSet(Recovering) /\ Cardinality(Recovering) \in Nat
    /\ \A S \in SUBSET Callers : IsFiniteSet(S) /\ Cardinality(S) \in Nat
<1>1. Recovering \in SUBSET Callers
  BY DEF Recovering
<1>2. \A S \in SUBSET Callers : IsFiniteSet(S) /\ Cardinality(S) \in Nat
  BY FS_Subset, FS_CardinalityType, BreakerAssumption
<1>3. QED
  BY <1>1, <1>2

(* Who may still reset the alert, after a step of c to another label.       *)
LEMMA RecoveringMoves ==
    ASSUME TypeOK, NEW c \in Callers, NEW label \in Labels, Goto(c, label)
    PROVE  Recovering' = IF label \in {"disabled?", "recover", "unmute"}
                         THEN Recovering \cup {c} ELSE Recovering \ {c}
<1>1. /\ pc'[c] = label
      /\ \A d \in Callers : d # c => pc'[d] = pc[d]
  BY Labelled
<1>2. QED
  BY <1>1 DEF Recovering

(* Arithmetic of the count. *)
LEMMA StillWithin ==
    ASSUME NEW a \in Nat, NEW n \in Nat, NEW d \in Nat, NEW m \in Nat, NEW e \in Nat,
           NEW l \in Nat, a + n + d <= 1 + l, m + e <= n + d
    PROVE  a + m + e <= 1 + l
OBVIOUS

LEMMA OneMore ==
    ASSUME NEW a \in Nat, NEW n \in Nat, NEW l \in Nat, a + n + 1 <= 1 + l
    PROVE  (a + 1) + n + 0 <= 1 + l
OBVIOUS

(* While nobody is alerted and those who may reset the alert do not become  *)
(* more, the count stays within its bound.                                  *)
LEMMA CountKept ==
    ASSUME AlertsCounted, TypeOK, UNCHANGED <<alerts, late>>,
           Recovering' \subseteq Recovering,
           Cardinality(Recovering') + Due' <= Cardinality(Recovering) + Due
    PROVE  AlertsCounted'
<1> DEFINE n == Cardinality(Recovering')
           due == Due'
<1>1. n \in Nat /\ due \in Nat
  BY RecoveringFinite, Recovering' \in SUBSET Callers DEF Recovering, Due
<1>2. Due \in Nat /\ Cardinality(Recovering) \in Nat /\ alerts \in Nat
        /\ Cardinality(late) \in Nat
  BY RecoveringFinite DEF Due, TypeOK
<1>3. n + due <= Cardinality(Recovering) + Due
  OBVIOUS
<1> HIDE DEF n, due
<1>4. alerts > 0 => alerts + n + due <= 1 + Cardinality(late)
  <2>1. SUFFICES ASSUME alerts > 0 PROVE alerts + n + due <= 1 + Cardinality(late)
    OBVIOUS
  <2>2. alerts + Cardinality(Recovering) + Due <= 1 + Cardinality(late)
    BY <2>1 DEF AlertsCounted
  <2>3. QED
    BY <1>1, <1>2, <1>3, <2>2, StillWithin
<1>5. alerts > 0 => Recovering' \subseteq late
  BY DEF AlertsCounted
<1>6. (alerts > 0 => /\ Recovering \subseteq late
                     /\ alerts + Cardinality(Recovering) + Due <= 1 + Cardinality(late))'
  BY <1>4, <1>5, Zenon DEF n, due
<1>7. QED
  BY <1>6, Zenon DEF AlertsCounted

LEMMA FewerKept ==
    ASSUME AlertsCounted, TypeOK, UNCHANGED <<alerts, late>>,
           Recovering' \subseteq Recovering, Due' = Due
    PROVE  AlertsCounted'
<1>1. Cardinality(Recovering') <= Cardinality(Recovering)
        /\ Cardinality(Recovering') \in Nat
  BY RecoveringFinite, FS_Subset, FS_CardinalityType
<1>2. Due \in Nat /\ Cardinality(Recovering) \in Nat
  BY RecoveringFinite DEF Due
<1>3. \A m, n, d \in Nat : m <= n => m + d <= n + d
  OBVIOUS
<1>4. Cardinality(Recovering') + Due' <= Cardinality(Recovering) + Due
  BY <1>1, <1>2, <1>3, Zenon
<1>5. QED
  BY <1>4, CountKept

(* The one who alerts has found notified unset.                             *)
LEMMA AlertCounted ==
    ASSUME AlertsCounted, TypeOK, NEW c \in Callers, Alert(c)
    PROVE  AlertsCounted'
<1>1. Recovering' = Recovering
  <2>1. Recovering' = Recovering \ {c}
    BY RecoveringMoves, LabelsIncludeAll DEF Alert
  <2>2. QED
    BY <2>1 DEF Recovering, Alert
<1>2. Due' = 0
  BY DEF Alert, Due
<1>3. CASE notified
  <2>1. UNCHANGED <<alerts, late>> /\ Due = 0
    BY <1>3 DEF Alert, Due
  <2>2. Cardinality(Recovering') + Due' <= Cardinality(Recovering) + Due
    <3>1. \A n \in Nat : n + 0 <= n + 0
      OBVIOUS
    <3>2. QED
      BY <1>1, <1>2, <2>1, <3>1, RecoveringFinite, Zenon
  <2>3. QED
    BY <1>1, <2>1, <2>2, CountKept
<1>4. CASE ~notified
  <2>1. Announce /\ Due = 1
    BY <1>4 DEF Alert, Due
  <2>2. CASE alerts = 0
    <3>1. alerts' = 1 /\ late' = Recovering
      BY <2>1, <2>2 DEF Announce
    <3>2. \A n \in Nat : 1 + n + 0 <= 1 + n
      OBVIOUS
    <3>3. alerts' + Cardinality(Recovering') + Due' <= 1 + Cardinality(late')
      BY <1>1, <1>2, <3>1, <3>2, RecoveringFinite, Zenon
    <3>4. QED
      BY <1>1, <3>1, <3>3, Zenon DEF AlertsCounted
  <2>3. CASE alerts # 0
    <3>1. alerts' = alerts + 1 /\ late' = late /\ alerts \in Nat /\ alerts > 0
      BY <2>1, <2>3 DEF Announce, TypeOK
    <3>2. Recovering \subseteq late
            /\ alerts + Cardinality(Recovering) + 1 <= 1 + Cardinality(late)
      BY <2>1, <3>1 DEF AlertsCounted
    <3>3. (alerts + 1) + Cardinality(Recovering) + 0 <= 1 + Cardinality(late)
      BY <3>1, <3>2, RecoveringFinite, OneMore DEF TypeOK
    <3>4. alerts' + Cardinality(Recovering') + Due' <= 1 + Cardinality(late')
      BY <1>1, <1>2, <3>1, <3>3, Zenon
    <3>5. Recovering' \subseteq late'
      BY <1>1, <3>1, <3>2, Zenon
    <3>6. QED
      BY <3>4, <3>5, Zenon DEF AlertsCounted
  <2>4. QED
    BY <2>2, <2>3
<1>5. QED
  BY <1>3, <1>4

(* A success whose goroutine goes on may reset the alert once.              *)
LEMMA RecoveryCounted ==
    ASSUME AlertsCounted, TypeOK, NEW c \in Callers,
           StillDisabled(c) \/ Recover(c) \/ Unmute(c)
    PROVE  AlertsCounted'
<1>1. UNCHANGED <<alerts, late>>
  BY DEF StillDisabled, Recover, Unmute
<1>2. c \in Recovering
  BY DEF Recovering, StillDisabled, Recover, Unmute
<1>3. CASE StillDisabled(c) \/ Recover(c)
  <2>1. PICK label \in Labels : Goto(c, label)
    BY <1>3, LabelsIncludeAll DEF StillDisabled, Recover
  <2>2. Recovering' \subseteq Recovering
    BY <1>2, <2>1, RecoveringMoves
  <2>3. Due' = Due
    BY <1>3 DEF Due, StillDisabled, Recover, fields
  <2>4. QED
    BY <1>1, <2>2, <2>3, FewerKept
<1>4. CASE Unmute(c)
  <2>1. Recovering' = Recovering \ {c}
    BY <1>4, RecoveringMoves, LabelsIncludeAll DEF Unmute
  <2>2. Cardinality(Recovering') = Cardinality(Recovering) - 1
    BY <1>2, <2>1, RecoveringFinite, FS_RemoveElement
  <2>3. Due' = 1 /\ Due \in Nat
    BY <1>4 DEF Due, Unmute
  <2>4. Cardinality(Recovering') + Due' <= Cardinality(Recovering) + Due
    <3>1. \A n \in Nat, d \in Nat : (n - 1) + 1 <= n + d
      OBVIOUS
    <3>2. QED
      BY <2>2, <2>3, <3>1, RecoveringFinite, Zenon
  <2>5. QED
    BY <1>1, <2>1, <2>4, CountKept
<1>5. QED
  BY <1>3, <1>4

LEMMA AlertsStep == TypeOK /\ AlertsCounted /\ [Next]_vars => AlertsCounted'
<1> SUFFICES ASSUME TypeOK, AlertsCounted, [Next]_vars PROVE AlertsCounted'
  OBVIOUS
<1>1. CASE UNCHANGED vars \/ Tick
  <2>1. UNCHANGED <<alerts, late, notified, pc>>
    BY <1>1 DEF vars, Tick
  <2>2. Recovering' = Recovering /\ Due' = Due
    BY <2>1 DEF Recovering, Due
  <2>3. QED
    BY <2>1, <2>2, FewerKept
<1>2. ASSUME NEW c \in Callers, Call(c) \/ Complete(c) PROVE AlertsCounted'
  <2>1. PICK label \in Labels : Goto(c, label)
    BY <1>2, CallerMoves
  <2>2. CASE Alert(c)
    BY <2>2, AlertCounted
  <2>3. CASE RequestSucceeds(c)
    BY <2>3 DEF RequestSucceeds, AlertsCounted
  <2>4. CASE StillDisabled(c) \/ Recover(c) \/ Unmute(c)
    BY <2>4, RecoveryCounted
  <2>5. CASE Call(c) \/ IsEnabled(c) \/ RequestFails(c) \/ Disable(c) \/ Date(c)
               \/ Count(c) \/ Harden(c) \/ Unstreak(c) \/ Clear(c)
    <3>1. UNCHANGED <<alerts, late, notified>>
      BY <2>5 DEF Call, IsEnabled, LoadDisabled, LoadHard, LoadSince, LoadStreak,
                  ResetFailures, Enable, RequestFails, Disable, Date, Count, Harden,
                  Unstreak, Clear, fields
    <3>2. label \notin {"disabled?", "recover", "unmute"}
      <4>1. pc'[c] = label
        BY <2>1, Labelled
      <4>2. \A l : Goto(c, l) => pc'[c] = l
        BY DEF Goto, TypeOK
      <4>3. QED
        BY <2>5, <4>1, <4>2
           DEF Call, IsEnabled, LoadDisabled, LoadHard, LoadSince, LoadStreak, ResetFailures,
               Enable, Granted, RequestFails, Disable, Date, Count, Harden, Unstreak, Clear
    <3>3. Recovering' \subseteq Recovering
      BY <2>1, <3>2, RecoveringMoves
    <3>4. Due' = Due
      BY <3>1 DEF Due
    <3>5. QED
      BY <3>1, <3>3, <3>4, FewerKept
  <2>6. QED
    BY <1>2, <2>2, <2>3, <2>4, <2>5 DEF Complete, Fail, Succeed
<1>3. QED
  BY <1>1, <1>2 DEF Next

-----------------------------------------------------------------------------
(* While no two goroutines meet. *)

Tripped == {"date", "count", "harden", "alert"}

OneCaller == \A c, d \in Callers : pc[c] # "idle" /\ pc[d] # "idle" => c = d

(* What the fields say when c makes its next access.                        *)
Where(c) ==
    /\ pc[c] \notin {"recover", "unmute", "unstreak"}
    /\ pc[c] \in {"request", "disable", "disabled?", "clear"} => ~disabled
    /\ pc[c] \in InIsEnabled \cup Tripped => disabled
    /\ pc[c] \in {"since", "streak", "reset", "enable"} => ~hardDisabled
    /\ pc[c] = "streak" => age >= since[c]
    /\ pc[c] \in {"reset", "enable"} => age >= CooldownFor[disableStreak]

(* The breaker works: a fatal failure keeps it open, a client that is       *)
(* disabled has been announced or is about to be, and one that is enabled   *)
(* has cooled down.                                                         *)
Works ==
    /\ hardDisabled => disabled
    /\ disabled => notified \/ \E c \in Callers : pc[c] \in Tripped
    /\ ~disabled => age >= CooldownFor[disableStreak]

Alone == ~overlapped => OneCaller /\ Works /\ \A c \in Callers : Where(c)

Inv ==
    /\ TypeOK
    /\ AlertsCounted
    /\ Alone

LEMMA InvInit == Init => Inv
<1> SUFFICES ASSUME Init PROVE Inv
  OBVIOUS
<1>1. CooldownMax >= CooldownFor[0]
  BY CooldownGrows, BreakerAssumption
<1>2. AlertsCounted
  BY DEF Init, AlertsCounted
<1>3. OneCaller /\ Works
  BY <1>1 DEF Init, OneCaller, Works
<1>4. ASSUME NEW c \in Callers PROVE Where(c)
  BY DEF Init, Where, InIsEnabled, Tripped
<1>5. QED
  BY <1>2, <1>3, <1>4, TypeInit DEF Inv, Alone

(* A step of the goroutine that is in the client alone.                     *)
LEMMA LoneStep ==
    ASSUME Inv, TypeOK', NEW c \in Callers, Complete(c), ~overlapped
    PROVE  /\ Where(c)'
           /\ (hardDisabled => disabled)'
           /\ (disabled => notified \/ pc[c] \in Tripped)'
           /\ (~disabled => age >= CooldownFor[disableStreak])'
<1>1. /\ hardDisabled => disabled
      /\ ~disabled => age >= CooldownFor[disableStreak]
      /\ Where(c)
  BY DEF Inv, Alone, Works
<1>2. disabled => notified \/ pc[c] \in Tripped
  <2>1. pc[c] # "idle"
    BY DEF Complete, IsEnabled, LoadDisabled, LoadHard, LoadSince, LoadStreak,
           ResetFailures, Enable, Fail, RequestFails, Disable, Date, Count, Harden, Alert,
           Succeed, RequestSucceeds, StillDisabled, Recover, Unmute, Unstreak, Clear
  <2>2. \A d \in Callers : pc[d] \in Tripped => d = c
    BY <2>1 DEF Inv, Alone, OneCaller, Tripped
  <2>3. QED
    BY <2>2 DEF Inv, Alone, Works
<1>3. TypeOK /\ age \in Int /\ since[c] \in Int /\ CooldownFor[disableStreak] \in Int
  BY CooldownType, BreakerAssumption DEF Inv, TypeOK
<1>4. \A label : Goto(c, label) => pc'[c] = label
  BY <1>3 DEF Goto, TypeOK
<1> USE <1>1, <1>2, <1>3, <1>4 DEF Where, Tripped, InIsEnabled, fields, locals
<1>5. CASE LoadDisabled(c)
  BY <1>5 DEF LoadDisabled, Granted
<1>6. CASE LoadHard(c)
  BY <1>6 DEF LoadHard
<1>7. CASE LoadSince(c)
  BY <1>7 DEF LoadSince, TypeOK
<1>8. CASE LoadStreak(c)
  BY <1>8 DEF LoadStreak
<1>9. CASE ResetFailures(c)
  BY <1>9 DEF ResetFailures
<1>10. CASE Enable(c)
  BY <1>10 DEF Enable, Granted
<1>11. CASE RequestFails(c)
  BY <1>11 DEF RequestFails
<1>12. CASE Disable(c)
  BY <1>12 DEF Disable
<1>13. CASE Date(c)
  BY <1>13 DEF Date
<1>14. CASE Count(c)
  BY <1>14 DEF Count
<1>15. CASE Harden(c)
  BY <1>15 DEF Harden
<1>16. CASE Alert(c)
  BY <1>16 DEF Alert
<1>17. CASE RequestSucceeds(c)
  BY <1>17 DEF RequestSucceeds
<1>18. CASE StillDisabled(c)
  BY <1>18 DEF StillDisabled
<1>19. CASE Recover(c) \/ Unmute(c) \/ Unstreak(c)
  BY <1>19 DEF Recover, Unmute, Unstreak
<1>20. CASE Clear(c)
  BY <1>20 DEF Clear
<1>21. QED
  BY <1>5, <1>6, <1>7, <1>8, <1>9, <1>10, <1>11, <1>12, <1>13, <1>14, <1>15, <1>16,
     <1>17, <1>18, <1>19, <1>20 DEF Complete, IsEnabled, Fail, Succeed

LEMMA AloneStep == Inv /\ [Next]_vars => Alone'
<1> SUFFICES ASSUME Inv, [Next]_vars, ~overlapped'
             PROVE  OneCaller' /\ Works' /\ \A c \in Callers : Where(c)'
  BY DEF Alone
<1>0. TypeOK /\ TypeOK'
  BY TypeStep DEF Inv
<1>1. CASE UNCHANGED vars
  BY <1>1 DEF vars, Inv, Alone, OneCaller, Works, Where
<1>2. CASE Tick
  <2>1. ~overlapped /\ UNCHANGED <<disabled, hardDisabled, notified, disableStreak, pc, since>>
    BY <1>2 DEF Tick, locals
  <2>2. \A x \in Int : age >= x => age' >= x
    BY <1>0, <1>2 DEF Tick, TypeOK
  <2>3. CooldownFor[disableStreak] \in Int /\ \A c \in Callers : since[c] \in Int
    BY <1>0, CooldownType, BreakerAssumption DEF TypeOK
  <2>4. QED
    BY <2>1, <2>2, <2>3 DEF Inv, Alone, OneCaller, Works, Where
<1>3. ASSUME NEW c \in Callers, Call(c)
      PROVE  OneCaller' /\ Works' /\ \A d \in Callers : Where(d)'
  <2>1. ~overlapped /\ \A d \in Callers : pc[d] = "idle"
    BY <1>3 DEF Call
  <2>2. pc'[c] = "enabled?" /\ \A d \in Callers : d # c => pc'[d] = "idle"
    BY <1>0, <1>3, <2>1 DEF Call, Goto, TypeOK
  <2>3. UNCHANGED <<fields, since>>
    BY <1>3 DEF Call, locals
  <2>4. OneCaller'
    BY <2>2 DEF OneCaller
  <2>5. Works'
    BY <2>1, <2>3 DEF Inv, Alone, Works, Tripped, fields
  <2>6. \A d \in Callers : Where(d)'
    BY <2>2 DEF Where, InIsEnabled, Tripped
  <2>7. QED
    BY <2>4, <2>5, <2>6
<1>4. ASSUME NEW c \in Callers, Complete(c)
      PROVE  OneCaller' /\ Works' /\ \A d \in Callers : Where(d)'
  <2>1. ~overlapped
    BY <1>4 DEF Complete
  <2>2. /\ Where(c)'
        /\ (hardDisabled => disabled)'
        /\ (disabled => notified \/ pc[c] \in Tripped)'
        /\ (~disabled => age >= CooldownFor[disableStreak])'
    BY <1>0, <1>4, <2>1, LoneStep
  <2>3. \A d \in Callers : d # c => pc'[d] = "idle"
    <3>1. pc[c] # "idle"
      BY <1>4 DEF Complete, IsEnabled, LoadDisabled, LoadHard, LoadSince, LoadStreak,
           ResetFailures, Enable, Fail, RequestFails, Disable, Date, Count, Harden, Alert,
           Succeed, RequestSucceeds, StillDisabled, Recover, Unmute, Unstreak, Clear
    <3>2. \A d \in Callers : d # c => pc[d] = "idle"
      BY <2>1, <3>1 DEF Inv, Alone, OneCaller
    <3>3. PICK label \in Labels : Goto(c, label)
      BY <1>0, <1>4, CallerMoves
    <3>4. QED
      BY <1>0, <3>2, <3>3, Labelled
  <2>4. \A d \in Callers : Where(d)'
    BY <2>2, <2>3 DEF Where, InIsEnabled, Tripped
  <2>5. QED
    BY <2>2, <2>3, <2>4 DEF OneCaller, Works
<1>5. QED
  BY <1>1, <1>2, <1>3, <1>4 DEF Next

LEMMA InvStep == Inv /\ [Next]_vars => Inv'
BY TypeStep, AlertsStep, AloneStep DEF Inv

(* The inductive invariant. *)
THEOREM Invariance == Spec => []Inv
<1>1. QED
  BY InvInit, InvStep, PTL DEF Spec

(* The admin is told once per outage, whoever trips the breaker, however    *)
(* many goroutines there are and however they interleave: between two       *)
(* successes there is one alert, and one more at most for every goroutine   *)
(* that was still at work on an older success when it was sent              *)
(* (notified.Swap(true); openai.go resets it after disabled).               *)
THEOREM OneAlert == Spec => []OneAlertUntilRecovery
<1>1. Inv => OneAlertUntilRecovery
  <2> SUFFICES ASSUME Inv PROVE alerts <= 1 + Cardinality(late)
    BY DEF OneAlertUntilRecovery
  <2>1. /\ alerts \in Nat /\ Cardinality(late) \in Nat
        /\ Cardinality(Recovering) \in Nat /\ Due \in Nat
    BY RecoveringFinite DEF Inv, TypeOK, Due
  <2>2. alerts > 0 => alerts + Cardinality(Recovering) + Due <= 1 + Cardinality(late)
    BY DEF Inv, AlertsCounted
  <2>3. QED
    BY <2>1, <2>2
<1>2. QED
  BY <1>1, Invariance, PTL

(* A failure that is fatal disables the client for good, while goroutines   *)
(* do not meet.                                                             *)
THEOREM HardStaysOff == Spec => []HardMeansOff
<1>1. Inv => HardMeansOff
  BY DEF Inv, Alone, Works, HardMeansOff
<1>2. QED
  BY <1>1, Invariance, PTL

(* A client that is disabled between two requests is one the admin has been *)
(* alerted about, while goroutines do not meet.                             *)
THEOREM DisabledIsAnnounced == Spec => []DisabledMeansAlerted
<1>1. Inv => DisabledMeansAlerted
  BY DEF Inv, Alone, Works, Tripped, AllIdle, DisabledMeansAlerted
<1>2. QED
  BY <1>1, Invariance, PTL

(* No request is sent before the cooldown of the last trip is over, however *)
(* many trips there were, while goroutines do not meet.                     *)
THEOREM QuietUntilCool == Spec => QuietWhileCooling
<1>1. Inv /\ [Next]_vars
        => [\A c \in Callers :
               pc[c] # "request" /\ pc'[c] = "request" /\ ~overlapped
                 => age >= CooldownFor[disableStreak]]_vars
  <2> SUFFICES ASSUME Inv, Next, NEW c \in Callers,
                      pc[c] # "request", pc'[c] = "request", ~overlapped
               PROVE  age >= CooldownFor[disableStreak]
    BY DEF vars
  <2>1. TypeOK /\ ~Tick
    BY DEF Inv, Tick
  <2>2. PICK d \in Callers : Call(d) \/ Complete(d)
    BY <2>1 DEF Next
  <2>3. PICK label \in Labels : Goto(d, label)
    BY <2>1, <2>2, CallerMoves
  <2>4. d = c
    BY <2>1, <2>3, Labelled
  <2>5. ~disabled => age >= CooldownFor[disableStreak]
    BY DEF Inv, Alone, Works
  <2>6. pc[c] = "enable" => age >= CooldownFor[disableStreak]
    BY DEF Inv, Alone, Where
  <2>7. (pc[c] = "enabled?" /\ ~disabled) \/ pc[c] = "enable"
    <3>1. \A l : Goto(c, l) => l = "request"
      BY <2>1 DEF Goto, TypeOK
    <3>2. CASE Call(c)
      BY <3>1, <3>2 DEF Call
    <3>3. CASE IsEnabled(c)
      BY <3>1, <3>3 DEF IsEnabled, LoadDisabled, LoadHard, LoadSince, LoadStreak,
                        ResetFailures, Enable
    <3>4. CASE Fail(c)
      BY <3>1, <3>4 DEF Fail, RequestFails, Disable, Date, Count, Harden, Alert
    <3>5. CASE Succeed(c)
      BY <3>1, <3>5 DEF Succeed, RequestSucceeds, StillDisabled, Recover, Unmute, Unstreak,
                        Clear
    <3>6. QED
      BY <2>2, <2>4, <3>2, <3>3, <3>4, <3>5 DEF Complete
  <2>8. QED
    BY <2>5, <2>6, <2>7
<1>2. QED
  BY <1>1, Invariance, PTL DEF Spec, QuietWhileCooling
=============================================================================
