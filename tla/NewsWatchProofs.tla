-------------------------- MODULE NewsWatchProofs --------------------------
(***************************************************************************)
(* Proofs about module NewsWatch, for any posts and any number of failures *)
(* and restarts, and whatever the model would say of the posts.            *)
(***************************************************************************)
EXTENDS NewsWatch, TLAPS

-----------------------------------------------------------------------------
(* What a step does. *)

(* A fault is counted within the bound. *)
LEMMA FaultsCounted ==
    ASSUME faults \in 0 .. MaxFaults, Fault \/ UNCHANGED faults
    PROVE  faults' \in 0 .. MaxFaults
BY BoundsAssumption DEF Fault

(* One post: either the model gives an answer that can be read on one not   *)
(* yet written down, or nothing is written down, and then only a keyword    *)
(* post can be found.                                                       *)
LEMMA ClassifyEffect ==
    ASSUME TypeOK, NEW p \in Posts, ClassifyPost(p)
    PROVE  /\ \/ p \notin classified /\ Answered(p)
              \/ NoAnswer /\ found' = found
              \/ NoAnswer /\ p \in Keyword /\ found' = found \cup {p}
           /\ garbled' \in {garbled, garbled \cup {p}}
           /\ aiOn' \in BOOLEAN
           /\ Fault \/ UNCHANGED faults
<1>1. CASE Unanswered(p) /\ UNCHANGED <<garbled, aiOn, faults>>
  BY <1>1 DEF Unanswered, FallBack, Skip, TypeOK
<1>2. CASE p \notin classified /\ Answered(p) /\ UNCHANGED <<garbled, aiOn>>
  BY <1>2 DEF Answered, TypeOK
<1>3. CASE CallFails(p)
  BY <1>3 DEF CallFails, Unanswered, FallBack, Skip, TypeOK
<1>4. QED
  BY <1>1, <1>2, <1>3 DEF ClassifyPost, Ask, AlreadyClassified

-----------------------------------------------------------------------------
(* Type correctness. *)

LEMMA TypeInit == Init => TypeOK
BY BoundsAssumption DEF Init, TypeOK

LEMMA TypeStep == TypeOK /\ [Next]_vars => TypeOK'
<1> SUFFICES ASSUME TypeOK, [Next]_vars PROVE TypeOK'
  OBVIOUS
<1> USE BoundsAssumption, FaultsCounted DEF TypeOK, stored, memory, history
<1>1. CASE UNCHANGED vars
  BY <1>1 DEF vars
<1>2. ASSUME NEW p \in Posts, Publish(p) \/ Withdraw(p) PROVE TypeOK'
  BY <1>2 DEF Publish, Withdraw
<1>3. ASSUME NEW p \in Posts, Expire(p) PROVE TypeOK'
  BY <1>3 DEF Expire
<1>4. ASSUME NEW p \in Posts, AiTest(p) PROVE TypeOK'
  BY <1>4 DEF AiTest
<1>5. CASE AiBack
  BY <1>5 DEF AiBack
<1>6. CASE Tick
  BY <1>6 DEF Tick
<1>7. CASE Fetch
  BY <1>7 DEF Fetch, FetchSteam, FetchChinese
<1>8. CASE Classify
  <2>1. PICK p \in todo : ClassifyPost(p) /\ todo' = todo \ {p}
    BY <1>8 DEF Classify
  <2>2. p \in Posts
    BY <2>1
  <2>3. /\ garbled' \subseteq Posts
        /\ aiOn' \in BOOLEAN
        /\ faults' \in 0 .. MaxFaults
    BY <2>1, <2>2, ClassifyEffect
  <2>4. /\ classified' \subseteq Posts /\ answered' \subseteq Posts
        /\ found' \subseteq Posts
        /\ judged' \subseteq Posts /\ rejudged' \subseteq Posts
        /\ unwritten' \subseteq Posts /\ told' \subseteq Posts
    BY <2>1, <2>2, ClassifyEffect DEF Answered, NoAnswer
  <2>5. QED
    BY <1>8, <2>1, <2>3, <2>4 DEF Classify
<1>9. CASE Return
  BY <1>9 DEF Return
<1>10. CASE Deliver
  BY <1>10 DEF Deliver
<1>11. CASE NextMonitor
  BY <1>11 DEF NextMonitor
<1>12. CASE Restart
  BY <1>12 DEF Restart
<1>13. CASE Mark
  BY <1>13 DEF Mark, MarkClassified
<1>14. QED
  BY <1>1, <1>2, <1>3, <1>4, <1>5, <1>6, <1>7, <1>8, <1>9, <1>10, <1>11, <1>12, <1>13
     DEF Next, Step

(* Type correctness: in every behaviour the variables keep their types.     *)
THEOREM TypeCorrect == Spec => []TypeOK
<1>1. QED
  BY TypeInit, TypeStep, PTL DEF Spec

-----------------------------------------------------------------------------
(* The inductive invariant. *)

(* What an answer was read on is written down, or is about to be, or could  *)
(* not be.                                                                  *)
AnswersWritten ==
    /\ judged \ classified \subseteq unwritten \cup answered
    /\ answered \subseteq judged

(* A headline on its way to the subscribers was called a global sale, one   *)
(* on its way to the admin was not.                                         *)
ChineseOnWord ==
    /\ (found \cup notified) \cap Chinese \subseteq judged \cap Signals
    /\ told \subseteq AdminOnly

Inv ==
    /\ TypeOK
    /\ AnswersWritten
    /\ RejudgedOnlyIfUnwritten
    /\ ChineseOnWord
    /\ ForgottenOnlyIfDropped

LEMMA InvInit == Init => Inv
<1> SUFFICES ASSUME Init PROVE Inv
  OBVIOUS
<1>1. AnswersWritten /\ RejudgedOnlyIfUnwritten /\ ChineseOnWord /\ ForgottenOnlyIfDropped
  BY DEF Init, AnswersWritten, RejudgedOnlyIfUnwritten, ChineseOnWord,
         ForgottenOnlyIfDropped
<1>2. QED
  BY <1>1, TypeInit DEF Inv

(* A post that is classified changes the four parts in step. *)
LEMMA InvClassify ==
    ASSUME Inv, Classify
    PROVE  /\ AnswersWritten' /\ RejudgedOnlyIfUnwritten'
           /\ ChineseOnWord' /\ ForgottenOnlyIfDropped'
<1>1. PICK p \in todo : ClassifyPost(p)
  BY DEF Classify
<1>2. p \in Posts /\ TypeOK
  BY <1>1 DEF Inv, TypeOK
<1>3. UNCHANGED <<notified, dropped>> /\ answered = {}
  BY DEF Classify
<1>4. CASE p \notin classified /\ Answered(p)
  <2>1. /\ judged' = judged \cup {p} /\ answered' = {p}
        /\ UNCHANGED <<classified, unwritten, found, told>>
    BY <1>4 DEF Answered
  <2>2. AnswersWritten'
    BY <1>3, <2>1 DEF Inv, AnswersWritten
  <2>3. RejudgedOnlyIfUnwritten'
    BY <1>3, <1>4, <2>1 DEF Inv, AnswersWritten, RejudgedOnlyIfUnwritten, Answered
  <2>4. ChineseOnWord' /\ ForgottenOnlyIfDropped'
    BY <1>3, <2>1 DEF Inv, ChineseOnWord, ForgottenOnlyIfDropped
  <2>5. QED
    BY <2>2, <2>3, <2>4
<1>5. CASE NoAnswer /\ (found' = found \/ (p \in Keyword /\ found' = found \cup {p}))
  <2>1. AnswersWritten' /\ RejudgedOnlyIfUnwritten'
    BY <1>5 DEF Inv, AnswersWritten, RejudgedOnlyIfUnwritten, NoAnswer
  <2>2. p \in Keyword => p \notin Chinese
    BY PostsAssumption DEF Steam
  <2>3. ChineseOnWord' /\ ForgottenOnlyIfDropped'
    BY <1>3, <1>5, <2>2 DEF Inv, ChineseOnWord, ForgottenOnlyIfDropped, NoAnswer
  <2>4. QED
    BY <2>1, <2>3
<1>6. \/ p \notin classified /\ Answered(p)
      \/ NoAnswer /\ (found' = found \/ (p \in Keyword /\ found' = found \cup {p}))
  BY <1>1, <1>2, ClassifyEffect
<1>7. QED
  BY <1>4, <1>5, <1>6

(* The answer that is written down was read, and what it says is on its way *)
(* from then on.                                                            *)
LEMMA InvMark ==
    ASSUME Inv, Mark
    PROVE  /\ AnswersWritten' /\ RejudgedOnlyIfUnwritten'
           /\ ChineseOnWord' /\ ForgottenOnlyIfDropped'
<1>1. PICK p \in answered :
         /\ MarkClassified(p)
         /\ found' = IF p \in Signals THEN found \cup {p} ELSE found
         /\ told' = IF p \in AdminOnly THEN told \cup {p} ELSE told
         /\ answered' = answered \ {p}
  BY DEF Mark
<1>2. UNCHANGED <<notified, dropped, judged, rejudged>>
  BY DEF Mark
<1>3. \/ classified' = classified \cup {p} /\ unwritten' = unwritten
      \/ classified' = classified /\ unwritten' = unwritten \cup {p}
  BY <1>1 DEF MarkClassified
<1>4. p \in judged
  BY DEF Inv, AnswersWritten
<1>5. AnswersWritten' /\ RejudgedOnlyIfUnwritten'
  BY <1>1, <1>2, <1>3 DEF Inv, AnswersWritten, RejudgedOnlyIfUnwritten
<1>6. ChineseOnWord'
  BY <1>1, <1>2, <1>4 DEF Inv, ChineseOnWord
<1>7. ForgottenOnlyIfDropped'
  BY <1>1, <1>2, <1>3 DEF Inv, ForgottenOnlyIfDropped, OnlyTheModelSees
<1>8. QED
  BY <1>5, <1>6, <1>7

LEMMA InvStep == Inv /\ [Next]_vars => Inv'
<1> SUFFICES ASSUME Inv, [Next]_vars
             PROVE  /\ AnswersWritten' /\ RejudgedOnlyIfUnwritten'
                    /\ ChineseOnWord' /\ ForgottenOnlyIfDropped'
  BY TypeStep DEF Inv
<1> USE DEF Inv, AnswersWritten, RejudgedOnlyIfUnwritten, ChineseOnWord,
            ForgottenOnlyIfDropped, stored, memory, history
<1>1. CASE UNCHANGED vars
  BY <1>1 DEF vars
<1>2. ASSUME NEW p \in Posts, Publish(p) \/ Withdraw(p) \/ Expire(p) \/ AiTest(p)
      PROVE  /\ AnswersWritten' /\ RejudgedOnlyIfUnwritten'
             /\ ChineseOnWord' /\ ForgottenOnlyIfDropped'
  BY <1>2 DEF Publish, Withdraw, Expire, AiTest
<1>3. CASE AiBack \/ Tick \/ Fetch \/ Return \/ NextMonitor
  BY <1>3 DEF AiBack, Tick, Fetch, Return, NextMonitor
<1>4. CASE Classify
  BY <1>4, InvClassify
<1>5. CASE Deliver
  <2>1. UNCHANGED <<classified, answered, judged, rejudged, unwritten, told>>
    BY <1>5 DEF Deliver
  <2>2. PICK p \in found :
           /\ found' = found \ {p}
           /\ \/ p \in notified' /\ notified' = notified \cup {p} /\ dropped' = dropped
              \/ notified' = notified /\ dropped' = dropped \cup {p}
    BY <1>5 DEF Deliver
  <2>3. QED
    BY <2>1, <2>2
<1>6. CASE Restart
  BY <1>6 DEF Restart
<1>7. CASE Mark
  BY <1>7, InvMark
<1>8. QED
  BY <1>1, <1>2, <1>3, <1>4, <1>5, <1>6, <1>7 DEF Next, Step

(* The inductive invariant: what was answered is written down or could not  *)
(* be, nothing Chinese is under way without the model's word, and what only *)
(* the model sees is under way, delivered or dropped.                       *)
THEOREM Invariance == Spec => []Inv
<1>1. QED
  BY InvInit, InvStep, PTL DEF Spec

(* The answer on a post is read a second time only if the first was not     *)
(* written down, as the store failed or the process died between the two,   *)
(* through any number of runs, restarts and outages (AlreadyClassified      *)
(* before each request, MarkClassified after it).                           *)
THEOREM JudgedOnce == Spec => []RejudgedOnlyIfUnwritten
<1>1. Inv => RejudgedOnlyIfUnwritten
  BY DEF Inv
<1>2. QED
  BY <1>1, Invariance, PTL

(* Subscribers get a Chinese headline only on the model's word, and never   *)
(* one the admin was told about (the switch of CNDotaMonitor.Check).        *)
THEOREM ChineseNeedsTheWord == Spec => []ChineseOnlyOnWord
<1>1. Inv => ChineseOnlyOnWord
  BY PostsAssumption DEF Inv, ChineseOnWord, ChineseOnlyOnWord
<1>2. QED
  BY <1>1, Invariance, PTL

(* A signal only the model sees, once classified, is delivered or under     *)
(* way, unless a failed broadcast or a restart took it: there is no other   *)
(* way between MarkClassified and MarkNotified to lose it.                  *)
THEOREM NothingElseForgotten == Spec => []ForgottenOnlyIfDropped
<1>1. Inv => ForgottenOnlyIfDropped
  BY DEF Inv
<1>2. QED
  BY <1>1, Invariance, PTL
=============================================================================
