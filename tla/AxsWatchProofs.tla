--------------------------- MODULE AxsWatchProofs ---------------------------
(***************************************************************************)
(* Proofs about module AxsWatch, for any ids, pages and bound on faults:   *)
(* what is stored of a page between two runs has been judged.              *)
(***************************************************************************)
EXTENDS AxsWatch, TLAPS

-----------------------------------------------------------------------------
(* Type correctness. *)

LEMMA TypeInit == Init => TypeOK
<1> SUFFICES ASSUME Init PROVE TypeOK
  OBVIOUS
<1>1. faults \in 0 .. MaxFaults
  BY BoundsAssumption DEF Init
<1>2. QED
  BY <1>1, Zenon DEF Init, TypeOK

(* What is kept of a page is a snapshot. *)
LEMMA PrunedIsSnapshot ==
    ASSUME NEW p \in Pages
    PROVE  Pruned(p) \in Snapshots /\ Pruned(p) # NoSnapshot
BY PagesAssumption DEF Pruned, Snapshots

(* The page's own extraction finds ids, or the queue. *)
LEMMA ExtractedIsEvents ==
    ASSUME NEW p \in Pages
    PROVE  Extracted(p) \subseteq Events
<1>1. p.items \subseteq Ids /\ p.links \subseteq Ids
  BY PagesAssumption
<1>2. QED
  BY <1>1 DEF Extracted, Events

LEMMA TypeStep == TypeOK /\ [Next]_vars => TypeOK'
<1> SUFFICES ASSUME TypeOK, [Next]_vars PROVE TypeOK'
  OBVIOUS
<1> USE BoundsAssumption DEF TypeOK, stored, memory, history, Fault
<1>1. CASE UNCHANGED vars
  BY <1>1 DEF vars
<1>2. ASSUME NEW p \in Pages, Show(p) PROVE TypeOK'
  BY <1>2 DEF Show
<1>3. CASE AiOff \/ AiBack \/ Expire
  BY <1>3 DEF AiOff, AiBack, Expire
<1>4. CASE Tick
  BY <1>4 DEF Tick
<1>5. CASE Fetch
  BY <1>5 DEF Fetch
<1>6. CASE RunDiff
  <2>1. at' \in {"analyse", "extract"}
    BY <1>6 DEF RunDiff, Compare
  <2>2. snapshot' \in Snapshots \cup {NoSnapshot}
    BY <1>6, PrunedIsSnapshot DEF RunDiff, AIStateSet
  <2>3. judged' \in Snapshots \cup {NoSnapshot}
    BY <1>6, PrunedIsSnapshot DEF RunDiff, Compare
  <2>4. lost' \in BOOLEAN
    BY <1>6, Zenon DEF RunDiff, AIStateSet
  <2>5. faults' \in 0 .. MaxFaults
    BY <1>6 DEF RunDiff, AIStateSet
  <2>6. UNCHANGED <<page, notified, garbled, aiOn, html, found>>
    BY <1>6 DEF RunDiff
  <2>7. /\ previous' \in Snapshots \cup {NoSnapshot}
        /\ at' = "analyse" => previous' # NoSnapshot
    BY <1>6 DEF RunDiff, Compare
  <2>8. QED
    BY <2>1, <2>2, <2>3, <2>4, <2>5, <2>6, <2>7
<1>7. CASE Analyse
  <2>1. judged' \in Snapshots \cup {NoSnapshot}
    BY <1>7, PrunedIsSnapshot DEF Analyse, Judge, Unjudged
  <2>2. lost' \in BOOLEAN
    BY <1>7, (snapshot # Pruned(html)) \in BOOLEAN, Zenon DEF Analyse, Judge, Unjudged
  <2>3. aiOn' \in BOOLEAN
    BY <1>7, Zenon DEF Analyse, Judge, AnswerFails, CallFails
  <2>4. faults' \in 0 .. MaxFaults
    BY <1>7 DEF Analyse, Judge, AnswerFails, CallFails
  <2>5. garbled' \subseteq Snapshots \X Snapshots
    <3>1. garbled' \in {garbled, garbled \cup {<<previous, Pruned(html)>>}}
      BY <1>7 DEF Analyse, Judge, AnswerFails
    <3>2. previous \in Snapshots
      BY <1>7 DEF Analyse
    <3>3. QED
      BY <3>1, <3>2, PrunedIsSnapshot
  <2>6. /\ at' = "extract" /\ previous' = NoSnapshot
        /\ UNCHANGED <<page, snapshot, notified, html, found>>
    BY <1>7 DEF Analyse
  <2>7. QED
    BY <2>1, <2>2, <2>3, <2>4, <2>5, <2>6
<1>8. CASE Extract
  BY <1>8, ExtractedIsEvents DEF Extract, AskModel, CallFails, Events
<1>9. CASE Deliver
  BY <1>9 DEF Deliver
<1>10. CASE EndOfRun
  BY <1>10 DEF EndOfRun
<1>11. CASE Restart
  BY <1>11 DEF Restart
<1>12. QED
  BY <1>1, <1>2, <1>3, <1>4, <1>5, <1>6, <1>7, <1>8, <1>9, <1>10, <1>11 DEF Next, Step

(* Type correctness: in every behaviour the variables keep their types.     *)
THEOREM TypeCorrect == Spec => []TypeOK
<1>1. QED
  BY TypeInit, TypeStep, PTL DEF Spec

-----------------------------------------------------------------------------
(* What is stored has been judged. *)

(* While a difference waits for the model, what is stored is the page it    *)
(* was found on, or a write has failed; and the page is one that can be     *)
(* compared.                                                                *)
WaitsForTheModel ==
    at = "analyse" =>
        /\ html.json = "ok"
        /\ ~lost => snapshot = Pruned(html)

Inv ==
    /\ TypeOK
    /\ JudgedUnlessLost
    /\ WaitsForTheModel

LEMMA InvInit == Init => Inv
BY TypeInit DEF Init, Inv, JudgedUnlessLost, WaitsForTheModel

LEMMA InvStep == Inv /\ [Next]_vars => Inv'
<1> SUFFICES ASSUME Inv, [Next]_vars
             PROVE  JudgedUnlessLost' /\ WaitsForTheModel'
  BY TypeStep DEF Inv
<1> USE DEF Inv, TypeOK, JudgedUnlessLost, WaitsForTheModel, stored, memory, history
<1>1. CASE UNCHANGED vars
  BY <1>1 DEF vars
<1>2. CASE AiOff \/ AiBack \/ Expire \/ Tick \/ EndOfRun \/ \E p \in Pages : Show(p)
  BY <1>2 DEF AiOff, AiBack, Expire, Tick, EndOfRun, Show
<1>3. CASE Fetch
  BY <1>3 DEF Fetch
<1>4. CASE RunDiff
  BY <1>4, PrunedIsSnapshot DEF RunDiff, AIStateSet, Compare
<1>5. CASE Analyse
  BY <1>5, PrunedIsSnapshot DEF Analyse, Judge, Unjudged
<1>6. CASE Extract \/ Deliver
  BY <1>6 DEF Extract, Deliver
<1>7. CASE Restart
  BY <1>7 DEF Restart
<1>8. QED
  BY <1>1, <1>2, <1>3, <1>4, <1>5, <1>6, <1>7 DEF Next, Step

(* The inductive invariant. *)
THEOREM Invariance == Spec => []Inv
<1>1. QED
  BY InvInit, InvStep, PTL DEF Spec

(* Nothing but a failed request, an answer nobody can read -- new, or given *)
(* again by the cache --, a failed write, a restart, or a client disabled   *)
(* by another in between loses a difference: what the model has answered on *)
(* is what is stored.                                                       *)
THEOREM NothingElseLost == Spec => LostOnlyForCause
<1>1. Inv /\ [Next]_vars
        => [~lost /\ lost' => \/ faults' = faults + 1
                              \/ at = "analyse" /\ Unanswerable]_vars
  <2> SUFFICES ASSUME Inv, Next, ~lost, lost'
               PROVE  faults' = faults + 1 \/ (at = "analyse" /\ Unanswerable)
    BY DEF vars
  <2> USE DEF stored, memory, history
  <2>1. CASE AiOff \/ AiBack \/ Expire \/ Tick \/ Fetch \/ Extract \/ Deliver \/ EndOfRun
               \/ \E p \in Pages : Show(p)
    BY <2>1 DEF AiOff, AiBack, Expire, Tick, Fetch, Extract, Deliver, EndOfRun, Show
  <2>2. CASE RunDiff
    BY <2>2 DEF RunDiff, AIStateSet, Fault
  <2>3. CASE Analyse
    BY <2>3 DEF Analyse, Judge, AnswerFails, CallFails, Fault, Inv, WaitsForTheModel
  <2>4. CASE Restart
    BY <2>4 DEF Restart, Fault
  <2>5. QED
    BY <2>1, <2>2, <2>3, <2>4 DEF Next, Step
<1>2. QED
  BY <1>1, Invariance, PTL DEF Spec, LostOnlyForCause

(* Between two runs what is stored under axs_snapshot has been taken over   *)
(* first or put to the model, unless a difference was lost since, for one   *)
(* of the causes above.                                                     *)
THEOREM StoredIsJudged == Spec => []JudgedUnlessLost
<1>1. Inv => JudgedUnlessLost
  BY DEF Inv
<1>2. QED
  BY <1>1, Invariance, PTL
=============================================================================
