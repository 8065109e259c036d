--------------------------- MODULE DeliveryProofs ---------------------------
(***************************************************************************)
(* Proofs about module Delivery, for any sets of chats and events, any     *)
(* number of monitors, of concurrent /check goroutines, of attempts and of *)
(* faults.                                                                 *)
(***************************************************************************)
EXTENDS Delivery, TLAPS

-----------------------------------------------------------------------------
(* Type correctness. *)

(* Both kinds of step keep the count of faults within its bound. *)
LEMMA FaultsCounted ==
    faults \in 0 .. MaxFaults /\ (Fault \/ NoFault) => faults' \in 0 .. MaxFaults
BY BoundsAssumption DEF Fault, NoFault

(* The local variables a new process begins with are of their types, and no *)
(* goroutine of it is in a run.                                             *)
LEMMA FreshLocals ==
    /\ FirstAt \in [Procs -> Labels]
    /\ \A p \in Procs : FirstAt[p] \in {"idle", "lock"}
    /\ All(1) \in [Procs -> 1 .. NumMonitors]
    /\ All({}) \in [Procs -> SUBSET Events]
    /\ All(NoEvent) \in [Procs -> Events \cup {NoEvent}]
    /\ All(0) \in [Procs -> 0 .. MaxAttempts]
    /\ All({}) \in [Procs -> SUBSET Chats]
    /\ All(FALSE) \in [Procs -> BOOLEAN]
<1>1. All(FALSE) \in [Procs -> BOOLEAN]
  BY DEF All
<1>2. QED
  BY <1>1, EventsAssumption, BoundsAssumption DEF FirstAt, All, Labels, InRun

(* The first state is well typed. *)
LEMMA TypeInit == Init => TypeOK
<1> SUFFICES ASSUME Init PROVE TypeOK
  OBVIOUS
<1>1. 0 \in 0 .. MaxFaults
  BY BoundsAssumption
<1>2. \A p \in Procs : at[p] \notin {"load", "send", "mark"}
  BY FreshLocals DEF Init
<1>3. QED
  BY <1>1, <1>2, FreshLocals DEF Init, TypeOK

(* Every step of every goroutine, and everything the world may do, keeps    *)
(* the variables in their types.                                            *)
LEMMA TypeStep == TypeOK /\ [Next]_vars => TypeOK'
<1> SUFFICES ASSUME TypeOK, [Next]_vars PROVE TypeOK'
  OBVIOUS
<1> USE EventsAssumption, ProcsAssumption, BoundsAssumption, FaultsCounted
        DEF TypeOK, Procs, Labels, InRun, world, loop, list, history
<1>1. CASE UNCHANGED vars
  BY <1>1 DEF vars
<1>2. ASSUME NEW e \in Events, Publish(e) PROVE TypeOK'
  BY <1>2 DEF Publish
<1>3. ASSUME NEW e \in Events, Withdraw(e) PROVE TypeOK'
  BY <1>3 DEF Withdraw
<1>4. ASSUME NEW c \in Chats, Block(c) PROVE TypeOK'
  BY <1>4 DEF Block
<1>5. ASSUME NEW c \in Chats, Unblock(c) PROVE TypeOK'
  BY <1>5 DEF Unblock
<1>6. ASSUME NEW c \in Chats, Start(c) PROVE TypeOK'
  BY <1>6 DEF Start, AddSubscriber
<1>7. ASSUME NEW c \in Chats, Stop(c) PROVE TypeOK'
  BY <1>7 DEF Stop, RemoveSubscriber
<1>8. ASSUME CooldownOver PROVE TypeOK'
  BY <1>8 DEF CooldownOver
<1>9. ASSUME AnnouncementOver PROVE TypeOK'
  BY <1>9 DEF AnnouncementOver
<1>10. ASSUME CloseStore PROVE TypeOK'
  BY <1>10 DEF CloseStore
<1>11. ASSUME Restart PROVE TypeOK'
  <2>1. faults' \in 0 .. MaxFaults
    BY <1>11, FaultsCounted DEF Restart, TypeOK
  <2>2. \A p \in Procs : at'[p] \notin {"load", "send", "mark"}
    BY <1>11, FreshLocals DEF Restart
  <2>3. QED
    BY <1>11, <2>1, <2>2, FreshLocals DEF Restart, TypeOK, world
<1>12. ASSUME PollTick PROVE TypeOK'
  BY <1>12 DEF PollTick, Goto
<1>13. ASSUME Lock PROVE TypeOK'
  BY <1>13 DEF Lock, BeginRun, Goto
<1>14. ASSUME NEW p \in Checkers, CheckCommand(p) PROVE TypeOK'
  BY <1>14 DEF CheckCommand, Goto
<1>15. ASSUME NEW p \in Checkers, TryLock(p) PROVE TypeOK'
  BY <1>15 DEF TryLock, BeginRun, Goto
<1>16. ASSUME NEW p \in Procs, Check(p) PROVE TypeOK'
  BY <1>16 DEF Check, Goto
<1>17. ASSUME NEW p \in Procs, SkipEvent(p) PROVE TypeOK'
  BY <1>17 DEF SkipEvent
<1>18. ASSUME NEW p \in Procs, TakeEvent(p) PROVE TypeOK'
  BY <1>18 DEF TakeEvent, Goto
<1>19. ASSUME NEW p \in Procs, EndOfBatch(p) PROVE TypeOK'
  BY <1>19 DEF EndOfBatch, Goto
<1>20. ASSUME NEW p \in Procs, Load(p) PROVE TypeOK'
  BY <1>20 DEF Load, AttemptFailed, NextEvent, Goto
<1>21. ASSUME NEW p \in Procs, SendPhoto(p) PROVE TypeOK'
  BY <1>21 DEF SendPhoto, Accepted, LostAnswer, Arrive
<1>22. ASSUME NEW p \in Procs, SendText(p) PROVE TypeOK'
  <2>1. PICK c \in todo[p] \cup plain[p] : Accepted(c, event[p]) \/ Refused(c, event[p]) \/ LostRequest(c, event[p]) \/ LostAnswer(c, event[p])
    BY <1>22 DEF SendText
  <2>2. received' \in [Events -> SUBSET Chats] /\ repeated' \in [Events -> SUBSET Chats] /\ excused' \subseteq Events
    BY <1>22, <2>1 DEF SendText, Accepted, Refused, LostRequest, LostAnswer, Arrive
  <2>3. faults' \in 0 .. MaxFaults
    BY <2>1, FaultsCounted DEF Accepted, Refused, LostRequest, LostAnswer
  <2>4. failed' \in [Procs -> BOOLEAN]
    <3>1. failed' = failed \/ failed' = [failed EXCEPT ![p] = TRUE]
      BY <1>22 DEF SendText
    <3>2. failed \in [Procs -> BOOLEAN]
      OBVIOUS
    <3>3. QED
      BY <3>1, <3>2
  <2>5. todo' \in [Procs -> SUBSET Chats] /\ plain' \in [Procs -> SUBSET Chats]
    BY <1>22 DEF SendText
  <2>6. UNCHANGED <<world, subscribers, notified, storeOpen, checkMu, cooling,
                     announced, at, loop, opened, audience>>
    BY <1>22 DEF SendText
  <2>7. QED
    BY <2>2, <2>3, <2>4, <2>5, <2>6 DEF world, loop
<1>23. ASSUME NEW p \in Procs, EndOfAttempt(p) PROVE TypeOK'
  BY <1>23 DEF EndOfAttempt, AttemptFailed, NextEvent, ForgetList, Goto
<1>24. ASSUME NEW p \in Procs, Mark(p) PROVE TypeOK'
  BY <1>24 DEF Mark, MarkNotified, SetAnnounced, NextEvent, Goto
<1>25. QED
  BY <1>1, <1>2, <1>3, <1>4, <1>5, <1>6, <1>7, <1>8, <1>9, <1>10, <1>11,
     <1>12, <1>13, <1>14, <1>15, <1>16, <1>17, <1>18, <1>19, <1>20, <1>21,
     <1>22, <1>23, <1>24
     DEF Next, Environment, Step

(* Type correctness: in every behaviour the variables keep their types.     *)
THEOREM TypeCorrect == Spec => []TypeOK
<1>1. QED
  BY TypeInit, TypeStep, PTL DEF Spec

-----------------------------------------------------------------------------
(* Mutual exclusion. *)

(* What the world does leaves every goroutine where it is. *)
LEMMA EnvironmentStep ==
    ASSUME Environment
    PROVE  /\ UNCHANGED <<notified, checkMu, at, loop, list, history>>
           /\ storeOpen' => storeOpen
<1>1. ASSUME NEW e \in Events, Publish(e) \/ Withdraw(e)
      PROVE  /\ UNCHANGED <<notified, checkMu, at, loop, list, history>>
             /\ storeOpen' => storeOpen
  BY <1>1 DEF Publish, Withdraw
<1>2. ASSUME NEW c \in Chats, Block(c) \/ Unblock(c) \/ Start(c) \/ Stop(c)
      PROVE  /\ UNCHANGED <<notified, checkMu, at, loop, list, history>>
             /\ storeOpen' => storeOpen
  BY <1>2 DEF Block, Unblock, Start, Stop, AddSubscriber, RemoveSubscriber
<1>3. CASE CooldownOver \/ AnnouncementOver
  BY <1>3 DEF CooldownOver, AnnouncementOver
<1>4. CASE CloseStore
  BY <1>4 DEF CloseStore
<1>5. QED
  BY <1>1, <1>2, <1>3, <1>4 DEF Environment

(* The steps inside a run keep the goroutine in its run, or end it together *)
(* with the hold on the mutex; they touch no other goroutine.               *)
LEMMA RunStep ==
    ASSUME TypeOK, NEW p \in Procs, Step(p)
    PROVE  /\ at[p] \in InRun
           /\ \/ checkMu' = checkMu
              \/ at'[p] = "idle" /\ checkMu' = Free
           /\ \A q \in Procs \ {p} :
                 /\ at'[q] = at[q]
                 /\ event'[q] = event[q]
                 /\ todo'[q] = todo[q]
                 /\ plain'[q] = plain[q]
                 /\ failed'[q] = failed[q]
           /\ storeOpen' = storeOpen
<1> USE DEF TypeOK, InRun, Goto, loop, list, history
<1>1. CASE Check(p)
  BY <1>1 DEF Check
<1>2. CASE SkipEvent(p)
  BY <1>2 DEF SkipEvent
<1>3. CASE TakeEvent(p)
  BY <1>3 DEF TakeEvent
<1>4. CASE EndOfBatch(p)
  BY <1>4 DEF EndOfBatch
<1>5. CASE Load(p)
  BY <1>5 DEF Load, AttemptFailed, NextEvent
<1>6. CASE SendPhoto(p)
  BY <1>6 DEF SendPhoto
<1>7. CASE SendText(p)
  BY <1>7 DEF SendText
<1>8. CASE EndOfAttempt(p)
  BY <1>8 DEF EndOfAttempt, AttemptFailed, NextEvent, ForgetList
<1>9. CASE Mark(p)
  BY <1>9 DEF Mark, MarkNotified, SetAnnounced, NextEvent
<1>10. QED
  BY <1>1, <1>2, <1>3, <1>4, <1>5, <1>6, <1>7, <1>8, <1>9 DEF Step

(* How the goroutines get at the mutex outside a run. *)
LEMMA LockStep ==
    ASSUME TypeOK,
           PollTick \/ Lock \/ \E p \in Checkers : CheckCommand(p) \/ TryLock(p)
    PROVE  /\ UNCHANGED <<notified, storeOpen, loop, list, history>>
           /\ \E p \in Procs :
                 /\ at[p] \notin InRun
                 /\ at'[p] \notin InRun \/ at'[p] = "check"
                 /\ \/ checkMu' = checkMu /\ at'[p] \notin InRun
                    \/ checkMu = Free /\ checkMu' = p
                 /\ \A q \in Procs \ {p} : at'[q] = at[q]
<1> USE DEF TypeOK, InRun, Goto, Procs
<1>1. CASE PollTick
  BY <1>1 DEF PollTick
<1>2. CASE Lock
  BY <1>2 DEF Lock, BeginRun
<1>3. ASSUME NEW p \in Checkers, CheckCommand(p)
      PROVE  /\ UNCHANGED <<notified, storeOpen, loop, list, history>>
             /\ at[p] \notin InRun
             /\ at'[p] \notin InRun
             /\ checkMu' = checkMu
             /\ \A q \in Procs \ {p} : at'[q] = at[q]
  BY <1>3 DEF CheckCommand
<1>4. ASSUME NEW p \in Checkers, TryLock(p)
      PROVE  /\ UNCHANGED <<notified, storeOpen, loop, list, history>>
             /\ at[p] \notin InRun
             /\ at'[p] \notin InRun \/ at'[p] = "check"
             /\ \/ checkMu' = checkMu /\ at'[p] \notin InRun
                \/ checkMu = Free /\ checkMu' = p
             /\ \A q \in Procs \ {p} : at'[q] = at[q]
  BY <1>4 DEF TryLock, BeginRun
<1>5. QED
  BY <1>1, <1>2, <1>3, <1>4

(* Whoever is in a run holds the mutex. *)
LEMMA LockedStep == TypeOK /\ Locked /\ [Next]_vars => Locked'
<1> SUFFICES ASSUME TypeOK, Locked, [Next]_vars PROVE Locked'
  OBVIOUS
<1> USE DEF Locked
<1>1. CASE UNCHANGED vars
  BY <1>1 DEF vars
<1>2. CASE Environment
  BY <1>2, EnvironmentStep
<1>3. CASE Restart
  BY <1>3, FreshLocals DEF Restart, InRun
<1>4. CASE PollTick \/ Lock \/ \E p \in Checkers : CheckCommand(p) \/ TryLock(p)
  BY <1>4, LockStep, ProcsAssumption
<1>5. ASSUME NEW p \in Procs, Step(p) PROVE Locked'
  <2>1. /\ at[p] \in InRun
        /\ checkMu' = checkMu \/ (at'[p] = "idle" /\ checkMu' = Free)
        /\ \A q \in Procs \ {p} : at'[q] = at[q]
    BY <1>5, RunStep
  <2>2. \A q \in Procs \ {p} : at[q] \notin InRun
    BY <2>1
  <2>3. QED
    BY <2>1, <2>2 DEF InRun
<1>6. QED
  BY <1>1, <1>2, <1>3, <1>4, <1>5 DEF Next

(* Two goroutines are never both in a run. *)
LEMMA Alone ==
    ASSUME Locked, NEW p \in Procs, NEW q \in Procs,
           at[p] \in InRun, at[q] \in InRun
    PROVE  p = q
BY DEF Locked

-----------------------------------------------------------------------------
(* Broadcasts: a broadcast under way is of an event not yet recorded, and   *)
(* has served everyone it loaded but the chats still on its list.           *)

(* Nobody who is not in a run has a list of chats. *)
LEMMA BroadcastElsewhere ==
    ASSUME NEW q \in Procs, Broadcast(q), at[q] \notin InRun,
           at'[q] = at[q], UNCHANGED list
             \/ (todo'[q] = todo[q] /\ plain'[q] = plain[q] /\ failed'[q] = failed[q])
    PROVE  Broadcast(q)'
BY DEF Broadcast, InRun, list

LEMMA BroadcastOwn ==
    ASSUME TypeOK, Locked, NEW p \in Procs, Broadcast(p), Step(p)
    PROVE  Broadcast(p)'
<1> USE DEF TypeOK, Broadcast, Goto, loop, list, history
<1>1. CASE Check(p)
  BY <1>1 DEF Check
<1>2. CASE SkipEvent(p)
  BY <1>2 DEF SkipEvent
<1>3. CASE TakeEvent(p)
  BY <1>3 DEF TakeEvent, AlreadyNotified
<1>4. CASE EndOfBatch(p)
  BY <1>4 DEF EndOfBatch
<1>5. CASE Load(p)
  BY <1>5 DEF Load, AttemptFailed, NextEvent
<1>6. CASE SendPhoto(p)
  BY <1>6 DEF SendPhoto, Accepted, LostAnswer, Arrive
<1>7. CASE SendText(p)
  BY <1>7 DEF SendText, Accepted, Refused, LostRequest, LostAnswer, Arrive
<1>8. CASE EndOfAttempt(p)
  BY <1>8 DEF EndOfAttempt, AttemptFailed, NextEvent, ForgetList
<1>9. CASE Mark(p)
  BY <1>9 DEF Mark, MarkNotified, SetAnnounced, NextEvent
<1>10. QED
  BY <1>1, <1>2, <1>3, <1>4, <1>5, <1>6, <1>7, <1>8, <1>9 DEF Step

LEMMA BroadcastsStep ==
    TypeOK /\ Locked /\ Broadcasts /\ [Next]_vars => Broadcasts'
<1> SUFFICES ASSUME TypeOK, Locked, Broadcasts, [Next]_vars, NEW q \in Procs
             PROVE  Broadcast(q)'
  BY DEF Broadcasts
<1>0. Broadcast(q)
  BY DEF Broadcasts
<1>1. CASE UNCHANGED vars
  BY <1>0, <1>1 DEF vars, Broadcast
<1>2. CASE Environment
  BY <1>0, <1>2, EnvironmentStep DEF Broadcast, loop, list, history
<1>3. CASE Restart
  BY <1>3, FreshLocals DEF Restart, Broadcast, All
<1>4. CASE PollTick \/ Lock \/ \E p \in Checkers : CheckCommand(p) \/ TryLock(p)
  BY <1>0, <1>4, LockStep DEF Broadcast, loop, list, history, InRun
<1>5. ASSUME NEW p \in Procs, Step(p) PROVE Broadcast(q)'
  <2>1. CASE p = q
    BY <1>0, <1>5, <2>1, BroadcastOwn
  <2>2. CASE p # q
    <3>1. at[p] \in InRun
      BY <1>5, RunStep
    <3>2. at[q] \notin InRun
      BY <2>2, <3>1, Alone
    <3>3. /\ at'[q] = at[q]
          /\ todo'[q] = todo[q]
          /\ plain'[q] = plain[q]
          /\ failed'[q] = failed[q]
      BY <1>5, <2>2, RunStep
    <3>4. QED
      BY <1>0, <3>2, <3>3, BroadcastElsewhere
  <2>3. QED
    BY <2>1, <2>2
<1>6. QED
  BY <1>1, <1>2, <1>3, <1>4, <1>5 DEF Next

-----------------------------------------------------------------------------
(* The record of notified events. *)

(* What a step inside a run may do to the record and to the history of a    *)
(* broadcast.                                                               *)
LEMMA RunEffect ==
    ASSUME TypeOK, NEW p \in Procs, Broadcast(p), Step(p)
    PROVE  /\ \/ notified' = notified
              \/ at[p] = "mark" /\ notified' = notified \cup {event[p]}
           /\ \/ UNCHANGED <<opened, audience>>
              \/ /\ at[p] = "load" /\ storeOpen
                 /\ opened' = opened \cup {event[p]}
                 /\ audience' = [audience EXCEPT ![event[p]] = subscribers]
           /\ \/ UNCHANGED <<received, repeated>>
              \/ /\ at[p] = "send"
                 /\ \E c \in todo[p] : Arrive(c, event[p])
           /\ subscribers' = subscribers
<1> USE DEF TypeOK, loop, list, history
<1>1. CASE Check(p)
  BY <1>1 DEF Check
<1>2. CASE SkipEvent(p)
  BY <1>2 DEF SkipEvent
<1>3. CASE TakeEvent(p)
  BY <1>3 DEF TakeEvent
<1>4. CASE EndOfBatch(p)
  BY <1>4 DEF EndOfBatch
<1>5. CASE Load(p)
  BY <1>5 DEF Load
<1>6. CASE SendPhoto(p)
  BY <1>6 DEF SendPhoto, Accepted, LostAnswer
<1>7. CASE SendText(p)
  <2>1. plain[p] \subseteq todo[p]
    BY <1>7 DEF SendText, Broadcast
  <2>2. PICK c \in IF event[p] \in WithImage THEN plain[p] ELSE todo[p] :
           \/ Accepted(c, event[p]) \/ Refused(c, event[p])
           \/ LostRequest(c, event[p]) \/ LostAnswer(c, event[p])
    BY <1>7 DEF SendText
  <2>3. c \in todo[p]
    BY <2>1, <2>2
  <2>4. UNCHANGED <<received, repeated>> \/ Arrive(c, event[p])
    BY <2>2 DEF Accepted, Refused, LostRequest, LostAnswer
  <2>5. QED
    BY <1>7, <2>3, <2>4 DEF SendText
<1>8. CASE EndOfAttempt(p)
  BY <1>8 DEF EndOfAttempt
<1>9. CASE Mark(p)
  BY <1>9 DEF Mark, MarkNotified, SetAnnounced
<1>10. QED
  BY <1>1, <1>2, <1>3, <1>4, <1>5, <1>6, <1>7, <1>8, <1>9 DEF Step

LEMMA NotifiedStep ==
    /\ TypeOK /\ Locked /\ Broadcasts /\ NotifiedMeansReceived
    /\ [Next]_vars
    => NotifiedMeansReceived'
<1> SUFFICES ASSUME TypeOK, Locked, Broadcasts, NotifiedMeansReceived, [Next]_vars
             PROVE  NotifiedMeansReceived'
  OBVIOUS
<1> USE DEF NotifiedMeansReceived
<1>1. CASE UNCHANGED vars
  BY <1>1 DEF vars
<1>2. CASE Environment
  BY <1>2, EnvironmentStep DEF history
<1>3. CASE Restart
  BY <1>3 DEF Restart
<1>4. CASE PollTick \/ Lock \/ \E p \in Checkers : CheckCommand(p) \/ TryLock(p)
  BY <1>4, LockStep DEF history
<1>5. ASSUME NEW p \in Procs, Step(p), NEW e \in notified'
      PROVE  (e \in opened /\ audience[e] \subseteq received[e])'
  <2>1. Broadcast(p)
    BY DEF Broadcasts
  <2>2. e \in opened /\ audience[e] \subseteq received[e]
    BY <1>5, <2>1, RunEffect DEF Broadcast
  <2>3. received[e] \subseteq received'[e]
    BY <1>5, <2>1, <2>2, RunEffect DEF TypeOK, Arrive
  <2>4. e \in opened' /\ audience'[e] = audience[e]
    BY <1>5, <2>1, <2>2, RunEffect DEF TypeOK, Broadcast
  <2>5. QED
    BY <2>2, <2>3, <2>4
<1>6. QED
  BY <1>1, <1>2, <1>3, <1>4, <1>5 DEF Next

-----------------------------------------------------------------------------
(* Repeated copies. *)

(* What Faultless says of goroutine p and event e when no other goroutine   *)
(* is in a run.                                                             *)
Clean(p, e) ==
    /\ repeated[e] = {}
    /\ at[p] = "send" /\ event[p] = e =>
          ~failed[p] /\ received[e] \cap todo[p] = {}
    /\ e \in notified \/ received[e] = {} \/ InBroadcast(p, e)

(* A step of the one goroutine in a run gives nobody a second copy, or      *)
(* leaves the event excused.                                                *)
LEMMA CleanOwn ==
    ASSUME TypeOK, NEW p \in Procs, Broadcast(p), Step(p),
           NEW e \in Events, e \notin excused', Clean(p, e)
    PROVE  Clean(p, e)'
<1> USE DEF TypeOK, Clean, InBroadcast, Goto, loop, list, history
<1>1. CASE Check(p)
  BY <1>1 DEF Check
<1>2. CASE SkipEvent(p)
  BY <1>2 DEF SkipEvent
<1>3. CASE TakeEvent(p)
  BY <1>3 DEF TakeEvent
<1>4. CASE EndOfBatch(p)
  BY <1>4 DEF EndOfBatch
<1>5. CASE Load(p)
  BY <1>5 DEF Load, AttemptFailed, NextEvent, Broadcast
<1>6. CASE SendPhoto(p)
  BY <1>6 DEF SendPhoto, Accepted, LostAnswer, Arrive
<1>7. CASE SendText(p)
  BY <1>7 DEF SendText, Accepted, Refused, LostRequest, LostAnswer, Arrive, Broadcast
<1>8. CASE EndOfAttempt(p)
  BY <1>8 DEF EndOfAttempt, AttemptFailed, NextEvent, ForgetList
<1>9. CASE Mark(p)
  BY <1>9 DEF Mark, MarkNotified, SetAnnounced, NextEvent
<1>10. QED
  BY <1>1, <1>2, <1>3, <1>4, <1>5, <1>6, <1>7, <1>8, <1>9 DEF Step

(* An excuse is never taken back. *)
LEMMA ExcusedGrows == [Next]_vars => excused \subseteq excused'
<1> SUFFICES ASSUME [Next]_vars PROVE excused \subseteq excused'
  OBVIOUS
<1>1. CASE UNCHANGED vars
  BY <1>1 DEF vars
<1>2. CASE Environment
  BY <1>2, EnvironmentStep DEF history
<1>3. CASE Restart
  BY <1>3 DEF Restart
<1>4. CASE PollTick \/ Lock \/ \E p \in Checkers : CheckCommand(p) \/ TryLock(p)
  BY <1>4 DEF PollTick, Lock, CheckCommand, TryLock, history
<1>5. ASSUME NEW p \in Procs, Step(p) PROVE excused \subseteq excused'
  <2> USE DEF history
  <2>1. CASE Check(p) \/ SkipEvent(p) \/ TakeEvent(p) \/ EndOfBatch(p)
    BY <2>1 DEF Check, SkipEvent, TakeEvent, EndOfBatch
  <2>2. CASE Load(p) \/ EndOfAttempt(p)
    BY <2>2 DEF Load, EndOfAttempt
  <2>3. CASE SendPhoto(p)
    BY <2>3 DEF SendPhoto, Accepted, LostAnswer
  <2>4. CASE SendText(p)
    BY <2>4 DEF SendText, Accepted, Refused, LostRequest, LostAnswer
  <2>5. CASE Mark(p)
    BY <2>5 DEF Mark, MarkNotified, SetAnnounced
  <2>6. QED
    BY <1>5, <2>1, <2>2, <2>3, <2>4, <2>5 DEF Step
<1>6. QED
  BY <1>1, <1>2, <1>3, <1>4, <1>5 DEF Next

LEMMA FaultlessStep ==
    TypeOK /\ Locked /\ Broadcasts /\ Faultless /\ [Next]_vars => Faultless'
<1> SUFFICES ASSUME TypeOK, Locked, Broadcasts, Faultless, [Next]_vars,
                    NEW e \in Events, e \notin excused'
             PROVE  /\ repeated'[e] = {}
                    /\ \A p \in Procs : at'[p] = "send" /\ event'[p] = e =>
                          ~failed'[p] /\ received'[e] \cap todo'[p] = {}
                    /\ \/ e \in notified'
                       \/ received'[e] = {}
                       \/ \E p \in Procs : InBroadcast(p, e)'
  BY DEF Faultless
<1>0. /\ repeated[e] = {}
      /\ \A p \in Procs : at[p] = "send" /\ event[p] = e =>
            ~failed[p] /\ received[e] \cap todo[p] = {}
      /\ e \in notified \/ received[e] = {} \/ \E p \in Procs : InBroadcast(p, e)
  BY ExcusedGrows DEF Faultless
<1>1. CASE UNCHANGED vars
  BY <1>0, <1>1 DEF vars, InBroadcast
<1>2. CASE Environment
  BY <1>0, <1>2, EnvironmentStep DEF InBroadcast, loop, list, history
<1>3. CASE Restart
  BY <1>0, <1>3, FreshLocals DEF Restart, InBroadcast
<1>4. CASE PollTick \/ Lock \/ \E p \in Checkers : CheckCommand(p) \/ TryLock(p)
  <2>1. PICK p \in Procs :
           /\ at[p] \notin InRun
           /\ at'[p] \notin InRun \/ at'[p] = "check"
           /\ \A q \in Procs \ {p} : at'[q] = at[q]
    BY <1>4, LockStep
  <2>2. UNCHANGED <<notified, loop, list, history>>
    BY <1>4, LockStep
  <2>3. \A q \in Procs, l \in {"send", "mark"} : at[q] = l <=> at'[q] = l
    BY <2>1 DEF InRun
  <2>4. QED
    BY <1>0, <2>2, <2>3 DEF InBroadcast, loop, list, history
<1>5. ASSUME NEW p \in Procs, Step(p)
      PROVE  /\ repeated'[e] = {}
             /\ \A q \in Procs : at'[q] = "send" /\ event'[q] = e =>
                   ~failed'[q] /\ received'[e] \cap todo'[q] = {}
             /\ \/ e \in notified'
                \/ received'[e] = {}
                \/ \E q \in Procs : InBroadcast(q, e)'
  <2>1. \A q \in Procs \ {p} : at[q] \notin InRun /\ at'[q] = at[q]
    BY <1>5, RunStep, Alone
  <2>2. \A q \in Procs \ {p} : ~InBroadcast(q, e) /\ at'[q] # "send"
    BY <2>1 DEF InBroadcast, InRun
  <2>3. Clean(p, e)
    BY <1>0, <2>2 DEF Clean
  <2>4. Clean(p, e)'
    BY <1>5, <2>3, CleanOwn DEF Broadcasts
  <2>5. QED
    BY <2>2, <2>4 DEF Clean
<1>6. QED
  BY <1>1, <1>2, <1>3, <1>4, <1>5 DEF Next

-----------------------------------------------------------------------------
(* The invariant and what follows from it. *)

LEMMA InvInit == Init => Inv
<1> SUFFICES ASSUME Init PROVE Inv
  OBVIOUS
<1>1. TypeOK
  BY TypeInit
<1>2. \A p \in Procs : at[p] \notin InRun /\ at[p] \notin {"load", "send", "mark"}
  BY FreshLocals DEF Init, InRun
<1>3. \A p \in Procs : todo[p] = {} /\ plain[p] = {} /\ ~failed[p]
  BY DEF Init, All
<1>4. Locked /\ Broadcasts /\ NotifiedMeansReceived /\ Faultless
  BY <1>2, <1>3 DEF Init, Locked, Broadcasts, Broadcast, NotifiedMeansReceived,
                    Faultless
<1>5. QED
  BY <1>1, <1>4 DEF Inv

LEMMA InvStep == Inv /\ [Next]_vars => Inv'
BY TypeStep, LockedStep, BroadcastsStep, NotifiedStep, FaultlessStep DEF Inv

(* The inductive invariant holds in every reachable state. *)
THEOREM Invariance == Spec => []Inv
<1>1. QED
  BY InvInit, InvStep, PTL DEF Spec

(* A run of checks never overlaps another one: neither /check and the       *)
(* poller nor two /check commands are ever inside runChecks together.       *)
THEOREM MutualExclusion == Spec => []OneRunAtATime
<1>1. Inv => OneRunAtATime
  BY DEF Inv, Locked, OneRunAtATime
<1>2. QED
  BY <1>1, Invariance, PTL

(* The record of notified events never claims more than what was delivered: *)
(* everyone the last broadcast loaded has a copy.                           *)
THEOREM RecordIsTrue == Spec => []NotifiedMeansReceived
<1>1. Inv => NotifiedMeansReceived
  BY DEF Inv
<1>2. QED
  BY <1>1, Invariance, PTL

(* A second copy has a fault of the same event's broadcast for its cause.   *)
THEOREM NoCauselessRepeat == Spec => []RepeatedOnlyIfExcused
<1>1. Inv => RepeatedOnlyIfExcused
  BY DEF Inv, Faultless, RepeatedOnlyIfExcused
<1>2. QED
  BY <1>1, Invariance, PTL

-----------------------------------------------------------------------------
(* The promise of module Alerts. *)

(* Which chats get copies of which event in a step: those on the list of a  *)
(* goroutine that is sending, of an event not yet recorded.                 *)
LEMMA OnlyOpenBroadcasts ==
    ASSUME Inv, [Next]_vars, NEW e \in notified
    PROVE  received'[e] = received[e] /\ repeated'[e] = repeated[e]
<1>1. CASE UNCHANGED vars
  BY <1>1 DEF vars
<1>2. CASE Environment
  BY <1>2, EnvironmentStep DEF history
<1>3. CASE Restart
  BY <1>3 DEF Restart
<1>4. CASE PollTick \/ Lock \/ \E p \in Checkers : CheckCommand(p) \/ TryLock(p)
  BY <1>4, LockStep DEF Inv, history
<1>5. ASSUME NEW p \in Procs, Step(p)
      PROVE  received'[e] = received[e] /\ repeated'[e] = repeated[e]
  <2>1. TypeOK /\ Broadcast(p)
    BY DEF Inv, Broadcasts
  <2>2. CASE UNCHANGED <<received, repeated>>
    BY <2>2
  <2>3. ASSUME at[p] = "send", NEW c \in todo[p], Arrive(c, event[p])
        PROVE  received'[e] = received[e] /\ repeated'[e] = repeated[e]
    <3>1. event[p] \notin notified
      BY <2>1, <2>3 DEF Broadcast
    <3>2. QED
      BY <2>1, <2>3, <3>1 DEF Arrive, TypeOK
  <2>4. QED
    BY <1>5, <2>1, <2>2, <2>3, RunEffect
<1>6. QED
  BY <1>1, <1>2, <1>3, <1>4, <1>5 DEF Next

(* An event on record is never sent again: not by a goroutine that found it *)
(* before, nor after a restart, nor while the closed store denies it.       *)
THEOREM RecordedIsSilent == Spec => SilentOnceNotified
<1>1. Inv /\ [Next]_vars =>
        [\A e \in notified :
            received'[e] = received[e] /\ repeated'[e] = repeated[e]]_vars
  BY OnlyOpenBroadcasts
<1>2. QED
  BY <1>1, Invariance, PTL DEF Spec, SilentOnceNotified

LEMMA PromiseInit == Init => AlertsSpec!Init
BY DEF Init, AlertsSpec!Init

LEMMA PromiseStep == Inv /\ [Next]_vars => [AlertsSpec!Next]_(AlertsSpec!vars)
<1> SUFFICES ASSUME Inv, [Next]_vars
             PROVE  AlertsSpec!Next \/ UNCHANGED AlertsSpec!vars
  OBVIOUS
<1> USE DEF AlertsSpec!vars
<1>1. CASE UNCHANGED vars
  BY <1>1 DEF vars
<1>2. CASE Environment
  <2>1. UNCHANGED <<opened, audience, received, notified>>
    BY <1>2, EnvironmentStep DEF history
  <2>2. UNCHANGED subscribers
          \/ \E c \in Chats : subscribers' \in {subscribers \cup {c}, subscribers \ {c}}
    BY <1>2 DEF Environment, Publish, Withdraw, Block, Unblock, Start, Stop,
                AddSubscriber, RemoveSubscriber,
                CooldownOver, AnnouncementOver, CloseStore
  <2>3. QED
    BY <2>1, <2>2 DEF AlertsSpec!Next, AlertsSpec!Join, AlertsSpec!Leave
<1>3. CASE Restart
  BY <1>3 DEF Restart
<1>4. CASE PollTick \/ Lock \/ \E p \in Checkers : CheckCommand(p) \/ TryLock(p)
  BY <1>4 DEF PollTick, Lock, CheckCommand, TryLock, history
<1>5. ASSUME NEW p \in Procs, Step(p)
      PROVE  AlertsSpec!Next \/ UNCHANGED AlertsSpec!vars
  <2> DEFINE e == event[p]
  <2> USE DEF AlertsSpec!Next
  <2>0. TypeOK /\ Broadcast(p)
    BY DEF Inv, Broadcasts
  <2>1. CASE Check(p) \/ SkipEvent(p) \/ TakeEvent(p) \/ EndOfBatch(p) \/ EndOfAttempt(p)
    BY <2>1 DEF Check, SkipEvent, TakeEvent, EndOfBatch, EndOfAttempt, history
  <2>2. CASE Load(p)
    <3>1. e \in Events /\ (storeOpen => e \notin notified)
      BY <2>0, <2>2 DEF Load, TypeOK, Broadcast
    <3>2. AlertsSpec!OpenRound(e) \/ UNCHANGED AlertsSpec!vars
      BY <2>2, <3>1 DEF Load, AlertsSpec!OpenRound
    <3>3. QED
      BY <3>1, <3>2
  <2>3. CASE SendPhoto(p) \/ SendText(p)
    <3>1. /\ at[p] = "send"
          /\ UNCHANGED <<subscribers, opened, audience, notified>>
      BY <2>3 DEF SendPhoto, SendText
    <3>2. /\ e \in Events /\ e \in opened \ notified
          /\ todo[p] \subseteq audience[e] /\ todo[p] \subseteq Chats
      BY <2>0, <3>1 DEF Broadcast, TypeOK
    <3>3. received' = received \/ \E c \in todo[p] : Arrive(c, e)
      BY <1>5, <2>0, RunEffect
    <3>4. ASSUME NEW c \in todo[p], Arrive(c, e)
          PROVE  AlertsSpec!Deliver(c, e)
      BY <3>1, <3>2, <3>4 DEF Arrive, AlertsSpec!Deliver
    <3>5. QED
      BY <3>1, <3>2, <3>3, <3>4
  <2>4. CASE Mark(p)
    <3>1. /\ e \in Events /\ e \in opened \ notified
          /\ audience[e] \subseteq received[e]
      BY <2>0, <2>4 DEF Mark, MarkNotified, Broadcast, TypeOK
    <3>2. AlertsSpec!Settle(e) \/ UNCHANGED AlertsSpec!vars
      BY <2>4, <3>1 DEF Mark, MarkNotified, AlertsSpec!Settle
    <3>3. QED
      BY <3>1, <3>2
  <2>5. QED
    BY <1>5, <2>1, <2>2, <2>3, <2>4 DEF Step
<1>6. QED
  BY <1>1, <1>2, <1>3, <1>4, <1>5 DEF Next

(* The program, with its mutex, its attempts, its faults and its restarts,  *)
(* keeps the promise of module Alerts.                                      *)
THEOREM KeepsThePromise == Spec => Implements
<1>1. QED
  BY PromiseInit, PromiseStep, Invariance, PTL DEF Spec, Implements, AlertsSpec!Spec

-----------------------------------------------------------------------------
(* What the promise means to one chat. *)

(* An event that is recorded was broadcast, and its audience has it.        *)
LEMMA RecordedWasOpened ==
    ASSUME Inv
    PROVE  \A e \in notified : e \in Events /\ e \in opened /\ audience[e] \subseteq received[e]
BY DEF Inv, TypeOK, NotifiedMeansReceived

(* Whoever is subscribed before an event is broadcast for the first time,   *)
(* and stays, has received it when it is recorded: no attempt, restart or   *)
(* second run loses him on the way (Notify, MarkNotified).                  *)
THEOREM SubscribersMissNothing ==
    ASSUME NEW c \in Chats, NEW e \in Events
    PROVE  Spec => [](e \notin opened /\ [](c \in subscribers)
                        => [](e \in notified => c \in received[e]))
<1> DEFINE Served == e \in opened => c \in audience[e]
           Subscribed == c \in subscribers
           Unopened == e \notin opened
           Received == e \in notified => c \in received[e]
<1>1. Unopened => Served
  OBVIOUS
<1>2. Inv /\ [Next]_vars /\ Subscribed /\ Served => Served'
  <2> SUFFICES ASSUME Inv, [Next]_vars, Subscribed, Served PROVE Served'
    OBVIOUS
  <2>1. [AlertsSpec!Next]_(AlertsSpec!vars)
    BY PromiseStep
  <2>2. audience \in [Events -> SUBSET Chats]
    BY DEF Inv, TypeOK
  <2>3. CASE UNCHANGED AlertsSpec!vars
    BY <2>3 DEF AlertsSpec!vars
  <2>4. CASE AlertsSpec!Next
    BY <2>2, <2>4 DEF AlertsSpec!Next, AlertsSpec!Join, AlertsSpec!Leave, AlertsSpec!OpenRound,
                      AlertsSpec!Deliver, AlertsSpec!Settle
  <2>5. QED
    BY <2>1, <2>3, <2>4
<1>3. Inv /\ Served => Received
  BY RecordedWasOpened
<1> HIDE DEF Served, Subscribed, Unopened, Received
<1>4. Spec => [](Unopened /\ []Subscribed => []Received)
  BY <1>1, <1>2, <1>3, Invariance, PTL DEF Spec
<1>5. QED
  BY <1>4 DEF Subscribed, Unopened, Received

(* A chat that never subscribes never gets a copy.                          *)
THEOREM StrangersHearNothing ==
    ASSUME NEW c \in Chats
    PROVE  Spec /\ [](c \notin subscribers) => [](\A e \in Events : c \notin received[e])
<1> DEFINE Stranger == c \notin subscribers
           Unasked == \A e \in Events : c \notin audience[e] /\ c \notin received[e]
           Unserved == \A e \in Events : c \notin received[e]
<1>1. Init => Unasked
  BY DEF Init
<1>2. Inv /\ [Next]_vars /\ Stranger /\ Unasked => Unasked'
  <2> SUFFICES ASSUME Inv, [Next]_vars, Stranger, Unasked PROVE Unasked'
    OBVIOUS
  <2>1. [AlertsSpec!Next]_(AlertsSpec!vars)
    BY PromiseStep
  <2>2. audience \in [Events -> SUBSET Chats] /\ received \in [Events -> SUBSET Chats]
    BY DEF Inv, TypeOK
  <2>3. CASE UNCHANGED AlertsSpec!vars
    BY <2>3 DEF AlertsSpec!vars
  <2>4. CASE AlertsSpec!Next
    BY <2>2, <2>4 DEF AlertsSpec!Next, AlertsSpec!Join, AlertsSpec!Leave, AlertsSpec!OpenRound,
                      AlertsSpec!Deliver, AlertsSpec!Settle
  <2>5. QED
    BY <2>1, <2>3, <2>4
<1>3. Unasked => Unserved
  OBVIOUS
<1> HIDE DEF Stranger, Unasked, Unserved
<1>4. Spec /\ []Stranger => []Unserved
  BY <1>1, <1>2, <1>3, Invariance, PTL DEF Spec
<1>5. QED
  BY <1>4 DEF Stranger, Unserved
=============================================================================
