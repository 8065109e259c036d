------------------------------ MODULE Delivery ------------------------------
(***************************************************************************)
(* The core of DotaTicketWatch: the checking runs (runChecks) of the       *)
(* polling goroutine and of the goroutines the admin's /check starts, the  *)
(* mutex they share, the broadcast of a found event to all subscribers     *)
(* with three attempts, and the bbolt record of events already notified.   *)
(*                                                                         *)
(* Around it: subscribers come and go while a broadcast is under way,      *)
(* chats block the bot, Telegram loses requests or answers, writes fail,   *)
(* the store is closed at shutdown before the goroutines are gone, and     *)
(* the process dies and starts again with only the database left.          *)
(*                                                                         *)
(* Abstractions.  A monitor is the set of its events that its source       *)
(* publishes now; how they are recognised is the business of other         *)
(* modules.  A batch of events and a list of subscribers are sets: they    *)
(* are worked off in any order.  The five-second pause between attempts    *)
(* and the admin's messages have no state here.  The per-monitor           *)
(* statistics that updateAndCheck keeps influence admin messages only.     *)
(***************************************************************************)
EXTENDS Integers

CONSTANTS
    Chats,          \* Telegram chats that may subscribe
    Events,         \* what the monitors can find
    WithImage,      \* events with an ImageURL: sent as a photo first
    Announcing,     \* announcements of a source other than reddit
    NumMonitors,    \* monitors are asked one after the other, 1..NumMonitors
    MonitorOf,      \* MonitorOf[e]: the monitor that can find e
    Poll,           \* the polling goroutine
    Checkers,       \* slots for the goroutines /check starts
    Free,           \* the mutex when nobody holds it
    NoEvent,        \* no event is being broadcast
    MaxAttempts,    \* attempts to broadcast an event in one go: 3
    MaxFaults       \* bound on transient faults and restarts in a behaviour

Procs == {Poll} \cup Checkers

ASSUME EventsAssumption ==
    /\ WithImage \subseteq Events
    /\ Announcing \subseteq Events
    /\ NoEvent \notin Events
    /\ NumMonitors \in Nat \ {0}
    /\ MonitorOf \in [Events -> 1 .. NumMonitors]

ASSUME ProcsAssumption == Poll \notin Checkers /\ Free \notin Procs

ASSUME BoundsAssumption == MaxAttempts \in Nat \ {0} /\ MaxFaults \in Nat

VARIABLES
    (* The world outside the process. *)
    published,      \* the events their sources show now
    blocked,        \* the chats that have blocked the bot
    (* The database, which survives a restart. *)
    subscribers,    \* bucket subscribers
    notified,       \* bucket notified_events
    (* The memory of the process. *)
    storeOpen,      \* the database is open
    checkMu,        \* the holder of the mutex checkMu, or Free
    cooling,        \* lastCheck is less than checkCooldown ago
    announced,      \* announcedAt is set and less than 72 hours ago
    at,             \* at[p]: the call goroutine p is about to make
    monitor,        \* monitor[p]: the monitor p asks or has asked
    batch,          \* batch[p]: the events found and still to be looked at
    event,          \* event[p]: the event p is broadcasting
    attempt,        \* attempt[p]: which attempt at it this is
    todo,           \* todo[p]: the loaded subscribers still to be sent to
    plain,          \* plain[p]: the one whose photo failed, due the text instead
    failed,         \* failed[p]: this attempt has missed a chat
    (* History, which no guard of the program reads. *)
    opened,         \* the events of which some broadcast has begun
    audience,       \* audience[e]: the subscribers the last broadcast of e loaded
    received,       \* received[e]: the chats that have a copy of e
    repeated,       \* repeated[e]: the chats that have more than one
    excused,        \* the events whose own broadcast met a fault
    faults          \* transient faults and restarts so far

world == <<published, blocked>>
loop == <<monitor, batch, event, attempt>>
list == <<todo, plain, failed>>
history == <<opened, audience, received, repeated, excused>>
vars == <<published, blocked, subscribers, notified, storeOpen, checkMu, cooling,
          announced, at, monitor, batch, event, attempt, todo, plain, failed,
          opened, audience, received, repeated, excused, faults>>

-----------------------------------------------------------------------------
(* Where a goroutine can be:                                                *)
(*   idle    the poller: asleep until the next tick; a checker: not started *)
(*   lock    the poller: in checkMu.Lock(); a checker: about to TryLock()   *)
(*   check   about to ask monitor[p]                                        *)
(*   events  at the head of the loop over the events found                  *)
(*   load    about to load the subscribers for attempt[p]                   *)
(*   send    working off the loaded list                                    *)
(*   mark    every send went well: about to record the event                *)
InRun == {"check", "events", "load", "send", "mark"}
Labels == {"idle", "lock"} \cup InRun

TypeOK ==
    /\ published \subseteq Events
    /\ blocked \subseteq Chats
    /\ subscribers \subseteq Chats
    /\ notified \subseteq Events
    /\ storeOpen \in BOOLEAN
    /\ checkMu \in Procs \cup {Free}
    /\ cooling \in BOOLEAN
    /\ announced \in BOOLEAN
    /\ at \in [Procs -> Labels]
    /\ monitor \in [Procs -> 1 .. NumMonitors]
    /\ batch \in [Procs -> SUBSET Events]
    /\ event \in [Procs -> Events \cup {NoEvent}]
    /\ \A p \in Procs : at[p] \in {"load", "send", "mark"} => event[p] \in Events
    /\ attempt \in [Procs -> 0 .. MaxAttempts]
    /\ todo \in [Procs -> SUBSET Chats]
    /\ plain \in [Procs -> SUBSET Chats]
    /\ failed \in [Procs -> BOOLEAN]
    /\ opened \subseteq Events
    /\ audience \in [Events -> SUBSET Chats]
    /\ received \in [Events -> SUBSET Chats]
    /\ repeated \in [Events -> SUBSET Chats]
    /\ excused \subseteq Events
    /\ faults \in 0 .. MaxFaults

(* The poller of a new process checks at once, and no /check is under way. *)
FirstAt == [p \in Procs |-> IF p = Poll THEN "lock" ELSE "idle"]

All(value) == [p \in Procs |-> value]

(* The subscribers bucket may hold chats from an earlier deployment. *)
Init ==
    /\ published = {}
    /\ blocked = {}
    /\ subscribers \in SUBSET Chats
    /\ notified = {}
    /\ storeOpen = TRUE
    /\ checkMu = Free
    /\ cooling = FALSE
    /\ announced = FALSE
    /\ at = FirstAt
    /\ monitor = All(1)
    /\ batch = All({})
    /\ event = All(NoEvent)
    /\ attempt = All(0)
    /\ todo = All({})
    /\ plain = All({})
    /\ failed = All(FALSE)
    /\ opened = {}
    /\ audience = [e \in Events |-> {}]
    /\ received = [e \in Events |-> {}]
    /\ repeated = [e \in Events |-> {}]
    /\ excused = {}
    /\ faults = 0

(* A transient fault of the world: at most MaxFaults in a behaviour. *)
Fault == faults < MaxFaults /\ faults' = faults + 1
NoFault == faults' = faults

-----------------------------------------------------------------------------
(* The world and the commands that change the subscribers. *)

Publish(e) ==
    /\ published' = published \cup {e}
    /\ UNCHANGED <<blocked, subscribers, notified, storeOpen, checkMu, cooling,
                   announced, at, loop, list, history,
                   faults>>

Withdraw(e) ==
    /\ published' = published \ {e}
    /\ UNCHANGED <<blocked, subscribers, notified, storeOpen, checkMu, cooling,
                   announced, at, loop, list, history,
                   faults>>

Block(c) ==
    /\ blocked' = blocked \cup {c}
    /\ UNCHANGED <<published, subscribers, notified, storeOpen, checkMu, cooling,
                   announced, at, loop, list, history,
                   faults>>

Unblock(c) ==
    /\ blocked' = blocked \ {c}
    /\ UNCHANGED <<published, subscribers, notified, storeOpen, checkMu, cooling,
                   announced, at, loop, list, history,
                   faults>>

(* The storage: a read of a closed database finds nothing, a write fails.   *)
IsSubscribed(c) == storeOpen /\ c \in subscribers
AddSubscriber(c) == storeOpen /\ subscribers' = subscribers \cup {c}
RemoveSubscriber(c) == storeOpen /\ subscribers' = subscribers \ {c}

(* /start *)
Start(c) ==
    /\ ~IsSubscribed(c)
    /\ AddSubscriber(c)
    /\ UNCHANGED <<world, notified, storeOpen, checkMu, cooling, announced, at,
                   loop, list, history, faults>>

(* /stop deletes the chat, subscribed or not. *)
Stop(c) ==
    /\ RemoveSubscriber(c)
    /\ UNCHANGED <<world, notified, storeOpen, checkMu, cooling, announced, at,
                   loop, list, history, faults>>

-----------------------------------------------------------------------------
(* Starting and ending a run. *)

Goto(p, label) == at' = [at EXCEPT ![p] = label]

(* The pause between two polls is over. *)
PollTick ==
    /\ at[Poll] = "idle"
    /\ Goto(Poll, "lock")
    /\ UNCHANGED <<world, subscribers, notified, storeOpen, checkMu, cooling,
                   announced, loop, list, history, faults>>

BeginRun(p) ==
    /\ checkMu = Free
    /\ checkMu' = p
    /\ Goto(p, "check")

(* checkAll: the poller blocks until the mutex is its own. *)
Lock ==
    /\ at[Poll] = "lock"
    /\ BeginRun(Poll)
    /\ UNCHANGED <<world, subscribers, notified, storeOpen, cooling, announced,
                   loop, list, history, faults>>

(* The admin's /check.  The cooldown starts before the first message is     *)
(* sent; without that message there is no goroutine, but the cooldown       *)
(* stays.  Within the cooldown the command only answers "wait".             *)
CheckCommand(p) ==
    /\ ~cooling
    /\ cooling' = TRUE
    /\ at[p] = "idle"
    /\ Goto(p, "lock") \/ UNCHANGED at
    /\ UNCHANGED <<world, subscribers, notified, storeOpen, checkMu, announced,
                   loop, list, history, faults>>

CooldownOver ==
    /\ cooling
    /\ cooling' = FALSE
    /\ UNCHANGED <<world, subscribers, notified, storeOpen, checkMu, announced, at,
                   loop, list, history, faults>>

(* Mutant: the goroutine of /check goes on although TryLock() said no. *)
TryLockIgnored(p) ==
    /\ at[p] = "lock"
    /\ Goto(p, "check")
    /\ checkMu' = IF checkMu = Free THEN p ELSE checkMu
    /\ UNCHANGED <<world, subscribers, notified, storeOpen, cooling, announced,
                   loop, list, history, faults>>

(* The goroutine of /check gives up at once when a run is under way. *)
TryLock(p) ==
    /\ at[p] = "lock"
    /\ \/ BeginRun(p)
       \/ /\ checkMu # Free
          /\ Goto(p, "idle")
          /\ UNCHANGED checkMu
    /\ UNCHANGED <<world, subscribers, notified, storeOpen, cooling, announced,
                   loop, list, history, faults>>

(* Mutant: the mutex is given back after every monitor, not after the run. *)
EndOfBatchUnlocks(p) ==
    /\ at[p] = "events"
    /\ batch[p] = {}
    /\ IF monitor[p] < NumMonitors
       THEN /\ Goto(p, "check")
            /\ monitor' = [monitor EXCEPT ![p] = @ + 1]
       ELSE /\ Goto(p, "idle")
            /\ monitor' = [monitor EXCEPT ![p] = 1]
    /\ checkMu' = Free
    /\ UNCHANGED <<world, subscribers, notified, storeOpen, cooling, announced,
                   batch, event, attempt, list, history, faults>>

(* Mutant: the run ends without unlocking. *)
EndOfBatchKeepsLock(p) ==
    /\ at[p] = "events"
    /\ batch[p] = {}
    /\ IF monitor[p] < NumMonitors
       THEN /\ Goto(p, "check")
            /\ monitor' = [monitor EXCEPT ![p] = @ + 1]
       ELSE /\ Goto(p, "idle")
            /\ monitor' = [monitor EXCEPT ![p] = 1]
    /\ UNCHANGED <<world, subscribers, notified, storeOpen, checkMu, cooling,
                   announced, batch, event, attempt, list, history, faults>>

(* All events of a monitor are done: ask the next one, or end the run and   *)
(* unlock.                                                                  *)
EndOfBatch(p) ==
    /\ at[p] = "events"
    /\ batch[p] = {}
    /\ IF monitor[p] < NumMonitors
       THEN /\ Goto(p, "check")
            /\ monitor' = [monitor EXCEPT ![p] = @ + 1]
            /\ UNCHANGED checkMu
       ELSE /\ Goto(p, "idle")
            /\ monitor' = [monitor EXCEPT ![p] = 1]
            /\ checkMu' = Free
    /\ UNCHANGED <<world, subscribers, notified, storeOpen, cooling, announced,
                   batch, event, attempt, list, history, faults>>

-----------------------------------------------------------------------------
(* The loop over the monitors and their events. *)

(* m.Check(): the events the source shows now, or an error and no events.   *)
Check(p) ==
    /\ at[p] = "check"
    /\ \/ /\ batch' = [batch EXCEPT ![p] = {e \in published : MonitorOf[e] = monitor[p]}]
          /\ NoFault
       \/ /\ UNCHANGED batch
          /\ Fault
    /\ Goto(p, "events")
    /\ UNCHANGED <<world, subscribers, notified, storeOpen, checkMu, cooling,
                   announced, monitor, event, attempt, list, history>>

(* Mutants: the record is not consulted; a broadcast that began counts. *)
NeverNotified(e) == FALSE
AlreadyTried(e) == storeOpen /\ e \in opened

(* AlreadyNotified ignores the error of a closed database and says no. *)
AlreadyNotified(e) == storeOpen /\ e \in notified

SkipEvent(p) ==
    /\ at[p] = "events"
    /\ \E e \in batch[p] :
         /\ AlreadyNotified(e)
         /\ batch' = [batch EXCEPT ![p] = @ \ {e}]
    /\ UNCHANGED <<world, subscribers, notified, storeOpen, checkMu, cooling,
                   announced, at, monitor, event, attempt, list, history,
                   faults>>

TakeEvent(p) ==
    /\ at[p] = "events"
    /\ \E e \in batch[p] :
         /\ ~AlreadyNotified(e)
         /\ batch' = [batch EXCEPT ![p] = @ \ {e}]
         /\ event' = [event EXCEPT ![p] = e]
    /\ attempt' = [attempt EXCEPT ![p] = 1]
    /\ Goto(p, "load")
    /\ UNCHANGED <<world, subscribers, notified, storeOpen, checkMu, cooling,
                   announced, monitor, list, history, faults>>

ForgetList(p) ==
    /\ todo' = [todo EXCEPT ![p] = {}]
    /\ plain' = [plain EXCEPT ![p] = {}]
    /\ failed' = [failed EXCEPT ![p] = FALSE]

(* Back to the loop over the events found, with the current one done. *)
NextEvent(p) ==
    /\ Goto(p, "events")
    /\ event' = [event EXCEPT ![p] = NoEvent]
    /\ attempt' = [attempt EXCEPT ![p] = 0]

(* An attempt failed: another one, or the event is left for the next run.   *)
AttemptFailed(p) ==
    \/ /\ attempt[p] < MaxAttempts
       /\ attempt' = [attempt EXCEPT ![p] = @ + 1]
       /\ Goto(p, "load")
       /\ UNCHANGED event
    \/ /\ attempt[p] = MaxAttempts
       /\ NextEvent(p)

-----------------------------------------------------------------------------
(* Notify: one attempt to broadcast an event. *)

Load(p) ==
    /\ at[p] = "load"
    /\ \/ /\ storeOpen
          /\ todo' = [todo EXCEPT ![p] = subscribers]
          /\ opened' = opened \cup {event[p]}
          /\ audience' = [audience EXCEPT ![event[p]] = subscribers]
          /\ Goto(p, "send")
          /\ UNCHANGED <<event, attempt>>
       \/ /\ ~storeOpen
          /\ AttemptFailed(p)
          /\ UNCHANGED <<todo, opened, audience>>
    /\ UNCHANGED <<world, subscribers, notified, storeOpen, checkMu, cooling,
                   announced, monitor, batch, plain, failed, received, repeated,
                   excused, faults>>

(* A copy of e reaches chat c. *)
Arrive(c, e) ==
    /\ received' = [received EXCEPT ![e] = @ \cup {c}]
    /\ repeated' = [repeated EXCEPT ![e] = IF c \in received[e]
                                           THEN @ \cup {c} ELSE @]

(* A request to Telegram is answered with success, refused, lost on the     *)
(* way, or served without the answer coming back.                           *)
Accepted(c, e) ==
    /\ c \notin blocked
    /\ Arrive(c, e)
    /\ NoFault
    /\ UNCHANGED excused

Refused(c, e) ==
    /\ c \in blocked
    /\ UNCHANGED <<received, repeated>>
    /\ NoFault
    /\ excused' = excused \cup {e}

LostRequest(c, e) ==
    /\ c \notin blocked
    /\ UNCHANGED <<received, repeated>>
    /\ Fault
    /\ excused' = excused \cup {e}

LostAnswer(c, e) ==
    /\ c \notin blocked
    /\ Arrive(c, e)
    /\ Fault
    /\ excused' = excused \cup {e}

(* trySendPhoto: an image Telegram cannot use is refused for any chat, and  *)
(* that is no fault: the text takes its place.                              *)
SendPhoto(p) ==
    /\ at[p] = "send"
    /\ event[p] \in WithImage
    /\ plain[p] = {}
    /\ \E c \in todo[p] :
         \/ /\ Accepted(c, event[p])
            /\ todo' = [todo EXCEPT ![p] = @ \ {c}]
            /\ UNCHANGED plain
         \/ /\ \/ LostAnswer(c, event[p])
               \/ UNCHANGED <<received, repeated, excused, faults>>
            /\ plain' = [plain EXCEPT ![p] = {c}]
            /\ UNCHANGED todo
    /\ UNCHANGED <<world, subscribers, notified, storeOpen, checkMu, cooling,
                   announced, at, loop, failed, opened, audience>>

(* sendText: to the next chat, or to the one whose photo failed. *)
SendText(p) ==
    /\ at[p] = "send"
    /\ \E c \in IF event[p] \in WithImage THEN plain[p] ELSE todo[p] :
         /\ \/ /\ Accepted(c, event[p])
               /\ UNCHANGED failed
            \/ /\ \/ Refused(c, event[p])
                  \/ LostRequest(c, event[p])
                  \/ LostAnswer(c, event[p])
               /\ failed' = [failed EXCEPT ![p] = TRUE]
         /\ todo' = [todo EXCEPT ![p] = @ \ {c}]
    /\ plain' = [plain EXCEPT ![p] = {}]
    /\ UNCHANGED <<world, subscribers, notified, storeOpen, checkMu, cooling,
                   announced, at, loop, opened, audience>>

(* Mutant: Notify reports success although a chat was missed. *)
EndOfAttemptSwallowsError(p) ==
    /\ at[p] = "send"
    /\ todo[p] = {}
    /\ Goto(p, "mark")
    /\ ForgetList(p)
    /\ UNCHANGED <<world, subscribers, notified, storeOpen, checkMu, cooling,
                   announced, monitor, batch, event, attempt, history,
                   faults>>

(* Notify returns: an error when any chat was missed. *)
EndOfAttempt(p) ==
    /\ at[p] = "send"
    /\ todo[p] = {}
    /\ \/ /\ failed[p]
          /\ AttemptFailed(p)
       \/ /\ ~failed[p]
          /\ Goto(p, "mark")
          /\ UNCHANGED <<event, attempt>>
    /\ ForgetList(p)
    /\ UNCHANGED <<world, subscribers, notified, storeOpen, checkMu, cooling,
                   announced, monitor, batch, history, faults>>

(* Mutant: the event is not recorded. *)
MarkNothing(e) == UNCHANGED <<notified, excused, faults>>

MarkNotified(e) ==
    \/ /\ storeOpen
       /\ notified' = notified \cup {e}
       /\ NoFault
       /\ UNCHANGED excused
    \/ /\ IF storeOpen THEN Fault ELSE NoFault
       /\ excused' = excused \cup {e}
       /\ UNCHANGED notified

(* setAnnounced, for announcements that do not come from reddit. *)
SetAnnounced(e) == announced' = (announced \/ e \in Announcing)

(* Every chat was served.  That MarkNotified failed is only logged. *)
Mark(p) ==
    /\ at[p] = "mark"
    /\ MarkNotified(event[p])
    /\ SetAnnounced(event[p])
    /\ NextEvent(p)
    /\ UNCHANGED <<world, subscribers, storeOpen, checkMu, cooling, monitor, batch,
                   list, opened, audience, received, repeated>>

-----------------------------------------------------------------------------
(* Time, shutdown and restart. *)

(* 72 hours since the last announcement. *)
AnnouncementOver ==
    /\ announced
    /\ announced' = FALSE
    /\ UNCHANGED <<world, subscribers, notified, storeOpen, checkMu, cooling, at,
                   loop, list, history, faults>>

(* SIGTERM: main returns and closes the store; the goroutines are still     *)
(* there for a moment.                                                      *)
CloseStore ==
    /\ storeOpen
    /\ storeOpen' = FALSE
    /\ Fault
    /\ UNCHANGED <<world, subscribers, notified, checkMu, cooling, announced, at,
                   loop, list, history>>

InBroadcast(p, e) == at[p] \in {"send", "mark"} /\ event[p] = e

(* The process ends, after a shutdown or by a crash, and a new one begins.  *)
Restart ==
    /\ IF storeOpen THEN Fault ELSE NoFault
    /\ storeOpen' = TRUE
    /\ checkMu' = Free
    /\ cooling' = FALSE
    /\ announced' = FALSE
    /\ at' = FirstAt
    /\ monitor' = All(1)
    /\ batch' = All({})
    /\ event' = All(NoEvent)
    /\ attempt' = All(0)
    /\ todo' = All({})
    /\ plain' = All({})
    /\ failed' = All(FALSE)
    /\ excused' = excused \cup {e \in Events : \E p \in Procs : InBroadcast(p, e)}
    /\ UNCHANGED <<world, subscribers, notified, opened, audience, received,
                   repeated>>

-----------------------------------------------------------------------------
(* The steps of a run that need nothing but the goroutine itself. *)
Step(p) ==
    \/ Check(p) \/ SkipEvent(p) \/ TakeEvent(p) \/ EndOfBatch(p)
    \/ Load(p) \/ SendPhoto(p) \/ SendText(p) \/ EndOfAttempt(p) \/ Mark(p)

Environment ==
    \/ \E e \in Events : Publish(e) \/ Withdraw(e)
    \/ \E c \in Chats : Block(c) \/ Unblock(c) \/ Start(c) \/ Stop(c)
    \/ CooldownOver \/ AnnouncementOver \/ CloseStore

Next ==
    \/ Environment
    \/ Restart
    \/ PollTick \/ Lock
    \/ \E p \in Checkers : CheckCommand(p) \/ TryLock(p)
    \/ \E p \in Procs : Step(p)

Spec == Init /\ [][Next]_vars

(* Goroutines are scheduled, the timer of the poller fires, and a process   *)
(* whose store is closed ends and is started again.  A goroutine blocked in *)
(* Lock() gets the mutex although TryLock() may overtake it again and       *)
(* again: after a millisecond a Go mutex goes into starvation mode, in      *)
(* which TryLock() fails and Unlock() hands the mutex over.                 *)
Fairness ==
    /\ \A p \in Procs : WF_vars(Step(p))
    /\ \A p \in Checkers : WF_vars(TryLock(p))
    /\ WF_vars(PollTick)
    /\ SF_vars(Lock)
    /\ WF_vars(~storeOpen /\ Restart)

FairSpec == Spec /\ Fairness

-----------------------------------------------------------------------------
(* A run of checks never overlaps another one, although the poller blocks   *)
(* on checkMu, /check only tries it, and both unlock it.                    *)
OneRunAtATime ==
    \A p, q \in Procs : at[p] \in InRun /\ at[q] \in InRun => p = q

(* An event recorded as notified is never sent again, by nobody: not by a   *)
(* goroutine that found it before it was recorded, nor after a restart, nor *)
(* while the closed store answers "not notified yet".                       *)
SilentOnceNotified ==
    [][\A e \in notified :
          received'[e] = received[e] /\ repeated'[e] = repeated[e]]_vars

(* What the record of notified events claims is true: every chat that the   *)
(* last broadcast loaded has a copy, whatever attempts, faults and restarts *)
(* came before.                                                             *)
NotifiedMeansReceived ==
    \A e \in notified : e \in opened /\ audience[e] \subseteq received[e]

(* No chat gets a second copy of an event unless the broadcast of that very *)
(* event met a fault: a chat that cannot be reached, a lost answer, a write *)
(* that failed, a process that died half-way.  In particular /check racing  *)
(* the poller is never a reason.                                            *)
RepeatedOnlyIfExcused ==
    \A e \in Events : repeated[e] # {} => e \in excused

(* The invariant behind the four above, by induction on the steps: who is   *)
(* in a run holds the mutex; a broadcast under way is of an event not yet   *)
(* recorded and has served everyone it loaded but its list of chats to do;  *)
(* and an event without a fault has reached nobody outside its broadcast.   *)
Locked == \A p \in Procs : at[p] \in InRun => checkMu = p

Broadcast(p) ==
    /\ at[p] # "send" => todo[p] = {} /\ plain[p] = {} /\ ~failed[p]
    /\ at[p] = "load" /\ storeOpen => event[p] \notin notified
    /\ at[p] = "send" =>
          /\ event[p] \in opened \ notified
          /\ plain[p] \subseteq todo[p]
          /\ todo[p] \subseteq audience[event[p]]
          /\ failed[p] \/ audience[event[p]] \ todo[p] \subseteq received[event[p]]
    /\ at[p] = "mark" =>
          /\ event[p] \in opened \ notified
          /\ audience[event[p]] \subseteq received[event[p]]

Broadcasts == \A p \in Procs : Broadcast(p)

Faultless ==
    \A e \in Events \ excused :
        /\ repeated[e] = {}
        /\ \A p \in Procs : at[p] = "send" /\ event[p] = e =>
               ~failed[p] /\ received[e] \cap todo[p] = {}
        /\ e \in notified \/ received[e] = {} \/ \E p \in Procs : InBroadcast(p, e)

Inv ==
    /\ TypeOK
    /\ Locked
    /\ Broadcasts
    /\ NotifiedMeansReceived
    /\ Faultless

(* The detailed program keeps the promise of module Alerts. *)
AlertsSpec == INSTANCE Alerts WITH settled <- notified
Implements == AlertsSpec!Spec

(* README: "one time, only one time".  No chat ever gets a second copy.     *)
OnlyOneTime == \A e \in Events : repeated[e] = {}

(* The poller is never shut out by the admin's checks: whenever it wants    *)
(* the mutex it gets it.                                                    *)
PollerGetsItsTurn == at[Poll] = "lock" ~> checkMu = Poll

(* An event that its source goes on publishing is recorded as notified, if  *)
(* from some time on no chat blocks the bot: neither transient faults nor   *)
(* restarts nor earlier failed rounds leave it behind.  It is not enough    *)
(* that the chats subscribed are reachable: one that is loaded, and then    *)
(* leaves and blocks the bot before its turn, fails the attempt too.        *)
PublishedIsNotified ==
    \A e \in Events :
       <>[](e \in published) /\ <>[](blocked = {}) => <>(e \in notified)
=============================================================================
