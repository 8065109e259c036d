----------------------------- MODULE AiBreaker ------------------------------
(***************************************************************************)
(* The circuit breaker of the language-model client (openaiClient): after  *)
(* too many failures in a row, or one that is fatal, the client is         *)
(* disabled and the admin is alerted; after a cooldown that doubles with   *)
(* every trip it is enabled again by whoever asks.                         *)
(*                                                                         *)
(* The client has no lock.  Its six fields are atomics, read and written   *)
(* one at a time by the goroutine of the run of checks and by those of     *)
(* /aitest; every such access is a step of its own here.                   *)
(*                                                                         *)
(* Time is counted in units of cooldownBase, half an hour, and only as the *)
(* age of disabledAtNanos, up to CooldownMax, from where on it makes no    *)
(* difference.  Neither do failures beyond FailureLimit or trips beyond    *)
(* MaxStreak, whose cooldown is CooldownMax already.  The attempts of a    *)
(* request, with the pauses between them, are one step.                    *)
(***************************************************************************)
EXTENDS Integers, FiniteSets

CONSTANTS
    Callers,        \* goroutines that call Complete
    FailureLimit,   \* consecutiveFailuresLimit: 5
    CooldownMax,    \* cooldownMax in units of cooldownBase: 12
    MaxStreak,      \* the number of doublings up to CooldownMax: 5
    MaxRetries,     \* OPENAI_MAX_RETRIES: 1
    Replies         \* what an attempt may come to

Lesser(a, b) == IF a < b THEN a ELSE b

(* cooldownFor: the base for the first trip, twice as much for each further *)
(* one, up to the maximum.                                                  *)
CooldownFor ==
    LET f[n \in 0 .. MaxStreak] ==
          IF n <= 1 THEN 1 ELSE Lesser(2 * f[n - 1], CooldownMax)
    IN  f

ASSUME BreakerAssumption ==
    /\ IsFiniteSet(Callers)
    /\ FailureLimit \in Nat \ {0}
    /\ CooldownMax \in Nat \ {0}
    /\ MaxStreak \in Nat \ {0}
    /\ MaxRetries \in Nat      \* a negative one makes Complete panic
    /\ Replies \subseteq {"answer", "soft", "quota", "refused"}

ASSUME SaturationAssumption == CooldownFor[MaxStreak] = CooldownMax

(* The attempts of a request, those that are not made included; a time-out, *)
(* a rate limit and an answer that makes no sense are all "soft".           *)
Attempts == [0 .. MaxRetries -> Replies]

(* do: an answer ends the attempts, and a key that is refused does; a quota *)
(* that is used up does not.                                                *)
LastAttempt(replies) ==
    CHOOSE i \in 0 .. MaxRetries :
       /\ replies[i] \in {"answer", "refused"} \/ i = MaxRetries
       /\ \A j \in 0 .. i - 1 : replies[j] \notin {"answer", "refused"}

(* What Complete learns of a request: the last attempt, whatever those      *)
(* before it were -- a quota that is used up, too.                          *)
Results == {replies[LastAttempt(replies)] : replies \in Attempts}

HardFatal == {"quota", "refused"}

VARIABLES
    consecutiveFailures,
    disabled,
    age,            \* the time since disabledAtNanos; it begins at the epoch
    hardDisabled,
    notified,
    disableStreak,
    pc,             \* pc[c]: the next atomic access of goroutine c
    since,          \* since[c]: the age c has read
    fatal,          \* fatal[c]: the failure c has met is not worth a retry
    (* History, which no guard of the program reads. *)
    alerts,         \* alerts since a request has last succeeded
    late,           \* the goroutines whose success was still being worked off
                    \* when the first of these alerts was sent
    overlapped      \* two goroutines have been in the client at a time

fields == <<consecutiveFailures, disabled, age, hardDisabled, notified, disableStreak>>
locals == <<since, fatal>>
vars == <<consecutiveFailures, disabled, age, hardDisabled, notified, disableStreak,
          pc, since, fatal, alerts, late, overlapped>>

InIsEnabled == {"hard?", "since", "streak", "reset", "enable"}
InFailure == {"disable", "date", "count", "harden", "alert"}
InSuccess == {"disabled?", "recover", "unmute", "unstreak", "clear"}
Labels == {"idle", "enabled?", "request"} \cup InIsEnabled \cup InFailure \cup InSuccess

TypeOK ==
    /\ consecutiveFailures \in 0 .. FailureLimit
    /\ disabled \in BOOLEAN
    /\ age \in 0 .. CooldownMax
    /\ hardDisabled \in BOOLEAN
    /\ notified \in BOOLEAN
    /\ disableStreak \in 0 .. MaxStreak
    /\ pc \in [Callers -> Labels]
    /\ since \in [Callers -> 0 .. CooldownMax]
    /\ fatal \in [Callers -> BOOLEAN]
    /\ alerts \in Nat
    /\ late \subseteq Callers
    /\ overlapped \in BOOLEAN

Init ==
    /\ consecutiveFailures = 0
    /\ disabled = FALSE
    /\ age = CooldownMax
    /\ hardDisabled = FALSE
    /\ notified = FALSE
    /\ disableStreak = 0
    /\ pc = [c \in Callers |-> "idle"]
    /\ since = [c \in Callers |-> 0]
    /\ fatal = [c \in Callers |-> FALSE]
    /\ alerts = 0
    /\ late = {}
    /\ overlapped = FALSE

Goto(c, label) == pc' = [pc EXCEPT ![c] = label]

(* The goroutines with a success that may still enable the client. *)
Recovering == {c \in Callers : pc[c] \in {"disabled?", "recover", "unmute"}}

Granted == {"request", "idle"}

(* Half an hour goes by. *)
Tick ==
    /\ age < CooldownMax
    /\ age' = age + 1
    /\ UNCHANGED <<consecutiveFailures, disabled, hardDisabled, notified,
                   disableStreak, pc, locals, alerts, late, overlapped>>

-----------------------------------------------------------------------------
(* IsEnabled, asked by itself or at the beginning of Complete.  A caller    *)
(* that is told no returns and may call again; one that is told yes sends a *)
(* request, unless it only asked or the cache has the answer.               *)

Call(c) ==
    /\ pc[c] = "idle"
    /\ Goto(c, "enabled?")
    /\ overlapped' = (overlapped \/ \E d \in Callers : pc[d] # "idle")
    /\ UNCHANGED <<fields, locals, alerts, late>>

LoadDisabled(c) ==
    /\ pc[c] = "enabled?"
    /\ \E next \in Granted : Goto(c, IF disabled THEN "hard?" ELSE next)
    /\ UNCHANGED <<fields, locals, alerts, late>>

(* Mutant: a client that met a fatal failure gets another chance too. *)
LoadHardIgnored(c) ==
    /\ pc[c] = "hard?"
    /\ Goto(c, "since")
    /\ UNCHANGED <<fields, locals, alerts, late>>

LoadHard(c) ==
    /\ pc[c] = "hard?"
    /\ Goto(c, IF hardDisabled THEN "idle" ELSE "since")
    /\ UNCHANGED <<fields, locals, alerts, late>>

LoadSince(c) ==
    /\ pc[c] = "since"
    /\ since' = [since EXCEPT ![c] = age]
    /\ Goto(c, "streak")
    /\ UNCHANGED <<fields, fatal, alerts, late>>

(* Mutants: the cooldown never grows; it never ends. *)
LoadStreakFixed(c) ==
    /\ pc[c] = "streak"
    /\ Goto(c, IF since[c] < 1 THEN "idle" ELSE "reset")
    /\ UNCHANGED <<fields, locals, alerts, late>>

LoadStreakStrict(c) ==
    /\ pc[c] = "streak"
    /\ Goto(c, IF since[c] <= CooldownFor[disableStreak] THEN "idle" ELSE "reset")
    /\ UNCHANGED <<fields, locals, alerts, late>>

LoadStreak(c) ==
    /\ pc[c] = "streak"
    /\ Goto(c, IF since[c] < CooldownFor[disableStreak] THEN "idle" ELSE "reset")
    /\ UNCHANGED <<fields, locals, alerts, late>>

ResetFailures(c) ==
    /\ pc[c] = "reset"
    /\ consecutiveFailures' = 0
    /\ Goto(c, "enable")
    /\ UNCHANGED <<disabled, age, hardDisabled, notified, disableStreak, locals,
                   alerts, late>>

Enable(c) ==
    /\ pc[c] = "enable"
    /\ disabled' = FALSE
    /\ \E next \in Granted : Goto(c, next)
    /\ UNCHANGED <<consecutiveFailures, age, hardDisabled, notified, disableStreak,
                   locals, alerts, late>>

-----------------------------------------------------------------------------
(* The request has failed, with all its retries. *)

RequestFails(c) ==
    /\ pc[c] = "request"
    /\ \E error \in Results \ {"answer"} :
         /\ fatal' = [fatal EXCEPT ![c] = error \in HardFatal]
         /\ consecutiveFailures' = Lesser(consecutiveFailures + 1, FailureLimit)
         /\ Goto(c, IF error \in HardFatal \/ consecutiveFailures + 1 >= FailureLimit
                    THEN "disable" ELSE "idle")
    /\ UNCHANGED <<disabled, age, hardDisabled, notified, disableStreak, since,
                   alerts, late>>

Disable(c) ==
    /\ pc[c] = "disable"
    /\ disabled' = TRUE
    /\ Goto(c, "date")
    /\ UNCHANGED <<consecutiveFailures, age, hardDisabled, notified, disableStreak,
                   locals, alerts, late>>

Date(c) ==
    /\ pc[c] = "date"
    /\ age' = 0
    /\ Goto(c, "count")
    /\ UNCHANGED <<consecutiveFailures, disabled, hardDisabled, notified,
                   disableStreak, locals, alerts, late>>

(* Mutant: the count of trips is not saturated by the cooldown. *)
CountUnbounded(c) ==
    /\ pc[c] = "count"
    /\ disableStreak' = disableStreak + 1
    /\ Goto(c, IF fatal[c] THEN "harden" ELSE "alert")
    /\ UNCHANGED <<consecutiveFailures, disabled, age, hardDisabled, notified,
                   locals, alerts, late>>

Count(c) ==
    /\ pc[c] = "count"
    /\ disableStreak' = Lesser(disableStreak + 1, MaxStreak)
    /\ Goto(c, IF fatal[c] THEN "harden" ELSE "alert")
    /\ UNCHANGED <<consecutiveFailures, disabled, age, hardDisabled, notified,
                   locals, alerts, late>>

Harden(c) ==
    /\ pc[c] = "harden"
    /\ hardDisabled' = TRUE
    /\ Goto(c, "alert")
    /\ UNCHANGED <<consecutiveFailures, disabled, age, notified, disableStreak,
                   locals, alerts, late>>

(* The admin is alerted. *)
Announce ==
    /\ alerts' = alerts + 1
    /\ late' = IF alerts = 0 THEN Recovering ELSE late

(* Mutants: every trip is announced; the announcement is not remembered. *)
AlertAlways(c) ==
    /\ pc[c] = "alert"
    /\ notified' = TRUE
    /\ Announce
    /\ Goto(c, "idle")
    /\ UNCHANGED <<consecutiveFailures, disabled, age, hardDisabled, disableStreak,
                   locals>>

AlertForgotten(c) ==
    /\ pc[c] = "alert"
    /\ IF notified THEN UNCHANGED <<alerts, late>> ELSE Announce
    /\ Goto(c, "idle")
    /\ UNCHANGED <<fields, locals>>

(* notified.Swap(true): only the one that finds it false alerts the admin.  *)
Alert(c) ==
    /\ pc[c] = "alert"
    /\ notified' = TRUE
    /\ IF notified THEN UNCHANGED <<alerts, late>> ELSE Announce
    /\ Goto(c, "idle")
    /\ UNCHANGED <<consecutiveFailures, disabled, age, hardDisabled, disableStreak,
                   locals>>

-----------------------------------------------------------------------------
(* The request has succeeded. *)

RequestSucceeds(c) ==
    /\ pc[c] = "request"
    /\ "answer" \in Results
    /\ alerts' = 0
    /\ late' = {}
    /\ Goto(c, "disabled?")
    /\ UNCHANGED <<fields, locals>>

StillDisabled(c) ==
    /\ pc[c] = "disabled?"
    /\ Goto(c, IF disabled THEN "recover" ELSE "clear")
    /\ UNCHANGED <<fields, locals, alerts, late>>

Recover(c) ==
    /\ pc[c] = "recover"
    /\ disabled' = FALSE
    /\ Goto(c, "unmute")
    /\ UNCHANGED <<consecutiveFailures, age, hardDisabled, notified, disableStreak,
                   locals, alerts, late>>

Unmute(c) ==
    /\ pc[c] = "unmute"
    /\ notified' = FALSE
    /\ Goto(c, "unstreak")
    /\ UNCHANGED <<consecutiveFailures, disabled, age, hardDisabled, disableStreak,
                   locals, alerts, late>>

Unstreak(c) ==
    /\ pc[c] = "unstreak"
    /\ disableStreak' = 0
    /\ Goto(c, "clear")
    /\ UNCHANGED <<consecutiveFailures, disabled, age, hardDisabled, notified,
                   locals, alerts, late>>

Clear(c) ==
    /\ pc[c] = "clear"
    /\ consecutiveFailures' = 0
    /\ Goto(c, "idle")
    /\ UNCHANGED <<disabled, age, hardDisabled, notified, disableStreak, locals,
                   alerts, late>>

-----------------------------------------------------------------------------
IsEnabled(c) ==
    LoadDisabled(c) \/ LoadHard(c) \/ LoadSince(c) \/ LoadStreak(c)
      \/ ResetFailures(c) \/ Enable(c)

Fail(c) ==
    RequestFails(c) \/ Disable(c) \/ Date(c) \/ Count(c) \/ Harden(c) \/ Alert(c)

Succeed(c) ==
    RequestSucceeds(c) \/ StillDisabled(c) \/ Recover(c) \/ Unmute(c)
      \/ Unstreak(c) \/ Clear(c)

Complete(c) ==
    /\ IsEnabled(c) \/ Fail(c) \/ Succeed(c)
    /\ UNCHANGED overlapped

Next ==
    \/ Tick
    \/ \E c \in Callers : Call(c) \/ Complete(c)

Spec == Init /\ [][Next]_vars

(* Somebody calls again and again (the poller does, in every run), calls    *)
(* end (every request has a timeout), and time goes by.                     *)
FairSpec ==
    /\ Spec
    /\ WF_vars(Tick)
    /\ WF_vars(\E c \in Callers : Call(c))
    /\ \A c \in Callers : WF_vars(Complete(c))

-----------------------------------------------------------------------------
AllIdle == \A c \in Callers : pc[c] = "idle"

(* The admin is told "disabled for 30 minutes" once per outage, however many *)
(* goroutines trip the breaker and however often: between two requests that *)
(* succeed there is one alert, and at most one more for every goroutine     *)
(* whose own success, come before the alert, was worked off after it (it    *)
(* resets the alert of an outage it knows nothing of).                      *)
OneAlertUntilRecovery == alerts <= 1 + Cardinality(late)

(* No request is sent while the cooldown of the last trip runs, as long as  *)
(* there is one goroutine; with two, one may read the old date while the    *)
(* other trips.                                                             *)
QuietWhileCooling ==
    [][\A c \in Callers :
          pc[c] # "request" /\ pc'[c] = "request" /\ ~overlapped
            => age >= CooldownFor[disableStreak]]_vars

(* A key that is refused or a quota that is used up disables the client for *)
(* good.  With two goroutines it need not: a success that was under way     *)
(* enables it.                                                              *)
HardMeansOff == hardDisabled /\ AllIdle /\ ~overlapped => disabled

(* A client that is disabled is one the admin has been alerted about; again *)
(* for one goroutine only, as another may reset the alert in between.       *)
DisabledMeansAlerted == disabled /\ AllIdle /\ ~overlapped => notified

(* cooldownFor: an outage of the service is never for ever.  However long, a *)
(* client is enabled again some time after the last trip, unless the        *)
(* failure was fatal.  That is the code; README.md:110 has the client off   *)
(* until a restart (see AlertsAgainAfterRecovery).                          *)
OutageEnds == disabled ~> ~disabled \/ hardDisabled

(* client_test.go, AlertsOnceUntilRecovery: "re-disable without recovery    *)
(* must not re-alert".  After a recovery it must: the outage that has       *)
(* disabled the client since a request last succeeded has been announced.   *)
(* This would hold as well if, as README.md:110 says, a client disabled by  *)
(* failures did nothing until the process is started anew: there would be   *)
(* one outage, and it is announced.  Its failure refutes both.              *)
AlertsAgainAfterRecovery == disabled /\ AllIdle => alerts > 0
=============================================================================
