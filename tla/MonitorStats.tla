---------------------------- MODULE MonitorStats -----------------------------
(***************************************************************************)
(* What the bot remembers of the last check of every monitor (monitorStat  *)
(* in appState.stats) and what it tells the admin: an error that is new or *)
(* that has changed, every tenth one that stays, and the recovery.  The    *)
(* memory is lost when the process is restarted; a message may be lost on  *)
(* its way, for sendDirect only logs the error.                            *)
(*                                                                         *)
(* A check fails if none of the three ways to fetch the page works (module *)
(* Fetcher); that of AXS also on a page that was fetched and cannot be     *)
(* read, unless the language model finds events in it.  The Chinese        *)
(* monitor, for which the model reads everything, does not fetch while the *)
(* model's client is disabled, and does not call that an error.  Runs      *)
(* exclude each other (module Delivery) and take every monitor in turn;    *)
(* when they begin is in Polling.                                          *)
(***************************************************************************)
EXTENDS Fetcher, FiniteSets

CONSTANTS
    Monitors,       \* those whose source is fetched by package fetcher
    Texts,          \* what an error may say
    NoError,
    RenotifyEvery,  \* adminRenotifyEvery: 10
    MaxFaults       \* bound on restarts and lost messages in a behaviour

ASSUME StatsAssumption ==
    /\ IsFiniteSet(Monitors)
    /\ Texts # {} /\ NoError \notin Texts
    /\ RenotifyEvery \in Nat \ {0, 1}
    /\ MaxFaults \in Nat

Ways == {"tls", "curl", "solver"}

VARIABLES
    configured,     \* FLARESOLVERR_URL is not empty
    chinese,        \* the monitors like CNDotaMonitor; the others are like AXSMonitor
    aiOn,           \* IsEnabled() of the client of the language model
    works,          \* works[m]: the ways m's page can be fetched just now
    strange,        \* the monitors whose page extractAXSEvents cannot read just now
    todo,           \* the monitors the run under way has still to check
    text,           \* text[m]: lastErrText
    fails,          \* fails[m]: consecutiveFails modulo RenotifyEvery
    (* History, which no guard of the program reads. *)
    told,           \* told[m]: the last message on m the admin has got
    missed,         \* missed[m]: one was lost since, or the memory of m
    silent,         \* silent[m]: checks that failed since the last message, up to
                    \* RenotifyEvery
    faults

stats == <<text, fails>>
history == <<told, missed, silent>>
sources == <<configured, chinese, aiOn, works, strange>>
vars == <<configured, chinese, aiOn, works, strange, todo, text, fails, told, missed, silent, faults>>

TypeOK ==
    /\ configured \in BOOLEAN
    /\ chinese \subseteq Monitors
    /\ aiOn \in BOOLEAN
    /\ works \in [Monitors -> SUBSET Ways]
    /\ strange \subseteq Monitors
    /\ todo \subseteq Monitors
    /\ text \in [Monitors -> Texts \cup {NoError}]
    /\ fails \in [Monitors -> 0 .. RenotifyEvery - 1]
    /\ told \in [Monitors -> {"nothing", "broken", "recovered"}]
    /\ missed \in [Monitors -> BOOLEAN]
    /\ silent \in [Monitors -> 0 .. RenotifyEvery]
    /\ faults \in 0 .. MaxFaults

Fault == faults < MaxFaults /\ faults' = faults + 1

Init ==
    /\ configured \in BOOLEAN
    /\ chinese \in SUBSET Monitors
    /\ aiOn = TRUE
    /\ works = [m \in Monitors |-> Ways]
    /\ strange = {}
    /\ todo = {}
    /\ text = [m \in Monitors |-> NoError]
    /\ fails = [m \in Monitors |-> 0]
    /\ told = [m \in Monitors |-> "nothing"]
    /\ missed = [m \in Monitors |-> FALSE]
    /\ silent = [m \in Monitors |-> 0]
    /\ faults = 0

(* Cloudflare puts its challenge before a page or takes it away; the        *)
(* browser dies or comes back.                                              *)
Change(m) ==
    /\ \E way \in Ways :
         works' = [works EXCEPT ![m] = IF way \in @ THEN @ \ {way} ELSE @ \cup {way}]
    /\ UNCHANGED <<configured, chinese, aiOn, strange, todo, stats, history, faults>>

(* AXS shows a page that is not its own or whose state is broken, or shows  *)
(* one that can be read again.                                              *)
Render(m) ==
    /\ m \notin chinese
    /\ strange' = IF m \in strange THEN strange \ {m} ELSE strange \cup {m}
    /\ UNCHANGED <<configured, chinese, aiOn, works, todo, stats, history, faults>>

(* Failed requests have disabled the client of the model, or it has cooled  *)
(* down.                                                                    *)
Switch ==
    /\ aiOn' = ~aiOn
    /\ UNCHANGED <<configured, chinese, works, strange, todo, stats, history, faults>>

(* A new process: the statistics begin anew, and the client is enabled.     *)
Restart ==
    /\ Fault
    /\ todo' = {}
    /\ text' = [m \in Monitors |-> NoError]
    /\ fails' = [m \in Monitors |-> 0]
    /\ missed' = [m \in Monitors |-> missed[m] \/ text[m] # NoError]
    /\ silent' = [m \in Monitors |-> 0]
    /\ aiOn' = TRUE
    /\ UNCHANGED <<configured, chinese, works, strange, told>>

(* A run begins, of the poller or of /check. *)
BeginRun ==
    /\ todo = {}
    /\ todo' = Monitors
    /\ UNCHANGED <<sources, stats, history, faults>>

(* What the tries of a fetch may meet: a page where the way works; of the   *)
(* three rounds of a browser that works one gives the page, unless a round  *)
(* before it gave a challenge page, which ends the rounds.                  *)
Meets(ways) ==
    {met \in Meetings :
       /\ Real(met.tls) <=> "tls" \in ways
       /\ Real(met.curl) <=> "curl" \in ways
       /\ IF "solver" \in ways THEN Real(met.solver[LastRound(met.solver)])
          ELSE \A i \in Rounds : ~Real(met.solver[i])}

(* What a fetch can come to, by the ways that work. *)
Outcomes ==
    [ways \in SUBSET Ways |->
       [c \in BOOLEAN |-> {Fetched(met, c) : met \in Meets(ways)}]]

(* sendDirect: an error is only logged. *)
Send(m, message) ==
    /\ silent' = [silent EXCEPT ![m] = 0]
    /\ \/ /\ told' = [told EXCEPT ![m] = message]
          /\ missed' = [missed EXCEPT ![m] = FALSE]
          /\ UNCHANGED faults
       \/ /\ missed' = [missed EXCEPT ![m] = TRUE]
          /\ Fault
          /\ UNCHANGED told

KeepSilent(m, error) ==
    /\ silent' = [silent EXCEPT ![m] = IF error = NoError THEN 0
                                       ELSE IF @ = RenotifyEvery THEN @ ELSE @ + 1]
    /\ UNCHANGED <<told, missed, faults>>

(* Mutants: an error that stays is mentioned once; its end is not. *)
NotifyOnce(m, error) == error # text[m]

NotifyErrors(m, error) ==
    error # NoError /\ (error # text[m] \/ (fails[m] + 1) % RenotifyEvery = 0)

(* updateAndCheck: whether the admin is to hear of the result.              *)
ShouldNotify(m, error) ==
    \/ error # text[m]
    \/ error # NoError /\ (fails[m] + 1) % RenotifyEvery = 0

(* Mutant: the count runs on. *)
UpdateRunsOn(m, error) ==
    /\ text' = [text EXCEPT ![m] = error]
    /\ fails' = [fails EXCEPT ![m] = IF error = NoError THEN 0 ELSE @ + 1]
    /\ IF ShouldNotify(m, error)
       THEN Send(m, IF error = NoError THEN "recovered" ELSE "broken")
       ELSE KeepSilent(m, error)

UpdateAndCheck(m, error) ==
    /\ text' = [text EXCEPT ![m] = error]
    /\ fails' = [fails EXCEPT ![m] = IF error = NoError THEN 0
                                     ELSE IF error # text[m] THEN 1
                                     ELSE (@ + 1) % RenotifyEvery]
    /\ IF ShouldNotify(m, error)
       THEN Send(m, IF error = NoError THEN "recovered" ELSE "broken")
       ELSE KeepSilent(m, error)

(* The Chinese monitor returns at once: nothing found, no error. *)
Skips(m) == m \in chinese /\ ~aiOn

(* Mutant: a page that cannot be read is no error. *)
ErrorsOfFetch(m, fetched) == IF fetched THEN {NoError} ELSE Texts

(* How the check ends that has fetched a page or not: the error of the      *)
(* fetch; none; or that of the extraction, unless the model finds an event. *)
Errors(m, fetched) ==
    IF ~fetched THEN Texts
    ELSE IF m \notin strange THEN {NoError}
    ELSE IF aiOn THEN Texts \cup {NoError} ELSE Texts

(* Monitor.Check of one monitor, and what the run makes of it. *)
Check(m) ==
    /\ m \in todo
    /\ todo' = todo \ {m}
    /\ IF Skips(m) THEN UpdateAndCheck(m, NoError)
       ELSE \E fetched \in Outcomes[works[m]][configured] :
              \E error \in Errors(m, fetched) : UpdateAndCheck(m, error)
    /\ UNCHANGED sources

Next ==
    \/ \E m \in Monitors : Change(m) \/ Render(m) \/ Check(m)
    \/ Switch
    \/ BeginRun
    \/ Restart

Spec == Init /\ [][Next]_vars

(* Runs begin again and again (Polling!RunsComplete) and checks end.        *)
FairSpec ==
    Spec /\ WF_vars(BeginRun) /\ \A m \in Monitors : WF_vars(Check(m))

-----------------------------------------------------------------------------
(* The admin's last message on a monitor tells what its last check found,   *)
(* unless a message was lost or a restart forgot the error: for an error    *)
(* that comes, one that changes, one that goes and comes between messages.  *)
KnowsUnlessMissed ==
    \A m \in Monitors : ~missed[m] => (told[m] = "broken" <=> text[m] # NoError)

(* A source that fails is never passed over for as many checks as           *)
(* adminRenotifyEvery: whatever the errors say, however often they change   *)
(* or go, and though the message before was lost.                           *)
NeverSilentForLong == \A m \in Monitors : silent[m] < RenotifyEvery

(* There is a way to m's page that works and that the bot may take. *)
Reachable(m) == \E way \in works[m] : way # "solver" \/ configured

(* README: ADMIN_CHAT_ID gets the errors.  A source that every check fails  *)
(* on -- no way of the fetcher reaches it, or its page cannot be read and   *)
(* the model is not asked -- is reported to the admin in the end, though    *)
(* the first message be lost or the process restarted.  A monitor that does *)
(* not even look is not meant.                                              *)
Fails(m) ==
    /\ ~Skips(m)
    /\ ~Reachable(m) \/ (m \in strange /\ ~aiOn)

OutageIsReported ==
    \A m \in Monitors :
       <>[]Fails(m) => <>[](told[m] = "broken")

(* A page that one of the ways reaches, and that can be read, is no error   *)
(* any more: one way is enough, whichever.                                  *)
OneWayIsEnough ==
    \A m \in Monitors :
       <>[](Reachable(m) /\ m \notin strange) => <>[](text[m] = NoError)
=============================================================================
