------------------------------- MODULE Polling -------------------------------
(***************************************************************************)
(* The time a run of checks takes, the heartbeat the poller writes after   *)
(* it, and the health check of the container that reads the heartbeat.     *)
(*                                                                         *)
(* The monitors are checked one after the other; while a page hangs, all   *)
(* others wait.  A container whose heartbeat was too old at three probes   *)
(* in a row is restarted (docker-compose.yml: healthcheck and autoheal);   *)
(* the file stays, so that the new process begins with an old heartbeat.   *)
(*                                                                         *)
(* Time is counted in minutes, and durations are rounded up; what takes    *)
(* less than a try's time-out takes none, and the time of the language     *)
(* model and of broadcasts is not counted.  Ages are counted up to where   *)
(* they make no difference any more.  What checks find is in NewsWatch and *)
(* AxsWatch, what the admin hears of their errors in MonitorStats.         *)
(***************************************************************************)
EXTENDS Fetcher, Sequences

CONSTANTS
    Monitors,       \* the monitors, in the order runChecks takes them
    Pages,          \* those whose source is fetched by package fetcher
    BaseInterval,   \* POLL_INTERVAL_MINUTES
    MaxFaults       \* bound on crashes in a behaviour

Names == {Monitors[i] : i \in 1 .. Len(Monitors)}

ASSUME PollingAssumption ==
    /\ Monitors \in Seq(Names) /\ Len(Monitors) > 0
    /\ Pages \subseteq Names
    /\ BaseInterval \in Nat /\ BaseInterval >= 2
    /\ MaxFaults \in Nat

(* docker-compose.yml: a heartbeat of 900 seconds is too old, the probes of *)
(* the first 180 seconds do not count, and three failures are enough.       *)
StaleAfter == 15
StartPeriod == 3
Retries == 3

Lesser(a, b) == IF a < b THEN a ELSE b
Greater(a, b) == IF a > b THEN a ELSE b

Minutes(seconds) == (seconds + 59) \div 60

(* The interval with its jitter of a quarter either way. *)
Waits(interval) == Minutes(45 * interval) .. Minutes(75 * interval)

VARIABLES
    monitoring,     \* MONITOR_ENABLED
    configured,     \* FLARESOLVERR_URL is not empty
    slow,           \* the pages that hang just now
    turn,           \* whose turn it is in the run, or 0 between two runs
    byCheck,        \* the run is one of /check; between runs: it was, and the
                    \* poller has waited for the mutex since
    asked,          \* /check was used in this minute
    left,           \* minutes the check under way still takes
    timer,          \* minutes until the poller's timer fires
    beat,           \* the age of the heartbeat
    up,             \* the age of the process, up to the end of its start period:
                    \* three minutes, or the first probe that succeeds
    strikes,        \* probes failed in a row
    (* History, which no guard of the program reads. *)
    written,        \* this process has written its heartbeat
    long,           \* checks since the heartbeat that took time, up to two
    faults

settings == <<monitoring, configured>>
running == <<turn, byCheck, asked, left, timer>>
container == <<beat, up, strikes>>
history == <<written, long>>
vars == <<monitoring, configured, slow, turn, byCheck, asked, left, timer,
          beat, up, strikes, written, long, faults>>

TypeOK ==
    /\ monitoring \in BOOLEAN
    /\ configured \in BOOLEAN
    /\ slow \subseteq Pages
    /\ turn \in 0 .. Len(Monitors)
    /\ byCheck \in BOOLEAN
    /\ asked \in BOOLEAN
    /\ left \in 0 .. 9
    /\ timer \in 0 .. Minutes(75 * BaseInterval)
    /\ beat \in 0 .. StaleAfter
    /\ up \in 0 .. StartPeriod
    /\ strikes \in 0 .. Retries
    /\ written \in BOOLEAN
    /\ long \in 0 .. 2
    /\ faults \in 0 .. MaxFaults

Init ==
    /\ monitoring \in BOOLEAN
    /\ configured \in BOOLEAN
    /\ slow = {}
    /\ turn = 0
    /\ byCheck = FALSE
    /\ asked = FALSE
    /\ left = 0
    /\ timer = 0
    /\ beat = IF monitoring THEN StaleAfter ELSE 0
    /\ up = 0
    /\ strikes = 0
    /\ written = FALSE
    /\ long = 0
    /\ faults = 0

(* A page begins to hang, or ends to.  The other sources are given up after *)
(* 10 and 15 seconds.                                                       *)
Hang(m) ==
    /\ m \in Pages \ slow
    /\ slow' = slow \cup {m}
    /\ UNCHANGED <<settings, running, container, history, faults>>

Respond(m) ==
    /\ m \in slow
    /\ slow' = slow \ {m}
    /\ UNCHANGED <<settings, running, container, history, faults>>

-----------------------------------------------------------------------------
(* The container. *)

(* Mutant: there is no start period. *)
ProbeAtOnce(age, uptime) == strikes' = IF age < StaleAfter THEN 0 ELSE strikes + 1

(* One probe a minute. *)
Probe(age, uptime) ==
    strikes' = IF age < StaleAfter THEN 0
               ELSE IF uptime < StartPeriod THEN strikes
               ELSE strikes + 1

(* Nothing is due before the next minute. *)
Waiting == IF turn = 0 THEN timer > 0 \/ ~monitoring ELSE left > 0

(* Mutant: nobody counts how old a heartbeat can be. *)
TickUncapped ==
    /\ Waiting
    /\ left' = Greater(left - 1, 0)
    /\ timer' = timer - 1
    /\ asked' = FALSE
    /\ beat' = IF monitoring THEN Lesser(beat + 1, StaleAfter) ELSE 0
    /\ up' = IF beat' < StaleAfter THEN StartPeriod ELSE Lesser(up + 1, StartPeriod)
    /\ Probe(beat', up')
    /\ UNCHANGED <<settings, slow, turn, byCheck, history, faults>>

(* A minute goes by.  With MONITOR_ENABLED=false the heartbeat is written   *)
(* in every one (runHeartbeat).                                             *)
Tick ==
    /\ Waiting
    /\ strikes < Retries
    /\ left' = Greater(left - 1, 0)
    /\ timer' = Greater(timer - 1, 0)
    /\ asked' = FALSE
    /\ beat' = IF monitoring THEN Lesser(beat + 1, StaleAfter) ELSE 0
    /\ up' = IF beat' < StaleAfter THEN StartPeriod ELSE Lesser(up + 1, StartPeriod)
    /\ Probe(beat', up')
    /\ UNCHANGED <<settings, slow, turn, byCheck, history, faults>>

(* A new process: only the heartbeat is left of the old one. *)
NewProcess ==
    /\ turn' = 0
    /\ byCheck' = FALSE
    /\ asked' = FALSE
    /\ left' = 0
    /\ timer' = 0
    /\ up' = 0
    /\ strikes' = 0
    /\ written' = FALSE
    /\ long' = 0
    /\ UNCHANGED <<settings, slow>>

(* Autoheal restarts an unhealthy container before the next probe. *)
Autoheal ==
    /\ strikes = Retries
    /\ NewProcess
    /\ UNCHANGED <<beat, faults>>

(* The process dies, or the host is down, for a moment or for long. *)
Crash ==
    /\ faults < MaxFaults
    /\ faults' = faults + 1
    /\ NewProcess
    /\ beat' \in IF monitoring THEN {beat, StaleAfter} ELSE {0}

-----------------------------------------------------------------------------
(* A run of checks. *)

(* The minutes a fetch may take in which some try hangs. *)
SlowMinutes(withSolver) ==
    {Minutes(t) : t \in FetchSeconds(withSolver) \ 0 .. 29}

SlowWith == SlowMinutes(TRUE)
SlowWithout == SlowMinutes(FALSE)

CostsOf(m) ==
    IF m \notin slow THEN {0} ELSE IF configured THEN SlowWith ELSE SlowWithout

StartCheck(i) ==
    /\ turn' = i
    /\ left' \in CostsOf(Monitors[i])
    /\ long' = IF left' > 0 THEN Lesser(long + 1, 2) ELSE long

(* The poller's timer has fired and it has the mutex. *)
BeginRun ==
    /\ monitoring
    /\ turn = 0
    /\ timer = 0
    /\ byCheck' = FALSE
    /\ StartCheck(1)
    /\ UNCHANGED <<settings, slow, asked, timer, container, written, faults>>

(* /check of the admin, at most once a minute (checkCooldown), finds the    *)
(* mutex free.  (A mutex somebody waits for is handed to him when it is     *)
(* unlocked, and TryLock does not get it.)                                  *)
CheckCommand ==
    /\ turn = 0
    /\ ~byCheck
    /\ ~asked
    /\ asked' = TRUE
    /\ byCheck' = TRUE
    /\ StartCheck(1)
    /\ UNCHANGED <<settings, slow, timer, container, written, faults>>

(* The last monitor has been checked.  The poller writes the heartbeat and  *)
(* sets its timer; /check does neither.                                     *)
EndOfRun ==
    /\ turn' = 0
    /\ left' = 0
    /\ byCheck' = (byCheck /\ timer = 0 /\ monitoring)
    /\ \/ byCheck /\ UNCHANGED <<timer, beat, written, long>>
       \/ /\ ~byCheck
          /\ timer' \in Waits(BaseInterval) \cup Waits(1)
          /\ beat' = 0
          /\ written' = TRUE
          /\ long' = 0

(* A check ends, and the next one begins. *)
EndCheck ==
    /\ turn > 0
    /\ left = 0
    /\ \/ /\ turn < Len(Monitors)
          /\ StartCheck(turn + 1)
          /\ UNCHANGED <<byCheck, timer, beat, written>>
       \/ turn = Len(Monitors) /\ EndOfRun
    /\ UNCHANGED <<settings, slow, asked, up, strikes, faults>>

Next ==
    \/ \E m \in Pages : Hang(m) \/ Respond(m)
    \/ Tick
    \/ BeginRun
    \/ EndCheck
    \/ CheckCommand
    \/ Autoheal
    \/ Crash

Spec == Init /\ [][Next]_vars

(* Time goes by, the poller is scheduled, checks end, autoheal runs.        *)
FairSpec ==
    /\ Spec
    /\ WF_vars(Tick)
    /\ WF_vars(EndCheck)
    /\ WF_vars(BeginRun)
    /\ WF_vars(Autoheal)

-----------------------------------------------------------------------------
(* A process that has once completed a run is restarted by the health check *)
(* only if two checks since its heartbeat have hung -- of two pages, or of  *)
(* one that /check asks too.  One page that hangs is survived, however long *)
(* it does (docker-compose.yml's 900 seconds against the time-outs of       *)
(* package fetcher and the interval of runPolling).                         *)
KilledOnlyIfTwiceSlow ==
    [][strikes' = Retries /\ strikes < Retries => ~written \/ long = 2]_vars

(* Runs are completed again and again -- every source is checked -- however *)
(* often the health check has restarted the bot before: always without      *)
(* FlareSolverr, whatever hangs; with it, once no page hangs.  (If one      *)
(* does, a new process, which begins with an old heartbeat, may be killed   *)
(* in its first run, again and again.)                                      *)
RunsComplete ==
    <>[](monitoring /\ (configured => slow = {}))
      => []<>(turn = Len(Monitors) /\ ~byCheck /\ left = 0)
=============================================================================
