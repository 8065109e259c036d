------------------------------ MODULE AxsWatch ------------------------------
(***************************************************************************)
(* The AXS monitor: it fetches the page of the event hub, reads event ids  *)
(* from the JSON state in it and from the links in its HTML, compares the  *)
(* JSON state with the snapshot the store keeps and asks the language      *)
(* model about a difference, and asks the model for events where its own   *)
(* extraction found none.                                                  *)
(*                                                                         *)
(* A page is a record of what the extraction can see of it:                *)
(*   axs     it looks like a page of AXS at all                            *)
(*   json    its __NEXT_DATA__ is missing ("none"), not JSON ("broken"),   *)
(*           or "ok"                                                       *)
(*   items   the events listed in it: performer, upcoming and discovery    *)
(*   extra   something else in it that the comparison sees                 *)
(*   links   the ids in the links of the HTML                              *)
(*   queue   it shows the overlay of Queue-it                              *)
(*                                                                         *)
(* Runs of checks exclude each other (module Delivery), so there is one    *)
(* run here, and its broadcasts are whole.  Snapshots are compared as the  *)
(* values they are; cutting a page for the model is left out.              *)
(*                                                                         *)
(* The client keeps every answer by what was asked, the two snapshots of a *)
(* difference.  One that cannot be read is given again until it expires    *)
(* (module NewsWatch has the same of posts).                               *)
(***************************************************************************)
EXTENDS Naturals

CONSTANTS
    Ids,            \* ids of events on AXS
    Queue,          \* the id of the event "Queue-it is active"
    Pages,          \* the pages AXS may show
    NoSnapshot,     \* nothing is stored under axs_snapshot yet
    MaxFaults       \* bound on failures and restarts in a behaviour

Events == Ids \cup {Queue}

Snapshots == [items : SUBSET Ids, extra : BOOLEAN]

ASSUME PagesAssumption ==
    /\ Queue \notin Ids
    /\ NoSnapshot \notin Snapshots
    /\ Pages \subseteq [axs : BOOLEAN, json : {"none", "broken", "ok"},
                        items : SUBSET Ids, extra : BOOLEAN,
                        links : SUBSET Ids, queue : BOOLEAN]
    /\ \A p \in Pages : p.json # "none" => p.axs

ASSUME BoundsAssumption == MaxFaults \in Nat

VARIABLES
    page,           \* the page AXS shows now
    snapshot,       \* the value of axs_snapshot
    notified,       \* bucket notified_events
    garbled,        \* bucket ai_cache: the pairs of snapshots with an answer nobody
                    \* can read
    aiOn,           \* IsEnabled() of the client of the language model
    at,             \* where the run is
    html,           \* the page fetched
    previous,       \* the snapshot the page fetched differs from, while the model
                    \* is to be asked about it
    found,          \* the events found and still to be delivered
    (* History, which no guard of the program reads. *)
    judged,         \* the last snapshot taken over or put to the model
    lost,           \* since then a difference got lost, or a write failed
    faults          \* failures and restarts so far

stored == <<snapshot, notified, garbled>>
memory == <<at, html, previous, found>>
history == <<judged, lost>>
vars == <<page, snapshot, notified, garbled, aiOn, at, html, previous, found,
          judged, lost, faults>>

TypeOK ==
    /\ page \in Pages
    /\ snapshot \in Snapshots \cup {NoSnapshot}
    /\ notified \subseteq Events
    /\ garbled \subseteq Snapshots \X Snapshots
    /\ aiOn \in BOOLEAN
    /\ at \in {"idle", "fetch", "diff", "analyse", "extract", "deliver"}
    /\ html \in Pages
    /\ previous \in Snapshots \cup {NoSnapshot}
    /\ at = "analyse" => previous # NoSnapshot
    /\ found \subseteq Events
    /\ judged \in Snapshots \cup {NoSnapshot}
    /\ lost \in BOOLEAN
    /\ faults \in 0 .. MaxFaults

Init ==
    /\ page \in Pages
    /\ snapshot = NoSnapshot
    /\ notified = {}
    /\ garbled = {}
    /\ aiOn = TRUE
    /\ at = "fetch"
    /\ html = page
    /\ previous = NoSnapshot
    /\ found = {}
    /\ judged = NoSnapshot
    /\ lost = FALSE
    /\ faults = 0

Fault == faults < MaxFaults /\ faults' = faults + 1

-----------------------------------------------------------------------------
(* extractAXSEvents, pruneAXSSnapshot *)

Anomaly(p) ==
    \/ ~p.axs
    \/ p.json = "broken"
    \/ p.json = "none" /\ ~p.queue /\ p.links = {}

(* Mutant: the links are read only where there is no JSON state. *)
ExtractedJsonOnly(p) ==
    CASE Anomaly(p) -> {}
      [] p.json = "ok" -> p.items
      [] p.json = "none" /\ p.queue -> {Queue}
      [] OTHER -> p.links

(* Without a JSON state the overlay of the queue is all that is reported.   *)
Extracted(p) ==
    CASE Anomaly(p) -> {}
      [] p.json = "ok" -> p.items \cup p.links
      [] p.json = "none" /\ p.queue -> {Queue}
      [] OTHER -> p.links

(* Mutant: the page is stored as it is. *)
PrunedNot(p) == p

Pruned(p) == [items |-> p.items, extra |-> p.extra]

-----------------------------------------------------------------------------
(* AXS and the client of the model. *)

Show(p) ==
    /\ page' = p
    /\ UNCHANGED <<stored, aiOn, memory, history, faults>>

(* The client is disabled for the requests of another, Steam or /aitest; it *)
(* has cooled down.                                                         *)
AiOff ==
    /\ aiOn
    /\ aiOn' = FALSE
    /\ UNCHANGED <<page, stored, memory, history, faults>>

AiBack ==
    /\ ~aiOn
    /\ aiOn' = TRUE
    /\ UNCHANGED <<page, stored, memory, history, faults>>

(* An answer has been in the cache for AI_CACHE_TTL_HOURS. *)
Expire ==
    /\ \E pair \in garbled : garbled' = garbled \ {pair}
    /\ UNCHANGED <<page, snapshot, notified, aiOn, memory, history, faults>>

(* A request to the model fails, and the client may be disabled for it. *)
CallFails == Fault /\ aiOn' \in BOOLEAN

-----------------------------------------------------------------------------
(* The run. *)

Tick ==
    /\ at = "idle"
    /\ at' = "fetch"
    /\ UNCHANGED <<page, stored, aiOn, html, previous, found, history, faults>>

(* Without the page the check ends with an error. *)
Fetch ==
    /\ at = "fetch"
    /\ \/ html' = page /\ at' = "diff" /\ UNCHANGED faults
       \/ at' = "idle" /\ Fault /\ UNCHANGED html
    /\ UNCHANGED <<page, stored, aiOn, previous, found, history>>

(* Mutant: the first snapshot stays what others are compared with. *)
AIStateSetOnce(value) ==
    /\ snapshot' = IF snapshot = NoSnapshot THEN value ELSE snapshot
    /\ UNCHANGED <<lost, faults>>

(* The error of the write is ignored. *)
AIStateSet(value) ==
    \/ snapshot' = value /\ UNCHANGED <<lost, faults>>
    \/ UNCHANGED snapshot /\ lost' = TRUE /\ Fault

(* Mutant: a difference is taken over without asking. *)
CompareNever ==
    /\ at' = "extract"
    /\ UNCHANGED <<previous, judged>>

(* The first snapshot is taken over; a difference from the last one is put  *)
(* to the model.                                                            *)
Compare ==
    \/ /\ snapshot \in {NoSnapshot, Pruned(html)}
       /\ at' = "extract"
       /\ judged' = IF snapshot = NoSnapshot THEN Pruned(html) ELSE judged
       /\ UNCHANGED previous
    \/ /\ snapshot \notin {NoSnapshot, Pruned(html)}
       /\ at' = "analyse"
       /\ previous' = snapshot
       /\ UNCHANGED judged

(* runDiff: only with a JSON state and while the client is enabled.  The    *)
(* new snapshot is stored before it is compared.                            *)
RunDiff ==
    /\ at = "diff"
    /\ \/ /\ ~aiOn \/ html.json # "ok"
          /\ at' = "extract"
          /\ UNCHANGED <<snapshot, previous, judged, lost, faults>>
       \/ /\ aiOn /\ html.json = "ok"
          /\ AIStateSet(Pruned(html))
          /\ Compare
    /\ UNCHANGED <<page, notified, garbled, aiOn, html, found>>

(* The model, or the cache, has answered: what it makes of the difference   *)
(* goes to the admin.                                                       *)
Judge ==
    /\ judged' = Pruned(html)
    /\ lost' = (snapshot # Pruned(html))
    /\ UNCHANGED <<garbled, aiOn, faults>>

(* The cache gives an answer that cannot be read, or the client has been    *)
(* disabled since runDiff began.                                            *)
Unanswerable == ~aiOn \/ <<previous, Pruned(html)>> \in garbled

(* The request fails; or its answer cannot be read, which the client does   *)
(* not know and keeps.                                                      *)
AnswerFails ==
    \/ CallFails /\ UNCHANGED garbled
    \/ /\ garbled' = garbled \cup {<<previous, Pruned(html)>>}
       /\ Fault
       /\ UNCHANGED aiOn

Unjudged == lost' = TRUE /\ UNCHANGED judged

(* AnalyzeAXSDiff, and what runDiff does without its answer: nothing.       *)
Analyse ==
    /\ at = "analyse"
    /\ \/ ~Unanswerable /\ Judge
       \/ ~Unanswerable /\ AnswerFails /\ Unjudged
       \/ Unanswerable /\ Unjudged /\ UNCHANGED <<garbled, aiOn, faults>>
    /\ at' = "extract"
    /\ previous' = NoSnapshot
    /\ UNCHANGED <<page, snapshot, notified, html, found>>

(* ParseAXSWithAI: the model may name any ids, in the page or not, and none *)
(* if its answer, new or from the cache, cannot be read.                    *)
AskModel ==
    \/ \E ids \in SUBSET Ids :
          /\ found' = ids
          /\ UNCHANGED <<aiOn, faults>>
    \/ /\ CallFails
       /\ found' = {}

Extract ==
    /\ at = "extract"
    /\ \/ /\ Extracted(html) # {}
          /\ found' = Extracted(html)
          /\ UNCHANGED <<aiOn, faults>>
       \/ /\ Extracted(html) = {}
          /\ aiOn
          /\ AskModel
       \/ /\ Extracted(html) = {}
          /\ ~aiOn
          /\ found' = {}
          /\ UNCHANGED <<aiOn, faults>>
    /\ at' = "deliver"
    /\ UNCHANGED <<page, stored, html, previous, history>>

(* runChecks for one event: skipped, delivered and recorded, or given up    *)
(* after three attempts.                                                    *)
Deliver ==
    /\ at = "deliver"
    /\ \E e \in found :
         /\ \/ e \in notified /\ UNCHANGED <<notified, faults>>
            \/ e \notin notified /\ notified' = notified \cup {e} /\ UNCHANGED faults
            \/ e \notin notified /\ Fault /\ UNCHANGED notified
         /\ found' = found \ {e}
    /\ UNCHANGED <<page, snapshot, garbled, aiOn, at, html, previous, history>>

EndOfRun ==
    /\ at = "deliver"
    /\ found = {}
    /\ at' = "idle"
    /\ UNCHANGED <<page, stored, aiOn, html, previous, found, history, faults>>

(* A new process with the database as it was: a difference stored and not   *)
(* yet analysed is gone.                                                    *)
Restart ==
    /\ Fault
    /\ aiOn' = TRUE
    /\ at' = "fetch"
    /\ html' = page
    /\ previous' = NoSnapshot
    /\ found' = {}
    /\ lost' = (lost \/ at = "analyse")
    /\ UNCHANGED <<page, stored, judged>>

Step == Fetch \/ RunDiff \/ Analyse \/ Extract \/ Deliver \/ EndOfRun

Next ==
    \/ \E p \in Pages : Show(p)
    \/ AiOff
    \/ AiBack
    \/ Expire
    \/ Tick
    \/ Step
    \/ Restart

Spec == Init /\ [][Next]_vars

(* The poller is scheduled and its timer fires. *)
FairSpec == Spec /\ WF_vars(Step) /\ WF_vars(Tick)

-----------------------------------------------------------------------------
(* README: on a change of the JSON state the model decides whether it is a  *)
(* signal.  Between two runs the stored snapshot has been judged, unless    *)
(* the difference was lost: the request or a write failed, its answer could *)
(* not be read, or the process died between storing and asking.             *)
JudgedUnlessLost == at # "analyse" /\ ~lost => snapshot = judged

(* A difference gets lost only by such a failure, or without one when the   *)
(* cache gives again an answer on the same two snapshots nobody could read, *)
(* or another has got the client disabled since runDiff began.  Otherwise   *)
(* an answer is about the very snapshot that is stored, whatever the page   *)
(* shows by then.                                                           *)
LostOnlyForCause ==
    [][~lost /\ lost' => \/ faults' = faults + 1
                         \/ at = "analyse" /\ Unanswerable]_vars

(* What stays on a page reaches the subscribers, whether the model works or *)
(* not: an event listed in a state that can be read or linked beside it, an *)
(* event linked where there is no state, a queue before such a page.        *)
ShownReaches ==
    /\ \A e \in Ids :
         <>[](page.json = "ok" /\ e \in page.items \cup page.links) => <>(e \in notified)
    /\ \A e \in Ids :
         <>[](page.axs /\ page.json = "none" /\ ~page.queue /\ e \in page.links)
            => <>(e \in notified)
    /\ <>[](page.axs /\ page.json = "none" /\ page.queue) => <>(Queue \in notified)
=============================================================================
