----------------------------- MODULE NewsWatch ------------------------------
(***************************************************************************)
(* The two monitors that ask the language model about what they read:      *)
(* Steam news, where keywords decide and the model is a second opinion,    *)
(* and the Chinese site, where only the model decides.  A post is put to   *)
(* the model once: the store remembers that it was, not what the answer    *)
(* was, and it does so before the event found is delivered.                *)
(*                                                                         *)
(* The client keeps every answer by the text of the post, whatever it      *)
(* says: one the monitor cannot read -- cut off, not JSON -- is given      *)
(* again for thirty days.  That is all of the cache that is modelled; an   *)
(* answer that can be read is the same from the cache as from the model.   *)
(* /aitest of the admin puts the same posts to the model through the same  *)
(* client and writes down nothing else.                                    *)
(*                                                                         *)
(* Runs of checks exclude each other (module Delivery), so there is one    *)
(* run here.  Its broadcasts are whole: three attempts that end well, or   *)
(* do not.  The client's breaker is reduced to "enabled or not" (module    *)
(* AiBreaker has the rest).                                                *)
(*                                                                         *)
(* Posts that neither match the keywords nor mention The International are *)
(* never put to the model and never signalled; they are left out.          *)
(***************************************************************************)
EXTENDS Naturals

CONSTANTS
    Keyword,        \* Steam posts that match the keywords (isTicketNews)
    Mention,        \* Steam posts that only mention The International
    Chinese,        \* headlines of dota2.com.cn
    Signals,        \* posts the model, once asked, calls a sure ticket signal
    AdminOnly,      \* headlines it surely calls cn-only sale or marketing
    MaxFaults       \* bound on failures and restarts in a behaviour

Steam == Keyword \cup Mention
Posts == Steam \cup Chinese

ASSUME PostsAssumption ==
    /\ Keyword \cap Mention = {} /\ Steam \cap Chinese = {}
    /\ Signals \subseteq Posts
    /\ AdminOnly \subseteq Chinese \ Signals

ASSUME BoundsAssumption == MaxFaults \in Nat

VARIABLES
    live,           \* the posts the sources show now
    classified,     \* bucket ai_classified: the posts put to the model
    notified,       \* bucket notified_events
    garbled,        \* bucket ai_cache: the posts with an answer nobody can read
    aiOn,           \* IsEnabled() of the client
    at,             \* where the run is: idle, fetch, classify or deliver
    source,         \* whose turn it is: "steam" or "cn"
    todo,           \* the posts fetched and still to be classified
    answered,       \* the post whose answer is read but not yet written down
    found,          \* the events found and still to be delivered
    (* History, which no guard of the program reads. *)
    judged,         \* the posts an answer was read on, of the model or the cache
    rejudged,       \* the posts an answer was read on more than once
    unwritten,      \* the posts whose answer was not written down: MarkClassified
                    \* failed, or the process died between the answer and it
    dropped,        \* events a failed broadcast or a restart took away
    told,           \* headlines the admin was told about
    faults          \* failures and restarts so far

stored == <<classified, notified, garbled>>
memory == <<at, source, todo, answered, found>>
history == <<judged, rejudged, unwritten, dropped, told>>
vars == <<live, classified, notified, garbled, aiOn, at, source, todo, answered,
          found, judged, rejudged, unwritten, dropped, told, faults>>

TypeOK ==
    /\ live \subseteq Posts
    /\ classified \subseteq Posts
    /\ notified \subseteq Posts
    /\ garbled \subseteq Posts
    /\ aiOn \in BOOLEAN
    /\ at \in {"idle", "fetch", "classify", "deliver"}
    /\ source \in {"steam", "cn"}
    /\ todo \subseteq Posts
    /\ answered \subseteq Posts
    /\ found \subseteq Posts
    /\ judged \subseteq Posts
    /\ rejudged \subseteq Posts
    /\ unwritten \subseteq Posts
    /\ dropped \subseteq Posts
    /\ told \subseteq Posts
    /\ faults \in 0 .. MaxFaults

Init ==
    /\ live = {}
    /\ classified = {}
    /\ notified = {}
    /\ garbled = {}
    /\ aiOn = TRUE
    /\ at = "fetch"
    /\ source = "steam"
    /\ todo = {}
    /\ answered = {}
    /\ found = {}
    /\ judged = {}
    /\ rejudged = {}
    /\ unwritten = {}
    /\ dropped = {}
    /\ told = {}
    /\ faults = 0

Fault == faults < MaxFaults /\ faults' = faults + 1

-----------------------------------------------------------------------------
(* The sources. *)

Publish(p) ==
    /\ live' = live \cup {p}
    /\ UNCHANGED <<stored, aiOn, memory, history, faults>>

Withdraw(p) ==
    /\ live' = live \ {p}
    /\ UNCHANGED <<stored, aiOn, memory, history, faults>>

(* The breaker has cooled down. *)
AiBack ==
    /\ ~aiOn
    /\ aiOn' = TRUE
    /\ UNCHANGED <<live, stored, memory, history, faults>>

(* Mutant: answers are kept for good. *)
ExpireNever(p) == FALSE

(* An answer has been in the cache for AI_CACHE_TTL_HOURS. *)
Expire(p) ==
    /\ p \in garbled
    /\ garbled' = garbled \ {p}
    /\ UNCHANGED <<live, classified, notified, aiOn, memory, history, faults>>

(* runSteam and runCN of /aitest, for one post: what goes wrong with their  *)
(* request.  Answers on posts that are written down are not read again.     *)
AiTest(p) ==
    /\ aiOn
    /\ p \in live \ classified
    /\ Fault
    /\ \/ garbled' = garbled \cup {p} /\ UNCHANGED aiOn
       \/ aiOn' = FALSE /\ UNCHANGED garbled
    /\ UNCHANGED <<live, classified, notified, memory, history>>

-----------------------------------------------------------------------------
(* A run: Steam, then the Chinese site. *)

Tick ==
    /\ at = "idle"
    /\ at' = "fetch"
    /\ UNCHANGED <<live, stored, aiOn, source, todo, answered, found, history,
                   faults>>

(* Steam answers with its news, or not at all. *)
FetchSteam ==
    /\ source = "steam"
    /\ \/ todo' = live \cap Steam /\ UNCHANGED faults
       \/ todo' = {} /\ Fault

(* The Chinese monitor does not even fetch while the client is disabled.    *)
FetchChinese ==
    /\ source = "cn"
    /\ \/ ~aiOn /\ todo' = {} /\ UNCHANGED faults
       \/ aiOn /\ todo' = live \cap Chinese /\ UNCHANGED faults
       \/ aiOn /\ todo' = {} /\ Fault

Fetch ==
    /\ at = "fetch"
    /\ FetchSteam \/ FetchChinese
    /\ at' = "classify"
    /\ UNCHANGED <<live, stored, aiOn, source, answered, found, history>>

(* Mutant: nobody looks whether the model was asked before. *)
NeverClassified(p) == FALSE

AlreadyClassified(p) == p \in classified

(* The error of the write is ignored. *)
MarkClassified(p) ==
    \/ /\ classified' = classified \cup {p}
       /\ UNCHANGED <<unwritten, faults>>
    \/ /\ unwritten' = unwritten \cup {p}
       /\ Fault
       /\ UNCHANGED classified

NoAnswer == UNCHANGED <<classified, answered, judged, rejudged, unwritten, told>>

(* Mutant: without the model's answer there is no event. *)
FallBackSilent(p) == UNCHANGED found /\ NoAnswer

(* Steam without an answer of the model: the keywords decide. *)
FallBack(p) ==
    /\ found' = IF p \in Keyword THEN found \cup {p} ELSE found
    /\ NoAnswer

(* Mutant: a headline nobody could classify is sent to be on the safe side. *)
SkipNot(p) == found' = found \cup {p} /\ NoAnswer

(* A headline without an answer of the model waits for the next run. *)
Skip(p) == UNCHANGED found /\ NoAnswer

(* The monitor has read an answer. *)
Answered(p) ==
    /\ answered' = {p}
    /\ judged' = judged \cup {p}
    /\ rejudged' = IF p \in judged THEN rejudged \cup {p} ELSE rejudged
    /\ UNCHANGED <<classified, unwritten, found, told, faults>>

(* Without an answer that can be read. *)
Unanswered(p) == IF p \in Steam THEN FallBack(p) ELSE Skip(p)

(* Mutant: one call that fails ends the check, with nothing found. *)
CallFailsForAll(p) ==
    /\ Fault
    /\ aiOn' \in BOOLEAN
    /\ found' = {}
    /\ NoAnswer
    /\ UNCHANGED garbled

(* The call fails, and the client may be disabled for it; or the answer     *)
(* cannot be read, which the client does not know.                          *)
CallFails(p) ==
    /\ Fault
    /\ \/ aiOn' \in BOOLEAN /\ UNCHANGED garbled
       \/ garbled' = garbled \cup {p} /\ UNCHANGED aiOn
    /\ Unanswered(p)

(* What the model is asked, or the cache. *)
Ask(p) ==
    \/ /\ p \in garbled
       /\ Unanswered(p)
       /\ UNCHANGED <<garbled, aiOn, faults>>
    \/ p \notin garbled /\ Answered(p) /\ UNCHANGED <<garbled, aiOn>>
    \/ p \notin garbled /\ CallFails(p)

(* classify of steamnews.go, and the loop of CNDotaMonitor.Check, for one   *)
(* post.                                                                    *)
ClassifyPost(p) ==
    IF ~aiOn \/ AlreadyClassified(p)
    THEN Unanswered(p) /\ UNCHANGED <<garbled, aiOn, faults>>
    ELSE Ask(p)

Classify ==
    /\ at = "classify"
    /\ answered = {}
    /\ \E p \in todo :
         /\ ClassifyPost(p)
         /\ todo' = todo \ {p}
    /\ UNCHANGED <<live, notified, at, source, dropped>>

(* That the model was asked is written down before what it said is looked   *)
(* at.  A keyword post it does not confirm is not signalled; a headline may *)
(* be for the admin only.                                                   *)
Mark ==
    /\ \E p \in answered :
         /\ MarkClassified(p)
         /\ found' = IF p \in Signals THEN found \cup {p} ELSE found
         /\ told' = IF p \in AdminOnly THEN told \cup {p} ELSE told
         /\ answered' = answered \ {p}
    /\ UNCHANGED <<live, notified, garbled, aiOn, at, source, todo, judged,
                   rejudged, dropped>>

(* Check returns what it found. *)
Return ==
    /\ at = "classify"
    /\ todo = {} /\ answered = {}
    /\ at' = "deliver"
    /\ UNCHANGED <<live, stored, aiOn, source, todo, answered, found, history, faults>>

(* runChecks for one event: skipped, delivered and recorded, or given up    *)
(* after three attempts.                                                    *)
Deliver ==
    /\ at = "deliver"
    /\ \E p \in found :
         /\ \/ /\ p \in notified
               /\ UNCHANGED <<notified, dropped, faults>>
            \/ /\ p \notin notified
               /\ notified' = notified \cup {p}
               /\ UNCHANGED <<dropped, faults>>
            \/ /\ p \notin notified
               /\ Fault
               /\ dropped' = dropped \cup {p}
               /\ UNCHANGED notified
         /\ found' = found \ {p}
    /\ UNCHANGED <<live, classified, garbled, aiOn, at, source, todo, answered,
                   judged, rejudged, unwritten, told>>

(* Mutant: the list of monitors is not begun anew. *)
NextMonitorOverrun ==
    /\ at = "deliver"
    /\ found = {}
    /\ IF source = "steam"
       THEN at' = "fetch" /\ source' = "cn"
       ELSE at' = "idle" /\ source' = "none"
    /\ UNCHANGED <<live, stored, aiOn, todo, answered, found, history, faults>>

NextMonitor ==
    /\ at = "deliver"
    /\ found = {}
    /\ IF source = "steam"
       THEN at' = "fetch" /\ source' = "cn"
       ELSE at' = "idle" /\ source' = "steam"
    /\ UNCHANGED <<live, stored, aiOn, todo, answered, found, history, faults>>

(* A new process: the database is as it was, the client is enabled again.   *)
Restart ==
    /\ Fault
    /\ aiOn' = TRUE
    /\ at' = "fetch"
    /\ source' = "steam"
    /\ todo' = {}
    /\ answered' = {}
    /\ unwritten' = unwritten \cup answered
    /\ found' = {}
    /\ dropped' = dropped \cup (found \ notified)
    /\ UNCHANGED <<live, stored, judged, rejudged, told>>

Step == Fetch \/ Classify \/ Mark \/ Return \/ Deliver \/ NextMonitor

Next ==
    \/ \E p \in Posts : Publish(p) \/ Withdraw(p) \/ Expire(p) \/ AiTest(p)
    \/ AiBack
    \/ Tick
    \/ Step
    \/ Restart

Spec == Init /\ [][Next]_vars

(* The poller is scheduled, its timer fires, and days go by.  Nothing is    *)
(* assumed of the model: it may stay disabled for ever.                     *)
FairSpec ==
    Spec /\ WF_vars(Step) /\ WF_vars(Tick) /\ \A p \in Posts : WF_vars(Expire(p))

-----------------------------------------------------------------------------
(* README: every id is classified once.  The answer on a post is read a     *)
(* second time only if the first was not written down: the store failed, or *)
(* the process died in just the moment between the two.  No run, restart at *)
(* any other moment, outage or unreadable answer in between makes it so.    *)
RejudgedOnlyIfUnwritten == rejudged \subseteq unwritten

(* README: cn-only sales and marketing are for the admin only.  Subscribers *)
(* get a Chinese headline only on the model's word that it is a global      *)
(* sale, never by a fall-back, a skipped classification or a second pass.   *)
ChineseOnlyOnWord ==
    /\ notified \cap Chinese \subseteq judged \cap Signals
    /\ told \cap notified = {}

(* A signal only the model can see is never forgotten between the moment it *)
(* is written down as classified and its delivery, except for a broadcast   *)
(* that failed or a process that died in just that window.                  *)
OnlyTheModelSees == Signals \ Keyword

ForgottenOnlyIfDropped ==
    (OnlyTheModelSees \cap classified) \ (notified \cup found) \subseteq dropped

(* README: "zero misses".  A signal that has been recognised is delivered   *)
(* or still to be delivered.                                                *)
NoSignalForgotten ==
    OnlyTheModelSees \cap classified \subseteq notified \cup found

(* README: if the quota runs out the bot goes back to the old logic.  A     *)
(* keyword post that stays in the feed reaches the subscribers whatever     *)
(* the model says, fails to say or forgets: a veto only delays it.          *)
KeywordAlwaysReaches ==
    \A p \in Keyword : <>[](p \in live) => <>(p \in notified)

(* An outage of the model loses nothing: a post that stays and that the     *)
(* model calls a signal is put to it again until it has answered, and then  *)
(* is delivered -- unless a broadcast failed or the process died.  An       *)
(* answer that cannot be read is no different, except that it holds the     *)
(* post back until the cache gives it up.                                   *)
OutageLosesNothing ==
    \A p \in Signals :
       <>[](p \in live) /\ <>[]aiOn => <>(p \in notified \cup dropped)
=============================================================================
