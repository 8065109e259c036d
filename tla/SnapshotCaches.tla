--------------------------- MODULE SnapshotCaches ---------------------------
(***************************************************************************)
(* The caches behind /yuan, /weather and /flight.  Each holds a snapshot   *)
(* under a lock and has a goroutine that refreshes it with a ticker.  The  *)
(* requests are made outside the lock.  A reader of the first two that     *)
(* finds no snapshot refreshes the cache itself, at the same time as the   *)
(* ticker's goroutine and other readers; a reader of the third takes what  *)
(* there is.                                                               *)
(*                                                                         *)
(* A refresh asks for the parts of a snapshot one after the other: the     *)
(* rate and then the candles; the forecast; the routes from each origin.   *)
(* Without the rate or the forecast there is no new snapshot, without any  *)
(* other part there is one that lacks it.                                  *)
(*                                                                         *)
(* A behaviour is that of one of the caches.  A snapshot is the set of its *)
(* parts; which of two is the older one is kept in before and overtaken.   *)
(***************************************************************************)
EXTENDS Sequences, Integers

CONSTANTS
    Kinds,          \* which of "yuan", "weather" and "flights" to look at
    Origins,        \* the origins of FLIGHTS_ORIGINS, a sequence
    Ticker,         \* the goroutine of Start
    Readers,        \* goroutines that call Get
    NoSnapshot

Procs == {Ticker} \cup Readers

(* What a refresh asks for, in this order. *)
PartsOf(k) == CASE k = "yuan" -> <<"rate", "candles">>
                [] k = "weather" -> <<"forecast">>
                [] k = "flights" -> Origins

PartSet(k) == {PartsOf(k)[i] : i \in DOMAIN PartsOf(k)}
AllParts == UNION {PartSet(k) : k \in Kinds}

ASSUME CachesAssumption ==
    /\ Kinds \subseteq {"yuan", "weather", "flights"}
    /\ Origins \in Seq(STRING) \ {<<>>}
    /\ Ticker \notin Readers
    /\ \A parts \in SUBSET AllParts : NoSnapshot # parts

VARIABLES
    kind,           \* which cache this is
    up,             \* the parts its source gives just now
    trading,        \* isTradingHours(), which only the yuan's ticker asks
    snapshot,       \* the snapshot, or NoSnapshot
    at,             \* at[p]: where goroutine p is
    next,           \* next[p]: the part p asks for next, or asked for last
    got,            \* got[p]: the parts it has got
    (* History, which no guard of the program reads. *)
    early,          \* early[p]: there was none when p began to refresh
    earlyThere,     \* the snapshot there was made in such a refresh
    before,         \* before[p]: who made a snapshot before p, still to store
    overtaken,      \* who has made an older snapshot than the one there
    missed          \* the readers whose request for this answer failed

source == <<kind, up, trading>>
refreshing == <<at, next, got>>
order == <<earlyThere, before, overtaken>>
vars == <<kind, up, trading, snapshot, at, next, got, early, earlyThere, before,
          overtaken, missed>>

Empty == snapshot = NoSnapshot

(* Where a goroutine can be: a reader is idle, about to look, to make its   *)
(* next request, to store what it got, or to look again; the ticker's       *)
(* goroutine is idle between two ticks.                                     *)
TypeOK ==
    /\ kind \in Kinds
    /\ up \subseteq PartSet(kind)
    /\ trading \in BOOLEAN
    /\ snapshot = NoSnapshot \/ snapshot \in SUBSET PartSet(kind)
    /\ at \in [Procs -> {"idle", "look", "ask", "store", "again"}]
    /\ next \in [Procs -> 1 .. Len(PartsOf(kind))]
    /\ got \in [Procs -> SUBSET PartSet(kind)]
    /\ early \in [Procs -> BOOLEAN]
    /\ earlyThere \in BOOLEAN
    /\ before \in [Procs -> SUBSET Procs]
    /\ overtaken \subseteq Procs
    /\ missed \subseteq Readers

(* Start refreshes at once.  Nothing is kept from one process to the next.  *)
Init ==
    /\ kind \in Kinds
    /\ up \in SUBSET PartSet(kind)
    /\ trading \in IF kind = "yuan" THEN BOOLEAN ELSE {TRUE}
    /\ snapshot = NoSnapshot
    /\ at = [p \in Procs |-> IF p = Ticker THEN "ask" ELSE "idle"]
    /\ next = [p \in Procs |-> 1]
    /\ got = [p \in Procs |-> {}]
    /\ early = [p \in Procs |-> p = Ticker]
    /\ earlyThere = FALSE
    /\ before = [p \in Procs |-> {}]
    /\ overtaken = {}
    /\ missed = {}

Goto(p, label) == at' = [at EXCEPT ![p] = label]

(* A part comes or goes; the exchange opens or closes. *)
Toggle ==
    /\ \/ /\ \E part \in PartSet(kind) :
               up' = IF part \in up THEN up \ {part} ELSE up \cup {part}
          /\ UNCHANGED trading
       \/ kind = "yuan" /\ trading' = ~trading /\ UNCHANGED up
    /\ UNCHANGED <<kind, snapshot, refreshing, early, order, missed>>

(* refresh begins. *)
Begin(p) ==
    /\ Goto(p, "ask")
    /\ early' = [early EXCEPT ![p] = Empty]

-----------------------------------------------------------------------------
(* The ticker of Start: the yuan is refreshed in trading hours only. *)

(* Mutant: a snapshot that is there is good enough. *)
TickIfEmpty ==
    /\ at[Ticker] = "idle"
    /\ kind = "yuan" => trading
    /\ Empty
    /\ Begin(Ticker)
    /\ UNCHANGED <<source, snapshot, next, got, order, missed>>

Tick ==
    /\ at[Ticker] = "idle"
    /\ kind = "yuan" => trading
    /\ Begin(Ticker)
    /\ UNCHANGED <<source, snapshot, next, got, order, missed>>

-----------------------------------------------------------------------------
(* Get *)

Ask(r) ==
    /\ at[r] = "idle"
    /\ Goto(r, "look")
    /\ UNCHANGED <<source, snapshot, next, got, early, order, missed>>

(* The answer is the snapshot there is, or nil. *)
Answer(r) == Goto(r, "idle") /\ missed' = missed \ {r}

(* Mutant: a reader refreshes a cache that has a snapshot, too. *)
LookAndRefresh(r) ==
    /\ at[r] = "look"
    /\ Begin(r)
    /\ UNCHANGED <<source, snapshot, next, got, order, missed>>

(* The snapshot is read and the lock given back before it is looked at. *)
Look(r) ==
    /\ at[r] = "look"
    /\ \/ Empty /\ kind # "flights" /\ Begin(r) /\ UNCHANGED missed
       \/ (~Empty \/ kind = "flights") /\ Answer(r) /\ UNCHANGED early
    /\ UNCHANGED <<source, snapshot, next, got, order>>

LookAgain(r) ==
    /\ at[r] = "again"
    /\ Answer(r)
    /\ UNCHANGED <<source, snapshot, next, got, early, order>>

-----------------------------------------------------------------------------
(* refresh *)

(* refresh returns, and what it had got is gone. *)
Done(p) ==
    /\ Goto(p, IF p = Ticker THEN "idle" ELSE "again")
    /\ next' = [next EXCEPT ![p] = 1]
    /\ got' = [got EXCEPT ![p] = {}]
    /\ early' = [early EXCEPT ![p] = FALSE]

(* Mutant: the part after the last is asked for. *)
OnePartMore(p) ==
    /\ IF next[p] <= Len(PartsOf(kind))
       THEN next' = [next EXCEPT ![p] = @ + 1] /\ UNCHANGED <<at, before>>
       ELSE Goto(p, "store") /\ UNCHANGED <<next, before>>
    /\ UNCHANGED <<early, missed>>

(* On to the next part, or a snapshot is made of those that came. *)
OnePart(p) ==
    /\ IF next[p] < Len(PartsOf(kind))
       THEN next' = [next EXCEPT ![p] = @ + 1] /\ UNCHANGED <<at, before>>
       ELSE /\ Goto(p, "store")
            /\ before' = [before EXCEPT ![p] = {q \in Procs : at[q] = "store"}]
            /\ UNCHANGED next
    /\ UNCHANGED <<early, missed>>

(* The request for the part is answered.  The daily arrays of a forecast    *)
(* and the columns of a rate are what they should be.                       *)
Receive(p, part) ==
    /\ part \in up
    /\ got' = [got EXCEPT ![p] = @ \cup {part}]
    /\ OnePart(p)

(* Candles and the routes from an origin may fail and are left out; a rate  *)
(* may come without any price, as MOEX leaves columns empty.                *)
GoWithout(p, part) ==
    /\ part \notin up
    /\ part # "forecast"
    /\ OnePart(p)
    /\ UNCHANGED got

(* Without a rate or a forecast there is no snapshot. *)
Miss(p, part) ==
    /\ part \notin up
    /\ part \in {"rate", "forecast"}
    /\ missed' = IF p = Ticker THEN missed ELSE missed \cup {p}
    /\ Done(p)
    /\ UNCHANGED before

Request(p) ==
    /\ at[p] = "ask"
    /\ LET part == PartsOf(kind)[next[p]]
       IN  Receive(p, part) \/ GoWithout(p, part) \/ Miss(p, part)
    /\ UNCHANGED <<source, snapshot, earlyThere, overtaken>>

(* Mutant: a refresh does not store. *)
StoreNothing(p) ==
    /\ at[p] = "store"
    /\ before' = [q \in Procs |-> IF q = p THEN {} ELSE before[q] \ {p}]
    /\ Done(p)
    /\ UNCHANGED <<source, snapshot, earlyThere, overtaken, missed>>

(* Under the lock, whatever is there. *)
Store(p) ==
    /\ at[p] = "store"
    /\ snapshot' = got[p]
    /\ earlyThere' = early[p]
    /\ overtaken' = before[p]
    /\ before' = [q \in Procs |-> IF q = p THEN {} ELSE before[q] \ {p}]
    /\ Done(p)
    /\ UNCHANGED <<source, missed>>

Refresh(p) == Request(p) \/ Store(p)

Next ==
    \/ Toggle
    \/ Tick
    \/ \E r \in Readers : Ask(r) \/ Look(r) \/ LookAgain(r)
    \/ \E p \in Procs : Refresh(p)

Spec == Init /\ [][Next]_vars

(* Requests have timeouts.  The ticker ticks, and every trading day is long *)
(* enough for it (half an hour): Tick is taken although the exchange closes *)
(* again and again.  That anybody asks is not assumed.                      *)
FairSpec ==
    /\ Spec
    /\ SF_vars(Tick)
    /\ \A p \in Procs : WF_vars(Refresh(p))
    /\ \A r \in Readers : WF_vars(Look(r)) /\ WF_vars(LookAgain(r))

-----------------------------------------------------------------------------
(* Whoever is about to put an older snapshot in the place of a newer one    *)
(* began his refresh before there was any, or the newer one comes from such *)
(* a refresh: readers do not refresh once there is a snapshot, and the      *)
(* ticker's refreshes follow each other.                                    *)
OlderOnlyAtStart ==
    \A p \in overtaken : early[p] \/ earlyThere

(* Where readers ask for themselves, Get is about to return nil only if the *)
(* reader's own request failed: nothing another goroutine stored, or its    *)
(* failure, gets in the way.                                                *)
NilOnlyIfMissed ==
    \A r \in Readers : at[r] = "again" /\ Empty => r \in missed

(* Once the source gives every part for good (and the exchange opens again  *)
(* and again), the snapshot is whole and stays so, although nobody asks:    *)
(* an empty cache is filled, and a snapshot without candles, without price  *)
(* or without an origin, and one a slow reader puts back, is replaced.      *)
WholeInTheEnd ==
    <>[](up = PartSet(kind)) /\ (kind = "yuan" => []<>trading)
        => <>[](snapshot = PartSet(kind))
=============================================================================
