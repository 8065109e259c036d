------------------------ MODULE SnapshotCachesProofs ------------------------
(***************************************************************************)
(* Proofs about module SnapshotCaches, for any origins and any number of   *)
(* readers: when an older snapshot can replace a newer one, and when a     *)
(* reader is told that there is none.                                      *)
(***************************************************************************)
EXTENDS SnapshotCaches, TLAPS

-----------------------------------------------------------------------------
(* The parts of a snapshot. *)

(* There is a part to ask for, and asking goes through all of them.         *)
LEMMA PartsAreAsked ==
    ASSUME NEW k \in Kinds
    PROVE  /\ Len(PartsOf(k)) \in Nat \ {0}
           /\ \A i \in 1 .. Len(PartsOf(k)) : PartsOf(k)[i] \in PartSet(k)
<1>1. DOMAIN PartsOf(k) = 1 .. Len(PartsOf(k)) /\ Len(PartsOf(k)) \in Nat \ {0}
  <2>1. CASE k = "yuan"
    <3>1. PartsOf(k) = <<"rate", "candles">>
      BY <2>1 DEF PartsOf
    <3>2. QED
      BY <3>1
  <2>2. CASE k = "weather"
    <3>1. PartsOf(k) = <<"forecast">>
      BY <2>2 DEF PartsOf
    <3>2. QED
      BY <3>1
  <2>3. CASE k = "flights"
    <3>1. PartsOf(k) = Origins
      BY <2>3 DEF PartsOf
    <3>2. QED
      BY <3>1, CachesAssumption
  <2>4. QED
    BY <2>1, <2>2, <2>3, CachesAssumption
<1>2. QED
  BY <1>1 DEF PartSet

(* No set of parts is NoSnapshot. *)
LEMMA PartsAreSomething ==
    ASSUME NEW k \in Kinds, NEW parts \in SUBSET PartSet(k)
    PROVE  parts # NoSnapshot
<1>1. parts \in SUBSET AllParts
  BY DEF AllParts
<1>2. QED
  BY <1>1, CachesAssumption

-----------------------------------------------------------------------------
(* Type correctness. *)

LEMMA TypeInit == Init => TypeOK
<1> SUFFICES ASSUME Init PROVE TypeOK
  OBVIOUS
<1>1. next \in [Procs -> 1 .. Len(PartsOf(kind))]
  BY PartsAreAsked DEF Init
<1>2. trading \in BOOLEAN
  BY DEF Init
<1>3. early \in [Procs -> BOOLEAN]
  <2>1. \A p \in Procs : (p = Ticker) \in BOOLEAN
    OBVIOUS
  <2>2. QED
    BY <2>1 DEF Init
<1>4. at \in [Procs -> {"idle", "look", "ask", "store", "again"}]
  BY DEF Init
<1>5. QED
  BY <1>1, <1>2, <1>3, <1>4 DEF Init, TypeOK

LEMMA TypeStep == TypeOK /\ [Next]_vars => TypeOK'
<1> SUFFICES ASSUME TypeOK, [Next]_vars PROVE TypeOK'
  OBVIOUS
<1> USE DEF source, refreshing, order, Goto, Empty
<1>0. Ticker \in Procs /\ Readers \subseteq Procs
  BY DEF Procs
<1>1. CASE UNCHANGED vars
  BY <1>1 DEF vars, TypeOK
<1>2. CASE Toggle
  BY <1>2 DEF Toggle, TypeOK
<1>3. CASE Tick
  <2>1. early' \in [Procs -> BOOLEAN]
    BY <1>3, (snapshot = NoSnapshot) \in BOOLEAN DEF Tick, Begin, TypeOK
  <2>2. QED
    BY <1>0, <1>3, <2>1 DEF Tick, Begin, TypeOK
<1>4. ASSUME NEW r \in Readers, Ask(r) \/ Look(r) \/ LookAgain(r) PROVE TypeOK'
  <2>1. early' \in [Procs -> BOOLEAN]
    BY <1>4, (snapshot = NoSnapshot) \in BOOLEAN DEF Ask, Look, LookAgain, Begin, TypeOK
  <2>2. at' \in [Procs -> {"idle", "look", "ask", "store", "again"}]
    <3>1. \E label \in {"idle", "look", "ask"} : Goto(r, label)
      BY <1>4 DEF Ask, Look, LookAgain, Begin, Answer
    <3>2. QED
      BY <1>0, <3>1 DEF TypeOK
  <2>3. missed' \subseteq Readers
    BY <1>4 DEF Ask, Look, LookAgain, Answer, TypeOK
  <2>4. UNCHANGED <<source, snapshot, next, got, order>>
    BY <1>4 DEF Ask, Look, LookAgain
  <2>5. QED
    BY <2>1, <2>2, <2>3, <2>4 DEF TypeOK
<1>5. ASSUME NEW p \in Procs, Refresh(p) PROVE TypeOK'
  <2>1. at' \in [Procs -> {"idle", "look", "ask", "store", "again"}]
    <3>1. at' = at \/ \E label \in {"idle", "store", "again"} : Goto(p, label)
      BY <1>5 DEF Refresh, Request, Receive, GoWithout, Miss, OnePart, Store, Done
    <3>2. QED
      BY <3>1 DEF TypeOK
  <2>2. next' \in [Procs -> 1 .. Len(PartsOf(kind))]
    <3>1. next[p] \in 1 .. Len(PartsOf(kind)) /\ Len(PartsOf(kind)) \in Nat \ {0}
      BY PartsAreAsked DEF TypeOK
    <3>2. next' = next \/ \E n \in 1 .. Len(PartsOf(kind)) : next' = [next EXCEPT ![p] = n]
      BY <1>5, <3>1 DEF Refresh, Request, Receive, GoWithout, Miss, OnePart, Store, Done
    <3>3. QED
      BY <3>2 DEF TypeOK
  <2>3. got' \in [Procs -> SUBSET PartSet(kind)]
    <3>1. PartsOf(kind)[next[p]] \in PartSet(kind)
      BY PartsAreAsked DEF TypeOK
    <3>2. QED
      BY <1>5, <3>1 DEF Refresh, Request, Receive, GoWithout, Miss, Store, Done, TypeOK
  <2>4. early' \in [Procs -> BOOLEAN]
    BY <1>5 DEF Refresh, Request, Receive, GoWithout, Miss, OnePart, Store, Done, TypeOK
  <2>5. before' \in [Procs -> SUBSET Procs]
    BY <1>5 DEF Refresh, Request, Receive, GoWithout, Miss, OnePart, Store, TypeOK
  <2>6. missed' \subseteq Readers
    BY <1>5 DEF Refresh, Request, Receive, GoWithout, Miss, OnePart, Store, TypeOK, Procs
  <2>7. /\ snapshot' = NoSnapshot \/ snapshot' \in SUBSET PartSet(kind)
        /\ earlyThere' \in BOOLEAN
        /\ overtaken' \subseteq Procs
    BY <1>5 DEF Refresh, Request, Store, TypeOK
  <2>8. UNCHANGED source
    BY <1>5 DEF Refresh, Request, Store
  <2>9. QED
    BY <2>1, <2>2, <2>3, <2>4, <2>5, <2>6, <2>7, <2>8 DEF TypeOK
<1>6. QED
  BY <1>1, <1>2, <1>3, <1>4, <1>5 DEF Next

(* Type correctness: in every behaviour the variables keep their types.     *)
THEOREM TypeCorrect == Spec => []TypeOK
<1>1. QED
  BY TypeInit, TypeStep, PTL DEF Spec

-----------------------------------------------------------------------------
(* Who is about to store what. *)

(* A reader refreshes only a cache that it has found empty.                 *)
ReadersAreEarly == \A r \in Readers : at[r] \in {"ask", "store"} => early[r]

(* Whoever made his snapshot before that of p, or before the one there, has *)
(* still to store it.                                                       *)
StillToStore ==
    /\ \A p \in Procs : \A q \in before[p] : q # p /\ at[p] = "store" /\ at[q] = "store"
    /\ \A q \in overtaken : at[q] = "store"

Inv ==
    /\ TypeOK
    /\ NilOnlyIfMissed
    /\ ReadersAreEarly
    /\ StillToStore
    /\ OlderOnlyAtStart

LEMMA InvInit == Init => Inv
<1> SUFFICES ASSUME Init PROVE Inv
  OBVIOUS
<1>1. NilOnlyIfMissed /\ ReadersAreEarly
  BY CachesAssumption DEF Init, NilOnlyIfMissed, ReadersAreEarly, Procs
<1>2. StillToStore /\ OlderOnlyAtStart
  BY DEF Init, StillToStore, OlderOnlyAtStart
<1>3. QED
  BY <1>1, <1>2, TypeInit DEF Inv

(* p goes on to another label, and nobody else does. *)
LEMMA OnlyOneMoves ==
    ASSUME TypeOK, NEW p \in Procs, NEW label, Goto(p, label)
    PROVE  at'[p] = label /\ \A q \in Procs : q # p => at'[q] = at[q]
BY DEF TypeOK, Goto

LEMMA BeginStep ==
    ASSUME Inv, NEW p \in Procs, Begin(p), Empty \/ p = Ticker, at[p] \in {"idle", "look"},
           UNCHANGED <<snapshot, order, missed>>
    PROVE  NilOnlyIfMissed' /\ ReadersAreEarly' /\ StillToStore' /\ OlderOnlyAtStart'
<1>0. Ticker \notin Readers /\ Readers \subseteq Procs /\ TypeOK
  BY CachesAssumption DEF Procs, Inv
<1>1. at'[p] = "ask" /\ \A q \in Procs : q # p => at'[q] = at[q]
  BY <1>0, OnlyOneMoves DEF Begin
<1>2. \A q \in Procs : q # p => early'[q] = early[q]
  BY <1>0 DEF Begin, TypeOK
<1>3. Empty => early'[p]
  BY <1>0 DEF Begin, TypeOK
<1>4. NilOnlyIfMissed'
  BY <1>0, <1>1 DEF Inv, NilOnlyIfMissed, Empty
<1>5. ReadersAreEarly'
  BY <1>0, <1>1, <1>2, <1>3 DEF Inv, ReadersAreEarly
<1>6. StillToStore'
  BY <1>0, <1>1 DEF Inv, StillToStore, order, TypeOK
<1>7. OlderOnlyAtStart'
  <2>1. \A q \in overtaken : q # p /\ q \in Procs
    BY <1>0 DEF Inv, StillToStore, TypeOK
  <2>2. QED
    BY <1>2, <2>1 DEF Inv, OlderOnlyAtStart, order
<1>8. QED
  BY <1>4, <1>5, <1>6, <1>7

LEMMA AnswerStep ==
    ASSUME Inv, NEW r \in Readers, Answer(r) \/ (Goto(r, "look") /\ UNCHANGED missed),
           at[r] \in {"idle", "look", "again"}, UNCHANGED <<snapshot, early, order>>
    PROVE  NilOnlyIfMissed' /\ ReadersAreEarly' /\ StillToStore' /\ OlderOnlyAtStart'
<1>0. Readers \subseteq Procs /\ TypeOK
  BY DEF Procs, Inv
<1>1. at'[r] \in {"idle", "look"} /\ \A q \in Procs : q # r => at'[q] = at[q]
  BY <1>0, OnlyOneMoves DEF Answer
<1>2. \A q \in Readers : q # r /\ q \in missed => q \in missed'
  BY DEF Answer
<1>3. NilOnlyIfMissed'
  BY <1>0, <1>1, <1>2 DEF Inv, NilOnlyIfMissed, Empty
<1>4. ReadersAreEarly'
  BY <1>0, <1>1 DEF Inv, ReadersAreEarly
<1>5. StillToStore'
  BY <1>0, <1>1 DEF Inv, StillToStore, order, TypeOK
<1>6. OlderOnlyAtStart'
  BY DEF Inv, OlderOnlyAtStart, order
<1>7. QED
  BY <1>3, <1>4, <1>5, <1>6

(* A request is answered, or fails. *)
LEMMA RequestStep ==
    ASSUME Inv, NEW p \in Procs, Request(p)
    PROVE  NilOnlyIfMissed' /\ ReadersAreEarly' /\ StillToStore' /\ OlderOnlyAtStart'
<1>0. Readers \subseteq Procs /\ TypeOK /\ at[p] = "ask" /\ UNCHANGED <<snapshot, earlyThere, overtaken>>
  BY DEF Procs, Inv, Request
<1>1. PICK part : Receive(p, part) \/ GoWithout(p, part) \/ Miss(p, part)
  BY DEF Request
<1>2. CASE OnePart(p)
  <2>1. UNCHANGED <<early, missed>>
    BY <1>2 DEF OnePart
  <2>2. CASE UNCHANGED <<at, before>>
    BY <1>0, <2>1, <2>2 DEF Inv, NilOnlyIfMissed, Empty, ReadersAreEarly, StillToStore,
                            OlderOnlyAtStart
  <2>3. CASE /\ Goto(p, "store")
             /\ before' = [before EXCEPT ![p] = {q \in Procs : at[q] = "store"}]
    <3>1. at'[p] = "store" /\ \A q \in Procs : q # p => at'[q] = at[q]
      BY <1>0, <2>3, OnlyOneMoves
    <3>2. before'[p] = {q \in Procs : at[q] = "store"} /\ \A q \in Procs : q # p => before'[q] = before[q]
      BY <1>0, <2>3 DEF TypeOK
    <3>3. NilOnlyIfMissed' /\ ReadersAreEarly'
      BY <1>0, <2>1, <3>1 DEF Inv, NilOnlyIfMissed, Empty, ReadersAreEarly
    <3>4. StillToStore'
      BY <1>0, <3>1, <3>2 DEF Inv, StillToStore, TypeOK
    <3>5. OlderOnlyAtStart'
      BY <1>0, <2>1 DEF Inv, OlderOnlyAtStart
    <3>6. QED
      BY <3>3, <3>4, <3>5
  <2>4. QED
    BY <1>2, <2>2, <2>3 DEF OnePart
<1>3. CASE Miss(p, part)
  <2>1. Goto(p, IF p = Ticker THEN "idle" ELSE "again") /\ early' = [early EXCEPT ![p] = FALSE]
          /\ UNCHANGED before
    BY <1>3 DEF Miss, Done
  <2>2. at'[p] \in {"idle", "again"} /\ \A q \in Procs : q # p => at'[q] = at[q]
    BY <1>0, <2>1, OnlyOneMoves
  <2>3. \A q \in Procs : q # p => early'[q] = early[q]
    BY <1>0, <2>1 DEF TypeOK
  <2>4. NilOnlyIfMissed'
    <3>1. missed \subseteq missed' /\ (p \in Readers => p \in missed')
      BY <1>3, CachesAssumption DEF Miss
    <3>2. QED
      BY <1>0, <2>2, <3>1 DEF Inv, NilOnlyIfMissed, Empty
  <2>5. ReadersAreEarly'
    BY <1>0, <2>2, <2>3 DEF Inv, ReadersAreEarly
  <2>6. StillToStore'
    BY <1>0, <2>1, <2>2 DEF Inv, StillToStore, TypeOK
  <2>7. OlderOnlyAtStart'
    <3>1. \A q \in overtaken : q # p /\ q \in Procs
      BY <1>0 DEF Inv, StillToStore, TypeOK
    <3>2. QED
      BY <1>0, <2>3, <3>1 DEF Inv, OlderOnlyAtStart
  <2>8. QED
    BY <2>4, <2>5, <2>6, <2>7
<1>4. QED
  BY <1>1, <1>2, <1>3 DEF Receive, GoWithout

(* A snapshot is stored.  Of two who had one to store, one is a reader.     *)
LEMMA StoreStep ==
    ASSUME Inv, NEW p \in Procs, Store(p)
    PROVE  NilOnlyIfMissed' /\ ReadersAreEarly' /\ StillToStore' /\ OlderOnlyAtStart'
<1>0. Readers \subseteq Procs /\ TypeOK /\ at[p] = "store"
  BY DEF Procs, Inv, Store
<1>1. /\ snapshot' = got[p] /\ overtaken' = before[p] /\ earlyThere' = early[p]
      /\ before' = [q \in Procs |-> IF q = p THEN {} ELSE before[q] \ {p}]
  BY DEF Store
<1>2. at'[p] \in {"idle", "again"} /\ \A q \in Procs : q # p => at'[q] = at[q]
  BY <1>0, OnlyOneMoves DEF Store, Done
<1>3. \A q \in Procs : q # p => early'[q] = early[q]
  BY <1>0 DEF Store, Done, TypeOK
<1>4. NilOnlyIfMissed'
  <2>1. got[p] # NoSnapshot
    BY <1>0, PartsAreSomething DEF TypeOK
  <2>2. QED
    BY <1>1, <2>1 DEF NilOnlyIfMissed, Empty
<1>5. ReadersAreEarly'
  BY <1>0, <1>2, <1>3 DEF Inv, ReadersAreEarly
<1>6. StillToStore'
  BY <1>0, <1>1, <1>2 DEF Inv, StillToStore, TypeOK
<1>7. OlderOnlyAtStart'
  <2>1. ASSUME NEW q \in before[p] PROVE early'[q] \/ earlyThere'
    <3>1. q \in Procs /\ q # p /\ at[q] = "store"
      BY <1>0 DEF Inv, StillToStore, TypeOK
    <3>2. q \in Readers \/ p \in Readers
      BY <3>1 DEF Procs
    <3>3. early[q] \/ early[p]
      BY <1>0, <3>1, <3>2 DEF Inv, ReadersAreEarly
    <3>4. QED
      BY <1>1, <1>3, <3>1, <3>3
  <2>2. QED
    BY <1>1, <2>1 DEF OlderOnlyAtStart
<1>8. QED
  BY <1>4, <1>5, <1>6, <1>7

LEMMA InvStep == Inv /\ [Next]_vars => Inv'
<1> SUFFICES ASSUME Inv, [Next]_vars
             PROVE  NilOnlyIfMissed' /\ ReadersAreEarly' /\ StillToStore' /\ OlderOnlyAtStart'
  BY TypeStep DEF Inv
<1>0. Ticker \in Procs /\ Readers \subseteq Procs
  BY DEF Procs
<1>1. CASE UNCHANGED vars \/ Toggle
  BY <1>1 DEF vars, Toggle, refreshing, order, Inv, NilOnlyIfMissed, Empty,
              ReadersAreEarly, StillToStore, OlderOnlyAtStart
<1>2. CASE Tick
  BY <1>0, <1>2, BeginStep DEF Tick
<1>3. ASSUME NEW r \in Readers, Ask(r) \/ LookAgain(r)
      PROVE  NilOnlyIfMissed' /\ ReadersAreEarly' /\ StillToStore' /\ OlderOnlyAtStart'
  BY <1>3, AnswerStep DEF Ask, LookAgain
<1>4. ASSUME NEW r \in Readers, Look(r)
      PROVE  NilOnlyIfMissed' /\ ReadersAreEarly' /\ StillToStore' /\ OlderOnlyAtStart'
  <2>1. CASE Begin(r) /\ Empty /\ UNCHANGED missed
    BY <1>0, <1>4, <2>1, BeginStep DEF Look
  <2>2. CASE Answer(r) /\ UNCHANGED early
    BY <1>4, <2>2, AnswerStep DEF Look
  <2>3. QED
    BY <1>4, <2>1, <2>2 DEF Look
<1>5. ASSUME NEW p \in Procs, Refresh(p)
      PROVE  NilOnlyIfMissed' /\ ReadersAreEarly' /\ StillToStore' /\ OlderOnlyAtStart'
  BY <1>5, RequestStep, StoreStep DEF Refresh
<1>6. QED
  BY <1>1, <1>2, <1>3, <1>4, <1>5 DEF Next

(* The inductive invariant. *)
THEOREM Invariance == Spec => []Inv
<1>1. QED
  BY InvInit, InvStep, PTL DEF Spec

(* A reader is told that there is nothing only if its own request failed:   *)
(* what another goroutine has stored is not lost, however many readers      *)
(* refresh an empty cache at a time (Get, refresh).                         *)
THEOREM NilIsOwnFailure == Spec => []NilOnlyIfMissed
<1>1. Inv => NilOnlyIfMissed
  BY DEF Inv
<1>2. QED
  BY <1>1, Invariance, PTL

(* An older snapshot replaces a newer one only if one of the two comes from *)
(* a refresh that began before there was any: of two goroutines that        *)
(* refresh at a time one is a reader, and readers refresh only an empty     *)
(* cache.                                                                   *)
THEOREM TimeRunsForward == Spec => []OlderOnlyAtStart
<1>1. Inv => OlderOnlyAtStart
  BY DEF Inv
<1>2. QED
  BY <1>1, Invariance, PTL
=============================================================================
