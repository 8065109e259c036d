------------------------------- MODULE Fetcher -------------------------------
(***************************************************************************)
(* How a page is fetched (package fetcher): a client that looks like       *)
(* Chrome, then curl, then a browser behind FlareSolverr, which is tried   *)
(* three times.  What each try meets is an input: a page, the challenge    *)
(* page of Cloudflare, a failure at once, or nothing until its time-out.   *)
(***************************************************************************)
EXTENDS Integers

Tries == {"page", "challenge", "fails", "hangs"}

flareSolverrRetries == 3

Rounds == 1 .. flareSolverrRetries

(* What the tries of one fetch meet, those that are not made included.      *)
Meetings == [tls : Tries, curl : Tries, solver : [Rounds -> Tries]]

(* isRealHTML, for a try that got anything at all. *)
Real(try) == try = "page"

(* fetchFlareSolverrOnce gives a document, be it a challenge, and then      *)
(* there is no further try.                                                 *)
Answers(try) == try \in {"page", "challenge"}

(* The last round fetchFlareSolverr makes. *)
LastRound(solver) ==
    CHOOSE i \in Rounds :
       /\ Answers(solver[i]) \/ i = flareSolverrRetries
       /\ \A j \in 1 .. i - 1 : ~Answers(solver[j])

(* Mutant: the browser is not asked. *)
FetchedWithoutSolver(met, configured) == Real(met.tls) \/ Real(met.curl)

(* Fetch returns a page rather than an error.  configured: FLARESOLVERR_URL *)
(* is not empty.                                                            *)
Fetched(met, configured) ==
    \/ Real(met.tls)
    \/ Real(met.curl)
    \/ configured /\ Real(met.solver[LastRound(met.solver)])

(* Mutant: a client that waits ten times as long. *)
SecondsLong(try, timeout) == IF try = "hangs" THEN 10 * timeout ELSE 0

(* The seconds a try takes: none worth counting, or its time-out.  The half *)
(* second fetchTLSClient waits before its request is left out: rounded up   *)
(* to minutes it would count for sixty, and the nine minutes a fetch takes  *)
(* at most have room for it.                                                *)
Seconds(try, timeout) == IF try = "hangs" THEN timeout ELSE 0

(* The rounds of FlareSolverr, with pauses of 5 and 10 seconds between.     *)
SolverSeconds(solver) ==
    LET upTo[i \in 0 .. flareSolverrRetries] ==
          IF i = 0 THEN 0
          ELSE upTo[i - 1] + Seconds(solver[i], 150) + 5 * (i - 1)
    IN  upTo[LastRound(solver)]

(* The seconds a fetch may take: tls-client, curl if that gives no page,    *)
(* the browser if neither does.                                             *)
FetchSeconds(configured) ==
    LET tls == {Seconds(try, 30) : try \in Tries}
        curl == {Seconds(try, 30) : try \in Tries}
        solver == IF configured THEN {SolverSeconds(s) : s \in [Rounds -> Tries]} ELSE {0}
    IN  tls \cup {a + b + c : a \in tls, b \in curl, c \in solver \cup {0}}
=============================================================================
