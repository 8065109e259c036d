----------------------------- MODULE MCAxsWatch -----------------------------
(* AxsWatch on the pages that one listed event, another one in the links, a *)
(* teaser in the JSON state and a queue can make up, one for each thing the *)
(* extraction makes of a page, and three snapshots to compare.              *)
EXTENDS AxsWatch

CONSTANTS listed, linked

MCIds == {listed, linked}

Page(json, items, extra, links, queue) ==
    [axs |-> TRUE, json |-> json, items |-> items, extra |-> extra,
     links |-> links, queue |-> queue]

(* Pages nothing is read from, though there is a link in them. *)
Foreign == [Page("none", {}, FALSE, {linked}, FALSE) EXCEPT !.axs = FALSE]

Broken == Page("broken", {}, FALSE, {linked}, FALSE)

NoState == {Page("none", {}, FALSE, {linked}, queue) : queue \in BOOLEAN}

MCPages ==
    {Foreign, Broken} \cup NoState \cup
    {Page("ok", {}, extra, {}, FALSE) : extra \in BOOLEAN} \cup
    {Page("ok", {listed}, FALSE, {linked}, FALSE)}
=============================================================================
