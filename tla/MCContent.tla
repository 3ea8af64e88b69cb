----------------------------- MODULE MCContent -----------------------------
(* Content for TLC: what a model may answer and what is on the web. *)
EXTENDS Content, TLC

CONSTANTS k1

MCClientOf == [g \in Campaigns |-> k1]

Says(who, text) == [persona |-> who, text |-> text]
\* More variants than asked for, of two personas in turns, one with two findings.
MCOutputs == {<<Says("young", {}), Says("old", {"figure"}), Says("young", {"cheap", "figure"}), Says("old", {})>>,
              <<Says("young", {"before_after"})>>}
\* A line of business with a known word, and one without: its ads escape the rule.
MCVerticals == ("dental clinic" :> "dental") @@ ("weight loss" :> "other")
MCRestrictions == {{}, {"cheap"}}

Public == [version |-> 4, a |-> 93, b |-> 184]
Page(length) == [web |-> TRUE, internal |-> FALSE, addresses |-> {Public}, to |-> None, length |-> length]
\* A page behind a redirect, and two addresses that redirect to each other.
MCSites == [moved |-> [Page(0) EXCEPT !.to = "page"], page |-> Page(900),
            ping |-> [Page(0) EXCEPT !.to = "pong"], pong |-> [Page(0) EXCEPT !.to = "ping"]]
MCUrls == DOMAIN MCSites

\* Bound: one generation that stores ads, beside requests that change the client;
\* agents that do not work for a campaign, and media, have their turn alone.
OneGeneration ==
    /\ Cardinality({r \in Requests : req[r].on \in Campaigns}) <= 1
    /\ Cardinality(bank) <= 1
    /\ \A r \in Requests : req[r].op \in {"personas", "research", "extract"} =>
         \A s \in Requests \ {r} : req[s] = Idle
    /\ files # {} => \A r \in Requests : req[r].op \in {"upload", None}
    /\ (\E m \in Runs : persona[m] # None) =>
         bank = {} /\ \A r \in Requests : req[r].on \notin Campaigns
    /\ (campaigns # Campaigns \/ \E s \in Slots : ad[s] # None /\ ad[s].status = "PUBLISHED") =>
         files = {} /\ Cardinality({r \in Requests : req[r] # Idle}) <= 1
    /\ (\E g \in Campaigns : strategy[g] # None) => bank = {} /\ files = {}
    /\ Cardinality({s \in Slots : creative[s] # None /\ creative[s].asset # None}) <= 1
    /\ \A k \in Clients : client[k] # None =>
         /\ client[k].brand.industry = "weight loss" => client[k].brand.words = {}
         /\ client[k].status = "ARCHIVED" =>
              bank = {} /\ \A r \in Requests : req[r].on \notin Campaigns

Symmetry == Permutations(Requests) \cup Permutations(Runs)
=============================================================================
