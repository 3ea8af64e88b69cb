------------------------- MODULE ContentInvariants -------------------------
(***************************************************************************)
(* Why Content keeps its promises: what a request relies on at each        *)
(* program counter. ContentInvariant is inductive for any number of        *)
(* requests; the theorems of ContentProofs are proved from it.             *)
(***************************************************************************)
EXTENDS Content

\* Where a request is with its agent, and with what it stores of the ads.
InAgent == {"run", "model", "record", "refused", "store"}
WithRun == {"model", "record", "refused"}
InVariant == {"ad_set", "creative", "ad"}
Generating == {"bank", "report"} \cup InVariant
ClientWrites == {"update", "archive", "profile", "activate"}
PC == {"idle", "upload", "row"} \cup ClientWrites \cup InAgent \cup Generating

Types == {"PERSONA", "RESEARCH", "STRATEGY", "COPY", "COMPLIANCE"}

Requesting ==
    [pc : PC, op : Operations \cup {"personas", "research", "strategy", "ads", "extract", None},
     on : Clients \cup Campaigns \cup {None}, type : Types \cup {None},
     run : Runs \cup Files \cup {None}, attempt : 0..2, brand : Brand \cup {None},
     copy : Runs \cup {None}, todo : Seq(Variants), count : 0..VariantCount]

\* The agents an operation awaits.
Awaits == {<<"personas", "PERSONA">>, <<"strategy", "STRATEGY">>, <<"ads", "COPY">>,
           <<"ads", "COMPLIANCE">>, <<"research", "RESEARCH">>, <<"extract", "RESEARCH">>}

\* The generation of ads is past its copy.
Copied(q) == q.pc \in Generating \/ (q.pc \in InAgent /\ q.type = "COMPLIANCE")

\* What the fields of a request hold at its program counter.
WellFormed(q) ==
    /\ q.pc \in ClientWrites => q.on \in Clients
    /\ q.pc \in InAgent => <<q.op, q.type>> \in Awaits
    /\ q.pc \in WithRun \cup {"store"} => q.run \in Runs
    /\ q.pc = "store" => q.type \in {"PERSONA", "STRATEGY"}
    /\ q.pc \in Generating => q.op = "ads"
    /\ q.op \in {"strategy", "ads"} => q.on \in Campaigns /\ q.brand \in Brand
    /\ Copied(q) => q.copy \in Runs
    /\ q.pc = "record" /\ q.type = "COPY" => Len(q.todo) = q.count
    /\ q.pc \in InAgent /\ q.type = "COMPLIANCE" => Len(q.todo) = q.count
    /\ q.pc = "bank" => Len(q.todo) = q.count
    /\ q.pc \in InVariant => Len(q.todo) \in 1..q.count
    /\ q.pc = "report" => q.todo = <<>>

GoodRequests == {q \in Requesting : WellFormed(q)}

Typed == TypeOK /\ req \in [Requests -> GoodRequests]

-----------------------------------------------------------------------------
(* A request and the run it awaits; rs are the runs.                       *)

Recorded(row, type) == row # None /\ row.status = "SUCCEEDED" /\ row.type = type

RunKnown(q, rs) ==
    /\ q.pc \in WithRun => /\ rs[q.run] # None
                           /\ rs[q.run].status = "RUNNING"
                           /\ rs[q.run].type = q.type /\ rs[q.run].on = q.on
    /\ q.pc = "store" => Recorded(rs[q.run], q.type) /\ rs[q.run].on = q.on
    /\ Copied(q) => Recorded(rs[q.copy], "COPY") /\ rs[q.copy].on = q.on

\* Two requests never record the outcome of the same run.
RunsApart ==
    \A r, q \in Requests :
      r # q /\ req[r].pc \in WithRun /\ req[q].pc \in WithRun => req[r].run # req[q].run

-----------------------------------------------------------------------------
(* A request and the rows it has written; cl, fs, bk, cs, cr, ads and sets *)
(* are the clients, files, copy bank, campaigns, creatives, ads, ad sets.  *)

RowsKnown(q, cl, fs, bk) ==
    /\ q.pc \in ClientWrites => cl[q.on] # None
    /\ q.pc = "row" => q.run \in fs
    /\ q.pc \in {"report"} \cup InVariant => q.copy \in bk

\* The variant i of a copy is stored under the ad set of its persona.
Stored(m, i, cr, ads, sets) ==
    /\ cr[<<m, i>>] # None /\ ads[<<m, i>>] # None
    /\ <<m, ads[<<m, i>>].adSet>> \in sets

\* How many variants a request has stored.
Done(q) == q.count - Len(q.todo)

Progress(q, cs, cr, ads, sets) ==
    /\ q.pc \in {"report"} \cup InVariant /\ q.on \in cs =>
         \A i \in 1..Done(q) : Stored(q.copy, i, cr, ads, sets)
    /\ q.pc \in {"creative", "ad"} /\ q.on \in cs => <<q.copy, Head(q.todo).persona>> \in sets
    /\ q.pc = "ad" => cr[<<q.copy, Done(q) + 1>>] # None

ContentInvariant ==
    /\ Typed
    /\ \A r \in Requests : /\ RunKnown(req[r], runs)
                           /\ RowsKnown(req[r], client, files, bank)
                           /\ Progress(req[r], campaigns, creative, ad, adSets)
    /\ RunsApart
    /\ FromSuccessfulRuns
    /\ ForbiddenIsMarked
=============================================================================
