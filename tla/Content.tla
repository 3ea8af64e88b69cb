------------------------------ MODULE Content ------------------------------
(***************************************************************************)
(* Clients and what the AI agents make for them: client rows and their     *)
(* brand profiles, personas, strategies, ads and research, media files.    *)
(*                                                                         *)
(* A request runs await by await beside others. An agent is one AgentRun   *)
(* row around one or two calls of the language model; what the model       *)
(* answers is any member of Outputs, or nothing that can be used. A text   *)
(* is the set of what a reviewer would find in it. What becomes of a       *)
(* campaign afterwards is in CampaignApproval.                             *)
(***************************************************************************)
EXTENDS Integers, FiniteSets, Sequences, FiniteSetsExt, Functions

CONSTANTS Clients, Campaigns, ClientOf, Requests, Runs, Files, None,
          Provider,      \* AI_PROVIDER: "anthropic" or "mock"
          Outputs,       \* the ad variants a COPY run may return
          VariantCount,  \* how many variants a request asks for
          Industries,    \* what clients write as their line of business
          VerticalOf,    \* the vertical in which its words put a line of business
          Restrictions,  \* the forbidden words and promises a client may have
          Urls, Sites    \* web addresses, and what is there

ASSUME ContentAssumption ==
    /\ ClientOf \in [Campaigns -> Clients]
    /\ None \notin Clients \cup Campaigns \cup Runs \cup Files
    /\ Provider \in {"anthropic", "mock"} /\ VariantCount \in Nat \ {0}
    /\ \A output \in Outputs : output \in Seq(Range(output))

\* normalizeVertical: the first vertical a word of which occurs in the text, or "other".
Verticals == {"home_services", "fitness", "dental", "medical_aesthetics", "beauty", "real_estate",
              "law", "finance_insurance", "education_courses", "coaching", "b2b_services",
              "events_tourism", "other"}

ASSUME VerticalAssumption == VerticalOf \in [Industries -> Verticals]

VARIABLES client,     \* the client rows, each with its brand profile
          campaigns,  \* the campaigns there are
          runs,       \* the AgentRun rows
          persona,    \* the personas a run made
          strategy,   \* the run a campaign's strategy is from
          bank,       \* the runs whose copy is in the copy bank
          adSets,     \* the ad sets: the run they are from and their persona
          creative,   \* the creatives, each with its asset
          ad,         \* the ads
          files,      \* the objects in the storage
          assets,     \* the media library
          req         \* the requests in progress

rows == <<client, campaigns, runs, persona, strategy, bank, adSets, creative, ad>>
vars == <<rows, files, assets, req>>

Slots == Runs \X (1..VariantCount)

\* The rows of the schema. A column that no property tells apart is left out.
Brand == [industry : Industries, words : Restrictions]
ClientRows == [status : {"ONBOARDING", "ACTIVE", "ARCHIVED"}, brand : Brand]
RunRows == [type : {"PERSONA", "RESEARCH", "STRATEGY", "COPY", "COMPLIANCE"},
            on : Clients \cup Campaigns \cup {None}, status : {"RUNNING", "SUCCEEDED", "FAILED"}]
PersonaRows == {"active", "archived"}
CreativeRows == [asset : Files \cup {None}]
BankRows == Runs
AssetRows == Files
Variants == UNION {Range(output) : output \in Outputs}
Personas == {variant.persona : variant \in Variants}
AdSetRows == Runs \X Personas
AdRows == [status : {"DRAFT", "ERROR", "PUBLISHED"}, adSet : Personas,
           text : {variant.text : variant \in Variants}, knew : Brand]

ASSUME NoneAssumption ==
    /\ None \notin ClientRows \cup RunRows \cup PersonaRows \cup CreativeRows \cup AdRows
    /\ None \notin {"strategy", "ads"}

Idle == [pc |-> "idle", op |-> None, on |-> None, type |-> None, run |-> None,
         attempt |-> 0, brand |-> None, copy |-> None, todo |-> <<>>, count |-> 0]

Init ==
    /\ client = [k \in Clients |-> None]
    /\ campaigns = Campaigns
    /\ runs = [m \in Runs |-> None]
    /\ persona = [m \in Runs |-> None]
    /\ strategy = [g \in Campaigns |-> None]
    /\ bank = {} /\ adSets = {}
    /\ creative = [s \in Slots |-> None]
    /\ ad = [s \in Slots |-> None]
    /\ files = {} /\ assets = {}
    /\ req = [r \in Requests |-> Idle]

Goes(r, to) == req' = [req EXCEPT ![r].pc = to]
Ends(r) == req' = [req EXCEPT ![r] = Idle]

-----------------------------------------------------------------------------
(* Clients: no row is ever deleted *)

CreateClient(k) ==
    /\ client[k] = None
    /\ \E industry \in Industries, words \in Restrictions :
         client' = [client EXCEPT ![k] = [status |-> "ONBOARDING",
                       brand |-> [industry |-> industry, words |-> words]]]
    /\ UNCHANGED <<campaigns, runs, persona, strategy, bank, adSets, creative, ad,
                   files, assets, req>>

Operations == {"update", "archive", "profile", "upload"}

\* The row a request is about is looked up first.
Begin(r, op, k) ==
    /\ req[r] = Idle /\ client[k] # None
    /\ req' = [req EXCEPT ![r] = [Idle EXCEPT !.op = op, !.on = k, !.pc = op]]
    /\ UNCHANGED <<rows, files, assets>>

BeginPersonas(r, k) ==
    /\ req[r] = Idle /\ client[k] # None
    /\ req' = [req EXCEPT ![r] = [Idle EXCEPT !.op = "personas", !.on = k, !.type = "PERSONA",
                                              !.pc = "run"]]
    /\ UNCHANGED <<rows, files, assets>>

\* Nothing is stored of the competitors' ads, and a search that fails found none.
BeginResearch(r, k) ==
    /\ req[r] = Idle /\ client[k] # None
    /\ req' = [req EXCEPT ![r] = [Idle EXCEPT !.op = "research", !.on = k, !.type = "RESEARCH",
                                              !.pc = "run"]]
    /\ UNCHANGED <<rows, files, assets>>

BeginOnCampaign(r, op, g) ==
    /\ req[r] = Idle /\ g \in campaigns /\ client[ClientOf[g]] # None
    /\ req' = [req EXCEPT ![r] = [Idle EXCEPT !.op = op, !.on = g, !.pc = "run",
                  !.type = IF op = "ads" THEN "COPY" ELSE "STRATEGY",
                  !.brand = client[ClientOf[g]].brand]]
    /\ UNCHANGED <<rows, files, assets>>

Update(r) ==
    /\ req[r].pc = "update"
    /\ \E industry \in Industries :
         client' = [client EXCEPT ![req[r].on].brand.industry = industry]
    /\ Ends(r)
    /\ UNCHANGED <<campaigns, runs, persona, strategy, bank, adSets, creative, ad, files, assets>>

Archive(r) ==
    /\ req[r].pc = "archive"
    /\ client' = [client EXCEPT ![req[r].on].status = "ARCHIVED"]
    /\ Ends(r)
    /\ UNCHANGED <<campaigns, runs, persona, strategy, bank, adSets, creative, ad, files, assets>>

UpsertBrandProfile(r) ==
    /\ req[r].pc = "profile"
    /\ \E words \in Restrictions :
         client' = [client EXCEPT ![req[r].on].brand.words = words]
    /\ Goes(r, "activate")
    /\ UNCHANGED <<campaigns, runs, persona, strategy, bank, adSets, creative, ad, files, assets>>

\* Mutant: the status is set whatever it is.
ActivateAlways(r) ==
    /\ req[r].pc = "activate"
    /\ client' = [client EXCEPT ![req[r].on].status = "ACTIVE"]
    /\ Ends(r)
    /\ UNCHANGED <<campaigns, runs, persona, strategy, bank, adSets, creative, ad, files, assets>>

\* The first profile takes the client out of onboarding.
Activate(r) ==
    /\ req[r].pc = "activate"
    /\ client' = IF client[req[r].on].status = "ONBOARDING"
                 THEN [client EXCEPT ![req[r].on].status = "ACTIVE"] ELSE client
    /\ Ends(r)
    /\ UNCHANGED <<campaigns, runs, persona, strategy, bank, adSets, creative, ad, files, assets>>

-----------------------------------------------------------------------------
(* fetchWebsiteText: every hop is checked before it is fetched *)

MaxRedirects == 4

PrivateIPv4(a, b) ==
    \/ a \in {0, 10, 127} \/ a >= 224
    \/ <<a, b>> \in {<<169, 254>>, <<192, 168>>}
    \/ a = 172 /\ b \in 16..31
    \/ a = 100 /\ b \in 64..127

\* By the first group; without one (::1 among others) an address counts as private. An
\* IPv4 address written as IPv6 is judged as the IPv4 address it is.
PrivateIPv6(head) == head = None \/ head \in 64512..65023 \/ head \in 65152..65215

PrivateAddress(address) ==
    IF address.version = 4 THEN PrivateIPv4(address.a, address.b) ELSE PrivateIPv6(address.a)

AssertSafeUrl(url) ==
    /\ Sites[url].web /\ ~Sites[url].internal
    /\ Sites[url].addresses # {}
    /\ \A address \in Sites[url].addresses : ~PrivateAddress(address)

\* The length of the text behind an address, -1 if there is none.
WebsiteText[hop \in 0..(MaxRedirects + 1), url \in Urls] ==
    IF hop > MaxRedirects \/ ~AssertSafeUrl(url) THEN -1
    ELSE IF Sites[url].to # None THEN WebsiteText[hop + 1, Sites[url].to]
    ELSE Sites[url].length

\* extractBrandFromWebsite: before there is a client, and nothing is stored for it.
ExtractBrand(r, url) ==
    /\ req[r] = Idle
    /\ WebsiteText[0, url] >= 40
    /\ req' = [req EXCEPT ![r] = [Idle EXCEPT !.op = "extract", !.type = "RESEARCH", !.pc = "run"]]
    /\ UNCHANGED <<rows, files, assets>>

-----------------------------------------------------------------------------
(* AgentEngine.run around AiProvider.complete *)

\* Mutant: any run may fail without failing the request.
TolerateAll(type) == TRUE
\* Only the compliance reviewer's failure is caught.
Tolerated(type) == type = "COMPLIANCE"

\* The run came to nothing: the request fails with it or goes on.
WithoutRun(r) == IF Tolerated(req[r].type) THEN Goes(r, "bank") ELSE Ends(r)

StartRun(r) ==
    /\ req[r].pc = "run"
    /\ \/ \E m \in {m \in Runs : runs[m] = None} :
            /\ runs' = [runs EXCEPT ![m] = [type |-> req[r].type, on |-> req[r].on,
                                            status |-> "RUNNING"]]
            /\ req' = [req EXCEPT ![r].run = m, ![r].pc = "model", ![r].attempt = 1]
       \/ WithoutRun(r) /\ UNCHANGED runs
    /\ UNCHANGED <<client, campaigns, persona, strategy, bank, adSets, creative, ad, files, assets>>

\* Variants by persona, in the order in which personas first appear.
Opens(variants, i) == Min({j \in DOMAIN variants : variants[j].persona = variants[i].persona})
Place(variants, i) ==
    Cardinality({j \in DOMAIN variants :
                   \/ Opens(variants, j) < Opens(variants, i)
                   \/ Opens(variants, j) = Opens(variants, i) /\ j <= i})
Grouped(variants) ==
    [p \in DOMAIN variants |->
       variants[CHOOSE i \in DOMAIN variants : Place(variants, i) = p]]

Requested(output) == SubSeq(output, 1, Min({VariantCount, Len(output)}))

Answered(r) ==
    IF req[r].type = "COPY"
    THEN \E output \in Outputs :
           req' = [req EXCEPT ![r].pc = "record", ![r].todo = Grouped(Requested(output)),
                              ![r].count = Len(Requested(output))]
    ELSE Goes(r, "record")

\* Mutant: an answer that does not fit the schema is always asked for again.
KeepsAsking(r) ==
    /\ req[r].pc = "model"
    /\ \/ Answered(r)
       \/ Provider = "anthropic" /\ req' = [req EXCEPT ![r].attempt = req[r].attempt + 1]
       \/ Provider = "anthropic" /\ Goes(r, "refused")
    /\ UNCHANGED <<rows, files, assets>>

\* An answer that does not fit the schema is asked for once more; a provider that is
\* busy or fails is not asked again. The mock always answers.
AskModel(r) ==
    /\ req[r].pc = "model"
    /\ \/ Answered(r)
       \/ /\ Provider = "anthropic" /\ req[r].attempt < 2
          /\ req' = [req EXCEPT ![r].attempt = req[r].attempt + 1]
       \/ Provider = "anthropic" /\ Goes(r, "refused")
    /\ UNCHANGED <<rows, files, assets>>

\* Where a request goes when its agent has succeeded.
AfterRun(r) ==
    CASE req[r].type = "COPY" ->
           req' = [req EXCEPT ![r].copy = req[r].run, ![r].type = "COMPLIANCE", ![r].pc = "run"]
      [] req[r].type = "COMPLIANCE" -> Goes(r, "bank")
      [] req[r].type \in {"PERSONA", "STRATEGY"} -> Goes(r, "store")
      [] req[r].type = "RESEARCH" -> Ends(r)

RecordSuccess(r) ==
    /\ req[r].pc = "record"
    /\ \/ runs' = [runs EXCEPT ![req[r].run].status = "SUCCEEDED"] /\ AfterRun(r)
       \/ Goes(r, "refused") /\ UNCHANGED runs
    /\ UNCHANGED <<client, campaigns, persona, strategy, bank, adSets, creative, ad, files, assets>>

\* Recording the failure may fail as well: the row stays RUNNING.
RecordFailure(r) ==
    /\ req[r].pc = "refused"
    /\ \/ runs' = [runs EXCEPT ![req[r].run].status = "FAILED"]
       \/ UNCHANGED runs
    /\ WithoutRun(r)
    /\ UNCHANGED <<client, campaigns, persona, strategy, bank, adSets, creative, ad, files, assets>>

-----------------------------------------------------------------------------
(* What requests store of an agent's answer *)

StorePersonas(r) ==
    /\ req[r].pc = "store" /\ req[r].op = "personas"
    /\ persona' = [persona EXCEPT ![req[r].run] = "active"]
    /\ Ends(r)
    /\ UNCHANGED <<client, campaigns, runs, strategy, bank, adSets, creative, ad, files, assets>>

RemovePersona(m) ==
    /\ persona[m] = "active"
    /\ persona' = [persona EXCEPT ![m] = "archived"]
    /\ UNCHANGED <<client, campaigns, runs, strategy, bank, adSets, creative, ad, files, assets, req>>

StoreStrategy(r) ==
    /\ req[r].pc = "store" /\ req[r].op = "strategy" /\ req[r].on \in campaigns
    /\ strategy' = [strategy EXCEPT ![req[r].on] = req[r].run]
    /\ Ends(r)
    /\ UNCHANGED <<client, campaigns, runs, persona, bank, adSets, creative, ad, files, assets>>

\* The copy bank names its campaign without a foreign key.
StoreCopy(r) ==
    /\ req[r].pc = "bank"
    /\ bank' = bank \cup {req[r].copy}
    /\ Goes(r, IF req[r].todo = <<>> THEN "report" ELSE "ad_set")
    /\ UNCHANGED <<client, campaigns, runs, persona, strategy, adSets, creative, ad, files, assets>>

StoreAdSet(r) ==
    /\ req[r].pc = "ad_set" /\ req[r].on \in campaigns
    /\ adSets' = adSets \cup {<<req[r].copy, Head(req[r].todo).persona>>}
    /\ Goes(r, "creative")
    /\ UNCHANGED <<client, campaigns, runs, persona, strategy, bank, creative, ad, files, assets>>

\* The variant at the head is the one after those that are stored.
Slot(r) == <<req[r].copy, req[r].count - Len(req[r].todo) + 1>>

\* A creative belongs to the client, not to the campaign.
StoreCreative(r) ==
    /\ req[r].pc = "creative"
    /\ creative' = [creative EXCEPT ![Slot(r)] = [asset |-> None]]
    /\ Goes(r, "ad")
    /\ UNCHANGED <<client, campaigns, runs, persona, strategy, bank, adSets, ad, files, assets>>

SensitiveVerticals == {"medical_aesthetics", "dental", "fitness", "beauty", "finance_insurance"}

\* A line of business that no word matches is "other", and not sensitive.
Sensitive(brand) == VerticalOf[brand.industry] \in SensitiveVerticals

Blocking(brand) ==
    {"personal_attribute", "promise", "crypto"} \cup brand.words
      \cup (IF Sensitive(brand) THEN {"before_after"} ELSE {})
Softer == {"sensitive_topic", "figure"}

\* Mutant: a softer finding decides.
SofterFirst(text, brand) ==
    IF text \cap Softer # {} THEN "WARN"
    ELSE IF text \cap Blocking(brand) # {} THEN "BLOCK" ELSE "PASS"

CheckCompliance(text, brand) ==
    IF text \cap Blocking(brand) # {} THEN "BLOCK"
    ELSE IF text \cap Softer # {} THEN "WARN" ELSE "PASS"

\* Mutant: only the variants of one persona are stored.
OneGroup(todo) == "report"
AfterAd(todo) ==
    IF Len(todo) = 1 THEN "report"
    ELSE IF todo[2].persona = todo[1].persona THEN "creative" ELSE "ad_set"

\* knew is history: what the request read of the client when it began.
StoreAd(r) ==
    LET variant == Head(req[r].todo)
        blocked == CheckCompliance(variant.text, req[r].brand) = "BLOCK"
    IN  /\ req[r].pc = "ad" /\ req[r].on \in campaigns
        /\ ad' = [ad EXCEPT ![Slot(r)] =
                    [status |-> IF blocked THEN "ERROR" ELSE "DRAFT", adSet |-> variant.persona,
                     text |-> variant.text, knew |-> req[r].brand]]
        /\ req' = [req EXCEPT ![r].todo = Tail(req[r].todo), ![r].pc = AfterAd(req[r].todo)]
        /\ UNCHANGED <<client, campaigns, runs, persona, strategy, bank, adSets, creative,
                       files, assets>>

Report(r) ==
    /\ req[r].pc = "report"
    /\ Ends(r)
    /\ UNCHANGED <<rows, files, assets>>

\* A query fails (so does a row whose campaign is gone) or the process dies.
Broken(r) ==
    /\ req[r].pc # "idle"
    /\ Ends(r)
    /\ UNCHANGED <<rows, files, assets>>

-----------------------------------------------------------------------------
(* Campaigns, as far as their rows are concerned *)

OfCampaign(g) == {m \in Runs : runs[m] # None /\ runs[m].on = g}

\* Ad sets, ads and the strategy go with their campaign.
RemoveCampaign(g) ==
    /\ g \in campaigns
    /\ campaigns' = campaigns \ {g}
    /\ strategy' = [strategy EXCEPT ![g] = None]
    /\ adSets' = {s \in adSets : s[1] \notin OfCampaign(g)}
    /\ ad' = [s \in Slots |-> IF s[1] \in OfCampaign(g) THEN None ELSE ad[s]]
    /\ UNCHANGED <<client, runs, persona, bank, creative, files, assets, req>>

\* Publishing sends every ad of the plan, one in ERROR too.
PublishAd(s) ==
    /\ ad[s] # None
    /\ ad' = [ad EXCEPT ![s].status = "PUBLISHED"]
    /\ UNCHANGED <<client, campaigns, runs, persona, strategy, bank, adSets, creative,
                   files, assets, req>>

-----------------------------------------------------------------------------
(* The media library; the storage key is a hash of the content *)

PutFile(r) ==
    /\ req[r].pc = "upload"
    /\ \E f \in Files : files' = files \cup {f} /\ req' = [req EXCEPT ![r].pc = "row", ![r].run = f]
    /\ UNCHANGED <<rows, assets>>

StoreAsset(r) ==
    /\ req[r].pc = "row"
    /\ assets' = assets \cup {req[r].run}
    /\ Ends(r)
    /\ UNCHANGED <<rows, files>>

AttachToCreative(s, f) ==
    /\ creative[s] # None /\ f \in assets
    /\ creative' = [creative EXCEPT ![s].asset = f]
    /\ UNCHANGED <<client, campaigns, runs, persona, strategy, bank, adSets, ad, files, assets, req>>

Next ==
    \/ \E k \in Clients : CreateClient(k)
    \/ \E r \in Requests, k \in Clients, op \in Operations : Begin(r, op, k)
    \/ \E r \in Requests, k \in Clients : BeginPersonas(r, k) \/ BeginResearch(r, k)
    \/ \E r \in Requests, g \in Campaigns, op \in {"strategy", "ads"} : BeginOnCampaign(r, op, g)
    \/ \E r \in Requests, url \in Urls : ExtractBrand(r, url)
    \/ \E r \in Requests :
         \/ Update(r) \/ Archive(r) \/ UpsertBrandProfile(r) \/ Activate(r)
         \/ StartRun(r) \/ AskModel(r) \/ RecordSuccess(r) \/ RecordFailure(r)
         \/ StorePersonas(r) \/ StoreStrategy(r) \/ StoreCopy(r) \/ StoreAdSet(r)
         \/ StoreCreative(r) \/ StoreAd(r) \/ Report(r) \/ Broken(r)
         \/ PutFile(r) \/ StoreAsset(r)
    \/ \E m \in Runs : RemovePersona(m)
    \/ \E g \in Campaigns : RemoveCampaign(g)
    \/ \E s \in Slots : PublishAd(s)
    \/ \E s \in Slots, f \in Files : AttachToCreative(s, f)

Spec == Init /\ [][Next]_vars

-----------------------------------------------------------------------------
(* Properties *)

\* The type invariant: a run makes at most two calls of the model, and every asset of
\* the library has its file (AnthropicProvider.complete, AssetsService.upload).
TypeOK ==
    /\ client \in [Clients -> ClientRows \cup {None}]
    /\ campaigns \subseteq Campaigns
    /\ runs \in [Runs -> RunRows \cup {None}]
    /\ persona \in [Runs -> PersonaRows \cup {None}]
    /\ strategy \in [Campaigns -> Runs \cup {None}]
    /\ bank \subseteq BankRows /\ adSets \subseteq AdSetRows
    /\ creative \in [Slots -> CreativeRows \cup {None}]
    /\ \A s \in Slots : creative[s] # None => creative[s].asset \in assets \cup {None}
    /\ ad \in [Slots -> AdRows \cup {None}]
    /\ assets \subseteq files /\ files \subseteq AssetRows
    /\ \A r \in Requests : req[r].attempt \in 0..2

\* What is stored came from an agent run of the right kind that is recorded as
\* succeeded and is about this campaign; only the review of the ads may have failed.
Succeeded(m, type) ==
    m \in Runs /\ runs[m] # None /\ runs[m].status = "SUCCEEDED" /\ runs[m].type = type
FromSuccessfulRuns ==
    /\ \A m \in Runs : persona[m] # None => Succeeded(m, "PERSONA")
    /\ \A g \in Campaigns : strategy[g] # None =>
         Succeeded(strategy[g], "STRATEGY") /\ runs[strategy[g]].on = g
    /\ \A m \in bank : Succeeded(m, "COPY")
    /\ \A s \in Slots : creative[s] # None => s[1] \in bank

\* An ad that says what its client had forbidden when the generation began, or shows before
\* and after in a vertical recognised as sensitive, is never a draft, whatever else the
\* rules find in it and whatever the client forbids later.
ForbiddenIsMarked ==
    \A s \in Slots : ad[s] # None =>
      (ad[s].status = "DRAFT" => ad[s].text \cap ad[s].knew.words = {}
                                   /\ ("before_after" \in ad[s].text => ~Sensitive(ad[s].knew)))

\* A generation that reports success has stored every variant it was asked for, each
\* under the ad set of its persona, unless the campaign was deleted under it.
CompleteWhenReported ==
    \A r \in Requests : req[r].pc = "report" /\ req[r].on \in campaigns =>
      \A i \in 1..req[r].count :
        LET s == <<req[r].copy, i>>
        IN  /\ creative[s] # None /\ ad[s] # None
            /\ <<req[r].copy, ad[s].adSet>> \in adSets

\* An archived client never comes back: saving its brand profile at the same time does
\* not make it active (upsertBrandProfile beside archive).
ArchivedStays ==
    [][\A k \in Clients : client[k] # None /\ client[k].status = "ARCHIVED" =>
         client'[k].status = "ARCHIVED"]_vars
=============================================================================
