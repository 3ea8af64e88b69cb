# CampaignOS: a verification project

CampaignOS manages Meta advertising campaigns for many organisations. Its central
promise is an approval gate: nothing is written to Meta, and no money is spent, unless a
human approved exactly what is sent. This directory holds TLA+ models of the API
(`src/apps/api`), the TLC configurations that check them on small instances, and proofs
about them that TLAPS checks for every instance.

To run it: `tlc -config <cfg> <module>` for each run listed below, and `tlapm <module>.tla`
for `CampaignProofs`, `SplitTestProofs`, `BudgetProofs`, `IdentityProofs`,
`MetaAccessProofs`, `SecretsProofs`, `InsightsProofs` and `ContentProofs`.

## 1. Inventory

The API is a NestJS server over one Postgres database (`src/packages/db/prisma/schema.prisma`)
and the Meta marketing API. A handler is an async function: it gives up the event loop at
every `await`, several handlers are in progress at once, and several processes may run the
same code. There are no locks. Transactions run at READ COMMITTED, and almost every write
is an update by id that does not test what was read before. This is where the interesting
behaviour of the system comes from.

| Component | State | Operations | Interacts with | What makes it hard | What makes it correct |
|---|---|---|---|---|---|
| Campaigns (`campaigns.service.ts`) | campaign row: status, content | createDraft, update, remove | read by approvals and publish | status read, then written by id | an edit never reaches Meta without approval |
| Campaign approvals (`approvals.service.ts`) | approval rows: status, frozen plan and hash, requester, decider | requestApproval, decide | campaign row; publish consumes the row | two statements outside a transaction; decisions cross requests | maker-checker; decisions are final; one open request |
| Publishing (`publish.service.ts`, `payload-builder.ts`) | the tree of entities at Meta | publish, pause | approvals, ad account selection, call log | dozens of calls, each may fail or be unanswered; crash in the middle; two publishes at once | only the approved plan; approval consumed first; built before active; ends |
| Split tests (`ab-tests.service.ts`, AB_TEST branch of `decide`) | test rows, studies at Meta | create, requestLaunch, decide, cancel, refreshResults | approvals, published ads | compensation when storing a launch fails; cancel races launch; answers in any order | the study is the approved one, tracked while it spends; the right ad wins |
| Recommendations and budgets (`recommendations.service.ts`, BUDGET_CHANGE branch) | recommendation rows, the budget of the campaign here and at Meta | generate, apply, decide | approvals, insight snapshots | a change applied at Meta and not stored is applied again; the drift guard compares the amount only; rounding | what is sent is what was shown; what is recorded was sent; a half-done change leaves evidence; one approval per recommendation |
| Ad accounts and connections (`meta.service.ts`) | connections, credentials, accounts, selection | connect, refresh, selectAdAccount, disconnect | publish, split tests, sync, audiences | a reconnect beside a disconnect; exclusive within a connection only | connected means usable; one selected account per connection |
| Call log (`meta-call-logger.service.ts`) | log rows, NEEDS_RECONNECT | wrap | every Meta call | a log row that cannot be written turns success into failure; late refusals | flagged only after a refusal |
| Sync, scheduler, queue (`sync.service.ts`, `scheduler.service.ts`, `queue.service.ts`) | jobs, insight snapshots | tick, enqueue, runSync | connections, analytics | one of several connections; reruns; ids that change; one page | it catches up; a day is counted once |
| Audiences (`audiences.service.ts`) | audience rows, audiences at Meta | sync, create, remove | connections, call log | a call, then a write; a swallowed answer | what is listed exists |
| Sessions (`auth.service.ts`, `jwt-auth.guard.ts`, the browser's `api.ts`) | refresh tokens, what the browser stores | register, login, refresh, logout | roles in access tokens | revoke, then issue; a stale role; 401 and retry | one valid token of a sign-in; nobody is signed out for nothing |
| Organisation (`org.service.ts`, `permissions.ts`) | members and roles | addMember, updateMember, removeMember | sessions, approvals | count, then write | somebody can always administer; no reach into another organisation |
| Leads (`leads.service.ts`, `webhooks.controller.ts`) | encrypted leads, deletion requests | webhook, ingest, work on, erase | Meta, crypto | answered before processed; delivered twice; erasure beside everything | a receipt means erased; a delivery never resets a lead |
| Keys (`crypto.service.ts`, `key-rotation.service.ts`) | ciphertexts by key version, key rings | encrypt, decrypt, rotate | connections, leads | a script beside running writers; deaths | everything stays readable |
| Marketing algorithms (`packages/marketing-core`) | none | pure functions | analytics, recommendations, split tests, generation | thresholds, rounding, zeros | never kill and scale; worse is not rated better; the winner is real; a budget is shared out whole |
| Analytics (`analytics.service.ts`) | none | clientOverview, accountAudit | snapshots, algorithms | figures filed twice or missing | the overview is what Meta reports of the days it shows |
| Ad generation and agents (`generation.service.ts`, `agent-engine.service.ts`, `compliance.ts`) | run rows, strategies, copy bank, ad sets, creatives, ads | generateStrategy, generateAds | a language model, clients, publish | two model calls between reading and writing; no transaction | stored from recorded runs; forbidden ads are marked; success means complete |
| Clients, personas, research (`clients/*.ts`) | client rows, brand profiles, personas | create, update, archive, profile; generate; research; website fetch | generation | read, then write; redirects | archived stays archived |
| Assets (`storage/*.ts`) | files, asset rows | upload, attach | creatives | a file, then a row | a row has its file |
| Everything else | | rate limiter, offers, most web pages, plumbing | | counters, descriptive rows, presentation | not modelled (section 5) |

`PROJECT.json` lists every component with its files and every hazard with its line.

## 2. Modules

| Module | What it is |
|---|---|
| `PublishGate` | The abstract specification of the approval gate: grants, grants spent, trees of Meta entities opened, built, activated, halted. |
| `CampaignApproval` | One campaign: `requestApproval`, `decide`, `publish`, `pause`, `update`, `remove`, the Meta side of a publish, and what other services do to the same rows. |
| `CampaignInvariants` | What a handler knows at each of its awaits; the inductive invariants `GateInvariant` (any interleaving) and `SerialInvariant` (one request at a time). |
| `MCCampaignApproval` | Instance for TLC: layouts of connections, symmetry. |
| `CampaignProofs` | Type correctness; both invariants are inductive; the safety theorems; `CampaignApproval` implements `PublishGate`, with single use when requests do not overlap. |
| `SplitTest` | The split tests of one campaign: `create`, `requestLaunch`, the AB_TEST branch of `decide`, `cancel`, `refreshResults`, the studies at Meta. |
| `SplitTestInvariants` | What a handler of a split test knows at each of its awaits; the inductive invariants `LaunchInvariant` and `SerialInvariant`. |
| `MCSplitTest` | Instance for TLC: symmetry. |
| `SplitTestProofs` | Type correctness, both invariants are inductive, the safety theorems. |
| `BudgetChange` | Recommendations and the budget of one campaign: `generate`, `apply`, `decide`, the BUDGET_CHANGE branch of the approval's `decide`, the budget at Meta. |
| `BudgetInvariants` | What a handler knows at each of its awaits; the inductive invariants `BudgetInvariant` and `SerialInvariant`. |
| `MCBudgetChange` | Instance for TLC: symmetry. |
| `BudgetProofs` | Type correctness, both invariants are inductive, the safety theorems. |
| `Permissions` | The roles, the permissions and the matrix of `permissions.ts`. |
| `Identity` | Sessions and members: the API's `auth`, `org` and guards, and the browser's token storage and its handling of a 401. |
| `IdentityInvariants` | What a request has read by the await it is at; `IdentityInvariant` and `SerialInvariant`. |
| `IdentityProofs` | Type correctness, both invariants are inductive, the safety and action properties. |
| `MetaAccess` | Connections, credentials, accounts, the call log, the scheduler, the queue, the sync as a job, audiences. |
| `Secrets` | Sealed rows: credentials and leads, key rings, the rotation script, webhooks, erasure. |
| `MetaAccessProofs` | Type correctness, the invariant of connections and credentials, flagged for cause, listed exists. |
| `SecretsProofs` | Type correctness, the invariants of rotation and of erasure, the status of leads. |
| `MarketingRules` | The optimisation rules, the audit's scores, the decision of a split test, the budget tiers. |
| `Insights` | What Meta reports, what a sync stores under which id, what the tool says of it; uses `MarketingRules`. |
| `InsightsInvariants` | Where figures are filed (`SyncInvariant`), what the overview adds up (`OverviewInvariant`). |
| `InsightsProofs` | Sums over finite sets; what the rules, scores and tiers do for any figures; both invariants are inductive; the properties of `Insights`. |
| `Content` | Clients, agent runs, personas, strategies, ads, media files. |
| `ContentInvariants` | What a request relies on at each query; `ContentInvariant`. |
| `ContentProofs` | Type correctness, `ContentInvariant` is inductive, the safety and action properties. |
| `MCIdentity`, `MCMetaAccess`, `MCSecrets`, `MCInsights`, `MCContent` | Instances for TLC: symmetry, what can be answered or delivered, constraints. |

The models meet in the rows they share. Publishing in `CampaignApproval` is one step in
`Insights` (`Publish`) and in `Content` (`PublishAd`), generation in `Content` is one step in
`CampaignApproval` (`ContentChange`); a connection of `MetaAccess` is the fault
`no_credential` and the constant `ConnectionOf` of the campaign; a stored credential is a
number in `MetaAccess` and a sealed row in `Secrets`.

### How state and actions correspond to the code

A **request slot** (`req[r]`) is one HTTP request being served: `pc` names the await the
handler is about to pass, the other fields are the local variables that live across it
(`approval`, `plan`, `run`, `step`, ...). An action is what happens from one await to the
next: the result of the awaited call, the code up to the next await, and that await's
request. Early returns and exceptions are the `Return` disjuncts. `UserRequest` holds the
actions that start a handler: its first query and the guards on it; `Serve` the rest.

*`CampaignApproval`.* `campaign`, `approvals` and `selected` are the rows; `later` is the
order of `decidedAt`; `meta[m]` is the tree one publish run created (how many entities of
the plan exist, which are active, under which approval and plan); `granted` is a history
variable. `approvers` is the organisation's roster, the users with the role ADMIN or
AGENCY_OWNER: one of `Rosters`, the same all the time, because members change in `Identity`.
`RequestApproval`, `RequestBundle`, `RequestSupersede` and `RequestCommit` are
`ApprovalsService.requestApproval`; `Decide`, `DecideCount`, `DecideWrite` and
`DecideFollow` are `decide`; `Publish` to `PublishFail` are `PublishService.publish`, with
one `PublishCall` and one `PublishSave` for each entity of the plan; `Pause*` are `pause`;
`Update*` and `Remove*` are `CampaignsService`; `ContentChange` stands for ad generation,
image attachment and executed budget changes, `SelectAdAccount` for `MetaService`.

*`SplitTest`.* `tests`, `approvals` are the rows, `studies` and `paused` what is at Meta,
`published[ad]` how often an ad has been published (an ad gets a new Meta id each time).
`LaunchDrift`, `LaunchCall`, `LaunchCommit`, `LaunchCompensate` and `LaunchCleanup` are
`decideAbTestLaunch` with both of its catch blocks; `Cancel*` are `cancel`; `RefreshPull`
and `RefreshRecord` are `refreshResults`, over every order in which Meta may list the two
cells and every omission of their ids. `abandoned` is a history variable.

*`BudgetChange`.* `recs`, `approvals` and `campaign` are the rows, `live[m]` the budget of
campaign `m` at Meta, `ledger` the history of the changes that reached it. `Generate*` are
`RecommendationsService.generate`, `Apply*` are `apply`, `RecDecide` and `RecMark` its
`decide`; `Decide`, `DecideCount`, `DecideReject` and `Budget*` are `ApprovalsService.decide`
with `decideBudgetChange`. Editing, publishing and reopening the campaign are modelled in
`CampaignApproval`; here each is one step that takes a free slot, so that in the run with
one slot it does not cross another request, and that in the proofs it may. A deterministic
finding names the campaign and one of the language model's does not; as the rules only ever
propose to scale up, REDUCE_BUDGET never reaches an approval and is left out.

*`Identity`.* `members` and `tokens` are rows, `access`, `refresh` and `shown` what each
browser stores and shows, `call[c]` a request from the browser through the API and back.
`Send` is `rawRequest` with the guards (`Caller`, `Entry`); `Denied`, `Refresh`, `Rotate`,
`Issue`, `Refreshed`, `Retry` are the way of a 401; `AddMember`, `AssertNotLastPrivileged`,
`UpdateMember` and `RemoveMember` are `OrgService`. A removed member keeps its row with the
role REMOVED, so that ids are not used again.

*`MetaAccess`.* `slot[s]` is a request or a worker's job. `PersistConnection` is the
transaction of the OAuth callback; `Context` reads the credential, after which a handler
needs the row no longer; each call to Meta is an action by name (`ListAdAccounts`,
`GetInsights`, `ListAudiences`, `CreateCall`, `DeleteCall`) beside `TokenRefused` and
`CallFails`, which are `MetaCallLogger.wrap`. `Tick`, `TakeJob` and `Requeue` are the scheduler
and the queue.

*`Secrets`.* `sealed[r]` is the key version of a row, `cfg[p]` the configuration a process was
started with, `env` the one that is installed. `InstallKey`, `Restart`, `RunScript` and
`DropRetired` are the procedure the comment of `CryptoService` gives its operator.
`RestartsFirst` says that the operator follows it: every process is restarted with the new
key before the script runs. `request[u].owed` is a history variable: the leads stored when
the request came in that are not erased yet.

*`Insights`.* Time passes in days. `reported` is what Meta says today (it may correct itself),
`rows` the snapshots with the tree each came from, `upToDate` a history variable. `Ask` is the
request for one page, `Store` the upserts, `StoreBreaks` an upsert that fails half-way;
`Overview`, `Metrics`, `Delivered` and `Cell` are what the analytics, the rules, the audit and a
split test see. A sync asks for the days up to yesterday (`Recent`); what is read back lacks the
first of them (`Seen`), because `since` has the time of day and a snapshot lies at midnight.
`MaxVolume` bounds the trees built and the figures Meta has of them.

*`Content`.* A request runs query by query (`req[r].pc`); an agent run is a row that is
RUNNING, SUCCEEDED or FAILED around one or two calls of the model (`AskModel`).
`StoreCopy`, `StoreAdSet`, `StoreCreative` and `StoreAd` are the writes of
`persistGeneration`, `AfterAd` its loops, `CheckCompliance` the verdict. `AssertSafeUrl` and
`WebsiteText` are the website fetch with its redirects.

### Abstractions

- A day begins at the same midnight (UTC) for the account and for the tool, and nobody reads the
  figures at midnight sharp, when `since` would still reach the first day of its window.
- A figure is a whole number; rates are compared by cross products, and the p-value's
  threshold is one on the square of z. What is rounded is in hundredths.
- A text is the set of rules it breaks, a line of business what `VerticalOf` makes of it
  (`normalizeVertical`: "other" when no word matches), a website a record of what its address resolves
  to, where it redirects to and how long it is. An IPv4-mapped IPv6 address is its IPv4 one.
- A column that no property tells apart is left out of the row types.
- One deletion request is in progress for a person at a time.
- One campaign at a time: every query of these services is scoped by campaign (or test).
- Contents, plans and ids are values that are only compared. A plan is the content plus
  the connection whose page and pixel it names. Hashes are injective: two plans have equal
  hashes when they are equal.
- An ad and its creative are one entity. The audit log is left out except where its
  failure changes what happens (the audit row inside the try block of `publish`).
- Time: an approval may or may not have passed `expiresAt` when `publish` looks, so both
  outcomes are possible at `PublishFind`. Order of decisions is kept (`later`).
- A transaction is one step, except where its first statement reads rows that a rival can
  still add to (`RequestSupersede`, `LaunchSupersede`).
- A study has a leader from the start, or none; the statistics that find it are outside.
- The rules and the language model find any set of recommendations, one of each kind.
- A failed transaction changed nothing. (A commit whose confirmation is lost is not
  modelled.)

## 3. Runs

| Run | Configuration | What it shows | Size |
|---|---|---|---|
| `campaign_concurrent` | `MCCampaignApproval.cfg`: 2 requests in progress, 2 approvals, 2 trees, 3 contents, rosters of one and of two approvers | What the gate promises under any interleaving: only approved plans, consumed before Meta, built before active, maker-checker; the services implement `PublishGate` without single use | 1.0 M states |
| `campaign_serial` | `MCCampaignApprovalSerial.cfg`: 1 request, 3 approvals, 2 accounts of 2 connections, every fault | What more holds as long as requests do not race: single use, one open request, a status that is earned | 0.9 M states |
| `publish_settles` | `PublishSettles.cfg`: calls fail and answers are lost, fair service | A campaign always leaves PUBLISHING | 64 k states |
| `split_test` | `MCSplitTest.cfg`: 1 request, 2 tests, 2 approvals, 2 studies, ads published up to twice, every fault | A study is the approved one, tracked while it spends; cancelled means stopped; the winner leads; tests in order | 2.7 M states |
| `budget` | `MCBudgetChange.cfg`: 1 request, 2 recommendations, 2 approvals, 2 campaigns at Meta, 2 amounts a user enters, every fault | What is sent is what was shown, what is recorded was sent, half-done leaves evidence, one approval per recommendation | 1.6 M states |
| `identity` | `MCIdentity.cfg`: 2 users, 2 organisations, 3 member rows, 2 refresh tokens, 1 request | Somebody can administer; one valid token of a sign-in; only managers of an organisation change its members; a browser keeps a token that is good | 0.5 M states |
| `meta_access` | `MCMetaAccess.cfg`: 2 requests on 1 connection, 2 accounts, 1 audience, 2 credentials | Connected means usable, one account, flagged for cause, listed exists | 0.14 M states |
| `sync_catches_up` | `SyncCatchesUp.cfg`: 2 connections of a client, 1 request, 1 worker, fair | Snapshots catch up again and again | 0.35 M states |
| `secrets` | `MCSecrets.cfg`: 2 processes, 2 leads, 1 credential, 2 rotations, 2 deliveries | Nothing becomes unreadable, a receipt means erased, deliveries never reset a lead | 0.8 M states |
| `insights` | `MCInsights.cfg`: 1 campaign, 2 trees, 4 days, pages of 3 figures, 1 sync in progress | Counted once, the overview agrees with Meta on the days it shows, the audit is monotone, the winner is real | 0.6 M states |
| `content` | `MCContent.cfg`: 1 client, 1 campaign, 2 requests, 2 agent runs, 3 variants | Stored from recorded runs, forbidden is marked, success means complete, archived stays | 0.7 M states |
| `double_publish` | `DoublePublish.cfg` | Violated: `OnePublishPerApproval` | |

**Why two kinds of runs.** The code checks and then acts, without locks. Part of what it
promises survives any interleaving and is checked with two requests in progress (and
proved for any number). The rest holds only when requests are served one after the other:
it is checked with one slot and every fault. A failure of the second kind under racing
requests is not reported again and again; the race that contradicts the promise of the
approval gate itself has a run of its own (`double_publish`). For split tests, budgets and
identity the one passing run serves requests one at a time. Both kinds are proved as well
(section 4): the first for any number of requests, `LaunchedAsApproved`, `SentAsShown`,
`ConsumedWasSent` and `OnlyManagersOfTheOrganisation` among them; the second for any instance
in which requests do not overlap, which is a hypothesis each of these theorems names.

**Bounds.** Two slots are enough for the hazards listed: each is two handlers crossing. Two
approvals let one supersede the other; the serial run has three, because a granted, a newer
open and a next one interact. Two trees let one approval open two. `Size = 2` (a campaign
and one child) has a first and a last entity, a tree half built and half active; the proofs
do not depend on it. The roster has one approver or two; a single one approves what they
asked for themselves too. Two tests are needed for duplicates, two studies for a launch
repeated after a compensation, and `Versions = 2` lets the campaign be published again
between the request for a launch and its approval. For budgets, two recommendations let an
analysis supersede one, two approvals compete for one budget, two ids at Meta let the
campaign be published again, and the two amounts differ, so that a budget can drift (steps
repeated on them are rounded). In `identity` three member rows put one of two users in both
organisations, or a removed member back in one; two refresh tokens are one rotation. In
`meta_access` two credentials are a reconnect beside a disconnect; `OneAudienceHandler` lets
one request at a time work on audiences, beside everything else. In `secrets` three key
versions are two rotations, the second of which finds rows of both; a batch of two leads has
a rest that can get lost. In `insights` two trees are a campaign published twice, or one of
its own and one from Ads Manager. With `MaxVolume = 5` one tree has up to four figures, or
two have three between them; a page holds three, so syncs are complete or cut. A sync asks
for four days: on the fourth the overview lacks the first of them. The rules look back five,
so that all four days are seen, which the gates on days ask for. The budget tiers are a pure
function: `TiersChecked` in `MCInsights` evaluates them at the limits of their budgets and
around the gates of both audiences. In `content` the answers of the model are one of four
variants of two personas, more than asked for, with an ad that breaks two rules, and one
with a single forbidden ad; the constraint `OneGeneration` keeps the instance small by
letting agents that do not work for a campaign and uploads have their turn alone, while a
generation runs beside every change of the client. Ids run out, therefore `CHECK_DEADLOCK
FALSE`: with ids exhausted and nothing to do the model stops.

**Fairness.** `FairSpec` assumes weak fairness of `Serve(r)` for each request: an await
resolves, by an answer or by a failure. The connectors set no timeout of their own: the
code relies on those of the runtime's `fetch` and of the database client. Nothing is assumed
of users, who need not decide, publish or pause. For `ClientsCatchUp` the scheduler's timer
fires again and again, handlers run on, a worker takes the jobs that wait (weak fairness of
`Tick`, `Serve`, `TakeJob`), and a sync that gets to a step again and again passes it some time
(strong fairness of `FindConnection`, `Context`, `GetInsights`): Meta is not down for good. Its
premise is that every connected connection of the client has a selected account and a live
token, because `runSync` takes any of them. `PublishingSettles` is checked without the
faults `crash` and `no_credential`, because with either of them it does not hold: nothing
picks up a campaign whose process died, and `publish.service.ts:85` throws outside the try
block after the approval has been consumed.

**Mutants.** Each property of a passing run is paired in `PROJECT.json` with a mutation of
the model (operators marked `Mutant:` in the modules) that breaks it, such as comparing no
hash, taking Meta's cells by position, or returning a test to draft whose study still runs.

### Disagreements met while modelling

The first has a run; the others were found with runs of their own at the time, or while
translating the code, and are described here.

1. *Single use* (`double_publish`). `council-summary.md:26` says approvals are single-use.
   Two publishes in progress at once can both use one.
2. *Two trees of a published campaign.* An approval can be requested while
   another one is granted. Publishing under the first leaves the second open, and deciding
   it sets the campaign back from PUBLISHED to APPROVED (`approvals.service.ts:231`).
   Publishing then builds a second live tree, against the guard at `publish.service.ts:37`.
3. *Half-live after a failure.* `BUILD_CONTRACT.md:90` says entities are left
   PAUSED, never half-live. If the second activation fails, the first stays active
   (`publish.service.ts:151`).
4. *Cancelled and spending.* `ab-tests.service.ts:227` says a running test is
   stopped at Meta before it is called cancelled. A cancel that read PENDING_APPROVAL while
   the launch was being approved writes CANCELLED over RUNNING and stops nothing (line 254).
5. *The change that was approved.* `recommendations.service.ts:194` speaks
   of an approval of the exact budget change, and its preview names the campaign at Meta. The
   change is sent to whatever campaign the row names by then (`approvals.service.ts:453`):
   after a new publish, one that the approval did not show. No fault or race is needed.
6. *The last owner.* `BUILD_CONTRACT.md:52` keeps the last privileged member. Two owners who
   demote each other at the same time both count the other (`org.service.ts:111`).
7. *A client that is not synced.* `runSync` takes the first connected connection
   (`sync.service.ts:43`), the scheduler any with a selected account: with a second one that
   stays connected without a selection, the job may end each time without a word.
8. *Rotation without restarts.* A process that still has the old configuration writes under
   the old key after the script has passed; with the retired key dropped, the row is lost. The
   run `secrets` has the operator restart every process first, and TLC finds the loss at once
   with `RestartsFirst = FALSE`.
9. *Blocked ads are published.* `generation.service.ts:278`, `compliance.ts:2` and `DESIGN.md:198`
   say that a blocked ad is kept out of publishing. Neither `buildBundle` nor `publish` looks at
   the status of an ad. `DESIGN.md:157` speaks of up to two retries of a model call; it is one.
10. *Figures.* `getInsights` asks for 500 rows and never for the next page. The snapshot's unique
   key lacks the client. After publishing again or removing a campaign its days are there twice,
   once under each id. No AD or AD_SET snapshot is ever written, so `campaignAbTest` never has
   anything to compare. In `optimization-rules.ts` the comment on R1 says above 3, the code
   above 3.5, and K3 asks for a level that no snapshot has. The report template looks up severities in
   lower case, so every finding is labelled low. Pixels and open approvals are counted for the
   organisation, not for the client. The shares of the top budget tier leave a fifth of the
   budget to nobody when there is no warm audience (`budget-tiers.ts`; nothing calls it yet).
11. *Approving one's own request.* `BUILD_CONTRACT.md:89` and `DESIGN.md:217` allow it in an
   organisation with one member. The code, and the comment above it (`approvals.service.ts:192`),
   allow it to the only member with the role ADMIN or AGENCY_OWNER, whoever else is a member: an
   agency owner with three account managers approves what they asked for themselves.
   `MakerChecker`, `LaunchNeedsChecker` and `BudgetNeedsChecker` state what the comment promises;
   the documents' promise does not hold.
12. *The step of a budget.* Rule S2 advises 30% more (`optimization-rules.ts:128,138`,
   `DESIGN.md:187`), S1 20%. Applying either asks for 20%: `BUDGET_STEP` goes by the type of the
   recommendation, and the comment that it matches S1 and S2 (`recommendations.service.ts:18`)
   is right about S1 only. `SentAsShown` says that the amount shown is sent and is one step, not
   that it is the step that was advised.
13. *Days that are not shown.* A sync stores 30 days up to yesterday, each at its midnight
   (`sync.service.ts:64,78`). Overview, audit and recommendations read from 30 or 14 days ago at
   this time of day (`analytics.service.ts:46-50,129-138`, `recommendations.service.ts:44-47`): the
   "last 30 days" are 29 and lack the first one, unless it is midnight. `OverviewAgrees` is about
   the days shown.
14. *Left behind.* An agent run whose process dies stays RUNNING; a generation that fails half-way
   leaves its creatives and ads, and running it again adds to them; creatives outlive a deleted
   campaign. `attachToCreative` checks the organisation only, and uploading and listing assets
   does not apply the scope of a client viewer.
15. *Lines of business without a keyword.* The rule against before and after pictures applies to
   sensitive verticals, which are recognised by words in what the client wrote
   (`benchmarks.ts:46-61`). "Weight loss" has none of them: its ads escape the rule.

## 4. Proofs

TLAPS checks `CampaignProofs`, `SplitTestProofs`, `BudgetProofs`, `IdentityProofs`,
`MetaAccessProofs`, `SecretsProofs`, `InsightsProofs` and `ContentProofs` to the last leaf.
The theorems hold for every value of the constants: any number of concurrent requests,
workers, users, approvals, trees, studies and connections, any plan size, any subset of the
faults.

**Assumptions**, all on constants, all evaluated by TLC in the runs: a plan has at least one
entity (`SizeAssumption`); "no ads yet" is a content, the answers of a model are sequences
(`ContentAssumption`); each account has a connection (`ConnectionAssumption`); the faults
switched on are ones the model knows (`FaultAssumption`); `Versions` is a natural number
(`VersionAssumption`); the budgets users enter are positive integers (`BudgetAssumption`);
leads have owners, deliveries are sequences of leads (`SecretsAssumption`); a job is tried
at least once, requests and workers are different slots (`MetaAccessAssumption`); the roles
an owner hands out are roles (`IdentityAssumption`); campaigns and trees are finitely many,
the windows have at least one day (`InsightsAssumption`); every line of business has a
vertical (`VerticalAssumption`); and Meta reports counts and whole shekels, for two variants
of a test (`ResultsAssumption`, `FactsAssumption`); and the null value is none of the ids,
users, plans or cells (`NoneAssumption`, `NoPlanAssumption`).

**Hypotheses.** What races break cannot be proved of racing requests. These theorems say in
their statement that requests do not overlap: `OneRequest` (campaign, split tests, budgets)
and `OneCall` (sessions and members) say that there is one slot; the environment, crashes,
lost answers and failures still come between any two of its awaits. `ListedExists` needs less:
`[]OneAudienceHandler` keeps audience handlers apart, and lets everything else cross them.
`RotationLosesNothing` needs `RestartsFirst`.

| Theorem | Statement |
|---|---|
| `TypeCorrect` | `CampaignApproval` is type correct. |
| `ApprovedPlanOnlyAlways` | What exists at Meta was sent under a granted approval and is the plan it showed. |
| `ConsumedBeforeMetaAlways` | No entity exists at Meta whose approval still looks unused. |
| `BuiltBeforeActiveAlways` | Nothing is active before its whole tree has been created. |
| `MakerCheckerAlways` | A requester approves their own request only as the sole approver (not: the only member, section 3, 11). |
| `GateImplemented` | `CampaignApproval` implements `PublishGate` (without single use). |
| `AtMostOnePendingAlways` | One request at a time: at most one approval is open. |
| `StatusIsEarnedAlways` | One request at a time: a published campaign has its whole tree, active, and an approved one an approval to publish with. |
| `SingleUseGateImplemented` | One request at a time: `CampaignApproval` implements `PublishGate` with single use. |
| `OnePublishAlways` | One request at a time: an approval is published once, the promise that `double_publish` refutes for two. |
| `SplitTestTypes` | `SplitTest` is type correct. |
| `LaunchedAsApprovedAlways` | A study compares the ads its approval showed. |
| `LaunchNeedsCheckerAlways` | A requester launches their own test only as the sole approver. |
| `AttributableAlways` | A launched test remembers the ads of its own study. |
| `LiveStudyTrackedAlways` | One request at a time: a live study belongs to a running test or to the handler launching it, or a handler was cut short. |
| `CancelledIsStoppedAlways` | One request at a time: no study of a cancelled test goes on spending. |
| `WinnerLeadsAlways` | One request at a time: the stored winner is the ad that leads at Meta. |
| `TestsInOrderAlways` | One request at a time: two ads meet in one active test; a test waits as long as its request is open. |
| `BudgetTypes` | `BudgetChange` is type correct. |
| `SentAsShownAlways` | A budget sent to Meta is the one its approval showed, one step of 20% on the budget it showed (whatever step was advised, section 3, 12). |
| `BudgetNeedsCheckerAlways` | A requester changes a budget at their own request only as the sole approver. |
| `ConsumedWasSentAlways` | What is recorded as carried out has reached Meta. |
| `DriftHasEvidenceAlways` | One request at a time: a budget that differs from Meta's leaves an approval of Meta's amount that is not consumed. |
| `OneApprovalAlways` | One request at a time: a recommendation opens at most one approval. |
| `IdentityTypes` | `Identity` is type correct. |
| `OnlyManagersAlways` | Only a caller signed in to an organisation with `member.manage` changes its members. |
| `PrivilegedRemainsAlways` | One call at a time: an organisation keeps somebody who can administer it. |
| `OneLivePerLoginAlways` | One call at a time: a sign-in has at most one refresh token that works. |
| `KeptWhileUsableAlways` | One call at a time: a browser loses a usable token only at a logout or with a lost answer. |
| `MetaAccessTypes` | `MetaAccess` is type correct. |
| `ConnectionInvariantAlways` | A connection shown as connected has a stored credential; at most one of its accounts is selected. |
| `FlaggedForCauseAlways` | A connection asks for a new consent only after Meta refused a token of it. |
| `ListedExistsAlways` | With audiences handled one at a time, none is listed that does not exist. |
| `SecretsTypes` | `Secrets` is type correct. |
| `RotationLosesNothing` | If processes restart before the script runs, whatever is stored stays readable. |
| `ReceiptMeansErasedAlways` | A completed deletion request has left none of the leads it was about. |
| `StatusIsTheTeamsAlways` | Only the team changes the status of a stored lead. |
| `NeverKillAndScale` | No analysis proposes to switch an entity off and to raise its budget. |
| `ScoreIsPercentage` | The health score is between 0 and 100. |
| `FixesNeverLowerTheScore` | Adding a missing asset never lowers the score. |
| `WorseResultsNeverRaiseTheScore` | Fewer results at the same cost, of any number of entities, never raise the score; conversions falling to zero and leaving more leads are not fewer results. |
| `WinnerHasTheHigherRate` | A decided test is decided for the higher rate, whichever variant comes first. |
| `SharesOfATier` | The shares of a budget tier add up to the whole, except in one tier without a warm audience (section 3, 10). |
| `SyncTypes` | `Insights` is type correct. |
| `CountedOnceAlways` | The same figures are filed twice only for a tree its campaign gave up. |
| `OverviewAgreesAlways` | After a sync that fits on a page the overview is what Meta reports, of all the days asked for but the first. |
| `AuditIsMonotoneAlways` | In every reachable state the audit never pays for worse results (with the same exception) or a missing asset. |
| `WinnerIsRealAlways` | The decision of a split test on what Meta has reported is for the higher rate. |
| `ContentTypes` | `Content` is type correct. |
| `FromSuccessfulRunsAlways` | What is stored of a model is from a run of the right agent that succeeded. |
| `ForbiddenIsMarkedAlways` | No draft ad says what was forbidden when its generation began, or shows before and after in a vertical recognised as sensitive. |
| `CompleteWhenReportedAlways` | A generation that reports success has stored every variant under the ad set of its persona. |
| `ArchivedStaysAlways` | An archived client stays archived. |

**Types.** `TypeOK` is not inductive: handlers write what their slots hold, so a slot has
to hold the right kind of value whenever its program counter is at a write. `WellFormed`
says which fields are filled where, and `Typed` (`TypeOK` with well-formed slots) is what
the proofs carry along.

**The gate** (`GateInvariant`). The promises are about rows and trees, yet what keeps them
is knowledge in the slots, gained at one await and used at a later one:

1. `SlotMatches`: a publish past `find` holds an approval that was granted; past the hash
   check its local plan is that approval's; past the consuming update the row is consumed.
   A decider past the count of approvers is not the requester, or is alone (`SlotChecked`), and
   so is whoever is recorded as having decided (`RowChecked`).
2. Such knowledge survives the other requests because rows only change in ways that keep
   it (`RowUpdates`, `RowsStable`): a plan never changes after the row is inserted, a grant
   is never taken out of `granted`, `consumed` is never reset. It is here that two handlers
   that overwrite each other's status do no harm to these properties.
3. A row that is being inserted could invalidate all this if its id were in use. Ids come
   from the database: `IdsReserved` says no other slot has the id (`AbsentStays`,
   `SlotIds`), and `RunsReserved` says the same of the tree of a publish, whose ids Meta gives.
4. `TreeMatches` counts: at `call` with step `n` exactly `n - 1` entities exist. With
   `TreeSound` the properties of trees follow.

`GateNext` is one lemma per part of the invariant, each with one step per action.

**One request at a time** (the `SerialInvariant`s of campaign, split tests and budgets). A
handler reads, waits, and writes what follows from the reading. When requests do not overlap
the reading still holds at the write, and `SlotHolds` says which reading that is at each
program counter: the open requests are those the handler is going to supersede, the approval
a decision is about is still pending, the study that a cancel stops is the stored one. Not
everything a handler sees is its own, though: Meta, crashes and other services come between
its awaits, so each clause has to survive `Surroundings` too. Beside it stand facts on rows
that no property states and every proof needs: a consumed approval is never brought back
(`StaysConsumed`), a test gets its study once (`LaunchedOnce`), a recommendation with an
approval is not open any more (`Handled`). With `StaysConsumed`, no tree is under the approval
of a publish that has just consumed it, and that is single use: `SingleUseGateImplemented`
takes the steps of `GateImplemented` and adds it.

**The refinement.** `PublishGate` sees three things: granted plans, spent grants, trees.
Its initial states come from `GateInitStep`. For a step, `RowWriters` and `TreeWriters` name
the only actions that touch these, and each has its lemma: `DecideGrants`, `ConsumeSpends`,
`CallBuilds`, `PauseHalts`; `RequestCommit` inserts an ungranted row, which nothing sees
(`CommitStutters`). Everything else stutters. The steps are those of `PublishGate` only in
states that satisfy `GateInvariant`.

**Split tests** (`LaunchInvariant`). The same scheme. What has to be carried is that a
decision holds the cells its approval showed, that a handler between the call to Meta and
the last write (`Held`) holds a study that compares these cells, and that a stored test has
the cells of its stored study. `LaunchCommit` writes study and cells from one slot in one
update, so even two crossing launches leave a test with one of the studies and the cells of
that one.

**Budgets** (`BudgetInvariant`). What has to be carried is that a handler past the count of
approvers is not the requester or is alone, and that one at `commit` has its change in the
ledger. This survives the other requests because an approval row keeps what it shows once it
exists (`ApprovalStep`) and the ledger only grows. Whatever the status of a row has become
meanwhile, the amount is read from the row, and a row shows one step on the budget it shows
(`RowSound`): therefore retries and crossing approvals never compound the step. That an
approval is CONSUMED only after its change was sent needs the program counter of the one
handler that writes it, hence the clause on `commit`.

**Sessions and members** (`IdentityInvariant`). A call that hands out tokens holds a session
of its user in an organisation that exists, one that presents a token holds one issued to its
user, one that manages members was let in by a session with `member.manage`
(`SessionSound`, `TokenSound`, `ManagerSound`); what a browser keeps was issued to it
(`StorageSound`). This is inductive for any number of calls and gives `OnlyManagersAlways`.
With one call at a time `ReadsHold` carries what was counted or read to where it is acted on:
the other privileged member is still there, the browser's token is still the one that was
presented, and between revoking and issuing no token of the sign-in works.

**Connections** (`Sound`). A disconnect deletes the credential it read, whatever the
connection has by then. That this never takes the credential of a connection shown as
connected needs more than the two promises: a credential serves one connection, since a
reconnect stores a new one, and a handler at `drop` holds a credential of the very
connection it is about to clear. A handler at `mark` holds a token that Meta refused. The
other steps leave such knowledge alone (`NoDuty`, `QuietSound`).

**Audiences** (`CreatedFirst`). The row about to be written stands for an audience at Meta.
Only `DeleteCall` takes an audience away there; with `OneAudienceHandler` no deleting handler
can stand beside one that is about to write.

**Rotation** (`RotationInvariant`). That what is stored can be opened does not say why. What
has to be carried is where a row of another version can still be: once the script has passed,
every row has the current version or is still on its list, and no process writes any other,
because all of them have the installed configuration from the moment the script starts to the
next `InstallKey`. It is here that `RestartsFirst` is needed. Old rows open because a ring
only loses versions in `DropRetired`, which waits for the script to have finished.

**Erasure** (`ErasureInvariant`). A person's `owed` leads are stored leads of theirs, and a
handler about to mark a request finds nothing owed. `EraseLeads` makes this true; afterwards
leads only disappear (`DeleteErasure`) or come anew, and neither adds to `owed`
(`QuietErasure`). A new request for the same person cannot cross the old one, by the bound of
one in progress for a person.

**Content** (`ContentInvariant`). A generation is a long chain of queries whose variables
live in the request: its run, the run its copy is from, the variants still to store. `Typed`
says how many variants are left at each query, `RunKnown` that the run a request awaits is
running and of its type and that its copy is from a recorded one, `RunsApart` that no two
requests record the same run, `RowsKnown` and `Progress` that what has been taken off the list
is stored. When the list is empty everything is stored. The list is sorted by persona on the
way (`Grouped`): that every place is taken by one variant, so that their number stays and none
is invented, is proved with least elements and by counting (`PlacesTaken`, `GroupedArranges`).

**Figures and where they are filed** (`SyncInvariant`). A row says of which tree it is, and
the entity it is filed under is that tree, or the campaign that built it. A campaign points
at trees it built itself (`Owned`). Two entities with the same figures are therefore a
campaign and its tree, and the tree has been given up.

**The overview** (`OverviewInvariant`). `FreshIsAll` is about the answer on its way: as long
as nothing changed at Meta and it fits on a page, it is all there is to report; `FiledIsAll`
is about what was filed from it. Then rows and reported figures correspond one to one, on
the days that are shown as well (`SeenIsRest`), and the two totals are sums of the same
numbers over different sets. Sums over finite sets are folds, with no usable theorem in the
library: that a sum takes one more element (`SumTakes`), moves along a bijection
(`SumMoved`), splits by rows (`SumByRows`) is proved by looking at a smallest set that would
be a counterexample (`SubsetInduction`), which needs no induction theorem with an operator
as parameter.

**The rules and the audit.** Lemmas on operators, by cases on the rules. Only K1, K2 and K3
cost an entity hygiene (`CostlyFindings`); with fewer results an entity can move from dear to
hopeless, never back, so the deduction of 25 and 10 points grows with the two sets
(`WorseCostsMore`, `HygieneFalls`), and what is underfunded only grows as well
(`SufficiencyFalls`). The theorems of `MarketingRules` are about any figures; those of
`Insights` say the same of every figure that is reachable.

**Only model-checked.** Of the properties of passing runs, `PublishingSettles` and
`ClientsCatchUp`: liveness under fairness is out of the prover's reach, as is ENABLED. That
`OnePublishPerApproval` fails for two publishes at once is a counterexample TLC finds. What
the tiers recommend at their limits (`TiersChecked`) is evaluated; `SharesOfATier` is the part
that holds for every budget. No module with proofs uses a RECURSIVE operator.

## 5. Not modelled, and why

- *The rate limiter*: a counter per window and process; a property of it would say what its
  assignment says. (Its comment calls the window sliding; it is fixed.)
- *Offers and competitors*: rows inserted and deleted by one query each.
- *Pages, pixels and the mock mode of a connection; the name of an organisation*: columns
  that nothing modelled depends on.
- *Meta's request formats, the MCP transport, signature checks, password hashing, prompts and
  the filling of schemas*: I/O, cryptography and text.
- *The normal distribution, confidence intervals and projections behind a split test, and
  time series*: floating point and reads.
- *Most of the web application*: forms over the routes that are modelled.
- *Faults of the database*: a failed transaction changed nothing; a commit whose confirmation
  is lost is not modelled.

## 6. What could follow

1. Weaker hypotheses for the serial theorems: requests may overlap as long as no two of them
   work on the same row. `OneAudienceHandler` shows the form.
2. `Insights` with two clients of one organisation, where the unique key of the snapshots
   lacks the client.
3. The safety half of `PublishingSettles`: a publish has a bounded number of steps left at
   every program counter, whatever Meta answers.
