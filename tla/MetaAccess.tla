----------------------------- MODULE MetaAccess -----------------------------
(***************************************************************************)
(* The access of an organisation to Meta: connections and their stored     *)
(* credentials (MetaService), the call log that notices dead tokens        *)
(* (MetaCallLogger), the scheduler, the job queue and the insight sync     *)
(* (SchedulerService, QueueService, SyncService), and custom audiences     *)
(* (AudiencesService).                                                     *)
(*                                                                         *)
(* A slot is one handler in progress: a request, or a job a worker runs.   *)
(* pc names the await it is about to pass. The token a handler works with  *)
(* is named by the credential it was read from; once decrypted it no       *)
(* longer needs the row.                                                   *)
(***************************************************************************)
EXTENDS Integers, FiniteSets

CONSTANTS Clients, MetaUsers, Connections, Accounts, Audiences,
          Requests, Workers,   \* the slots
          None,
          MaxCredentials,      \* bound: credentials ever stored
          Attempts             \* how often a job is tried (BullMQ: 3, in process: 1)

ASSUME MetaAccessAssumption ==
    /\ MaxCredentials \in Nat /\ Attempts \in Nat \ {0}
    /\ None \notin Clients \cup MetaUsers \cup Connections \cup Accounts \cup Audiences
    /\ Requests \cap Workers = {}

\* The rows of the schema. A column that no property tells apart is left out.
CredentialRows == {"unused", "stored", "deleted"}
AdAccountRows == {"unknown", "listed", "selected"}
AudienceRows == Connections \X Audiences
ConnectionRows == [status : {"CONNECTED", "NEEDS_RECONNECT", "DISCONNECTED"}, client : Clients,
                   who : MetaUsers, credential : 0..MaxCredentials]

VARIABLES conn,       \* connection rows
          creds,      \* credential rows: unused, stored, deleted
          dead,       \* credentials whose token Meta no longer accepts
          account,    \* ad account rows, by connection: unknown, listed, selected
          states,     \* clients whose OAuth state is still accepted
          jobs,       \* sync jobs waiting
          synced,     \* clients whose snapshots hold the latest insights
          atMeta,     \* audiences that exist at Meta
          audience,   \* audience rows: <<connection, audience>>
          slot        \* the handlers in progress

vars == <<conn, creds, dead, account, states, jobs, synced, atMeta, audience, slot>>
access == <<conn, creds, dead, account, states>>
work == <<jobs, synced>>
audiences == <<atMeta, audience>>

Slots == Requests \cup Workers
CredentialIds == 1..MaxCredentials
NoConnection == [status |-> "NONE", client |-> None, who |-> None, credential |-> 0]
Idle == [pc |-> "idle", op |-> "none", client |-> None, who |-> None, conn |-> None,
         account |-> None, audience |-> None, token |-> 0, left |-> 0]

Init ==
    /\ conn = [c \in Connections |-> NoConnection]
    /\ creds = [t \in CredentialIds |-> "unused"]
    /\ dead = {}
    /\ account = [c \in Connections |-> [a \in Accounts |-> "unknown"]]
    /\ states = {}
    /\ jobs = {}
    /\ synced = {}
    /\ atMeta = {}
    /\ audience = {}
    /\ slot = [s \in Slots |-> Idle]

-----------------------------------------------------------------------------
(* Helpers *)

UnusedCredentials == {t \in CredentialIds : creds[t] = "unused"}
NextCredential == CHOOSE t \in UnusedCredentials : TRUE
Exists(c) == conn[c].status # "NONE"
Selected(c) == {a \in Accounts : account[c][a] = "selected"}
OfClient(k) == {c \in Connections : Exists(c) /\ conn[c].client = k}
Connected(k) == {c \in OfClient(k) : conn[c].status = "CONNECTED"}

Start(s, pc, op, base) == slot' = [slot EXCEPT ![s] = [base EXCEPT !.pc = pc, !.op = op]]
Goto(s, pc) == slot' = [slot EXCEPT ![s].pc = pc]
Return(s) == slot' = [slot EXCEPT ![s] = Idle]
\* Whether a token still works is Meta's to say.
Refused(s) == slot[s].token \in dead

\* A failed job waits for its next attempt, if it has one left.
Requeue(s) ==
    IF slot[s].op = "sync" /\ slot[s].left > 1
    THEN jobs \cup {[client |-> slot[s].client, left |-> slot[s].left - 1]}
    ELSE jobs
Fail(s) == Return(s) /\ jobs' = Requeue(s)

-----------------------------------------------------------------------------
(* Connecting *)

\* The signed state handed to Meta's consent page.
StartConnect(k) ==
    /\ k \notin states
    /\ states' = states \cup {k}
    /\ UNCHANGED <<conn, creds, dead, account, work, audiences, slot>>

\* Ten minutes later it is refused. Until then it may be presented again.
StateExpires(k) ==
    /\ k \in states
    /\ states' = states \ {k}
    /\ UNCHANGED <<conn, creds, dead, account, work, audiences, slot>>

\* The callback: the code is exchanged for a token, the token encrypted.
CompleteOAuth(s, k, m) ==
    /\ slot[s].pc = "idle"
    /\ k \in states
    /\ Start(s, "persist", "connect", [Idle EXCEPT !.client = k, !.who = m])
    /\ UNCHANGED <<access, work, audiences>>

\* One transaction: a new credential, and the connection of this client and Meta user
\* updated or created. The credential it had before stays in its table.
PersistConnection(s) ==
    LET t == NextCredential
        same == {c \in OfClient(slot[s].client) : conn[c].who = slot[s].who}
    IN
    /\ slot[s].pc = "persist"
    /\ UnusedCredentials # {}
    /\ creds' = [creds EXCEPT ![t] = "stored"]
    /\ \E c \in Connections :
          /\ IF same # {} THEN c \in same ELSE ~Exists(c)
          /\ conn' = [conn EXCEPT ![c] = [status |-> "CONNECTED", client |-> slot[s].client,
                                          who |-> slot[s].who, credential |-> t]]
          /\ slot' = [slot EXCEPT ![s].pc = "context", ![s].conn = c]
    /\ UNCHANGED <<dead, account, states, work, audiences>>

\* POST connections/:id/refresh
RefreshAssets(s, c) ==
    /\ slot[s].pc = "idle"
    /\ Exists(c)
    /\ Start(s, "context", "connect", [Idle EXCEPT !.conn = c])
    /\ UNCHANGED <<access, work, audiences>>

\* MetaService.context: the credential of the connection, decrypted.
Context(s) ==
    LET t == conn[slot[s].conn].credential IN
    /\ slot[s].pc = "context"
    /\ IF t # 0 /\ creds[t] = "stored"
       THEN slot' = [slot EXCEPT ![s].pc = slot[s].op, ![s].token = t] /\ UNCHANGED jobs
       ELSE Fail(s)
    /\ UNCHANGED <<access, synced, audiences>>

\* syncAssets: accounts are added or refreshed; a selection stays.
ListAdAccounts(s) ==
    /\ slot[s].pc = "connect"
    /\ ~Refused(s)
    /\ \E found \in SUBSET Accounts :
          account' = [account EXCEPT ![slot[s].conn] =
              [a \in Accounts |-> IF a \in found /\ @[a] = "unknown" THEN "listed" ELSE @[a]]]
    /\ Return(s)
    /\ UNCHANGED <<conn, creds, dead, states, work, audiences>>

OnlySelected(c, a) ==
    [b \in Accounts |-> IF b = a THEN "selected"
                        ELSE IF account[c][b] = "selected" THEN "listed" ELSE account[c][b]]

\* selectAdAccount: exclusive within the connection, which now serves the client.
SelectAdAccount(s, c, a, k) ==
    /\ slot[s].pc = "idle"
    /\ account[c][a] # "unknown"
    /\ account' = [account EXCEPT ![c] = OnlySelected(c, a)]
    /\ conn' = [conn EXCEPT ![c].client = k]
    /\ UNCHANGED <<creds, dead, states, work, audiences, slot>>

\* disconnect reads the connection first ...
Disconnect(s, c) ==
    /\ slot[s].pc = "idle"
    /\ Exists(c)
    /\ Start(s, "drop", "disconnect", [Idle EXCEPT !.conn = c, !.token = conn[c].credential])
    /\ UNCHANGED <<access, work, audiences>>

\* Mutant: the status is left alone.
DropsCredentialOnly(s) ==
    /\ slot[s].pc = "drop"
    /\ conn' = [conn EXCEPT ![slot[s].conn].credential = 0]
    /\ creds' = [t \in CredentialIds |-> IF t = slot[s].token THEN "deleted" ELSE creds[t]]
    /\ Return(s)
    /\ UNCHANGED <<dead, account, states, work, audiences>>
\* ... then deletes the credential it read, whatever the connection has by then.
DisconnectCommit(s) ==
    /\ slot[s].pc = "drop"
    /\ conn' = [conn EXCEPT ![slot[s].conn].status = "DISCONNECTED",
                            ![slot[s].conn].credential = 0]
    /\ creds' = [t \in CredentialIds |-> IF t = slot[s].token THEN "deleted" ELSE creds[t]]
    /\ Return(s)
    /\ UNCHANGED <<dead, account, states, work, audiences>>

-----------------------------------------------------------------------------
(* The call log *)

Calling == {"connect", "sync", "list_audiences", "create_audience", "delete_audience"}

\* Mutant: any failed call counts as a dead token.
AnyFailure(s) ==
    /\ slot[s].pc \in Calling
    /\ Goto(s, "mark")
    /\ UNCHANGED <<access, work, audiences>>
\* wrap: Meta refuses the token.
TokenRefused(s) ==
    /\ slot[s].pc \in Calling
    /\ Refused(s)
    /\ Goto(s, "mark")
    /\ UNCHANGED <<access, work, audiences>>

\* The call fails some other way, or its answer is lost, or its log row cannot be written.
CallFails(s) ==
    /\ slot[s].pc \in Calling \ {"create_audience", "delete_audience"}
    /\ Fail(s)
    /\ UNCHANGED <<access, synced, audiences>>

\* The connection is marked by its id, whatever credential it has by now. The
\* deletion of an audience goes on regardless.
MarkNeedsReconnect(s) ==
    /\ slot[s].pc = "mark"
    /\ conn' = [conn EXCEPT ![slot[s].conn].status = "NEEDS_RECONNECT"]
    /\ IF slot[s].op = "delete_audience" THEN Goto(s, "delete_row") /\ UNCHANGED jobs ELSE Fail(s)
    /\ UNCHANGED <<creds, dead, account, states, synced, audiences>>

-----------------------------------------------------------------------------
(* Scheduler, queue and insight sync *)

NewJob(k) == [client |-> k, left |-> Attempts]

\* POST meta/sync/:clientId
EnqueueSync(k) ==
    /\ NewJob(k) \notin jobs
    /\ jobs' = jobs \cup {NewJob(k)}
    /\ UNCHANGED <<access, synced, audiences, slot>>

\* Every client of a connected connection with a selected account.
DueClients ==
    {k \in Clients : \E c \in Connected(k) : Selected(c) # {}}

Tick ==
    /\ ~ {NewJob(k) : k \in DueClients} \subseteq jobs
    /\ jobs' = jobs \cup {NewJob(k) : k \in DueClients}
    /\ UNCHANGED <<access, synced, audiences, slot>>

\* A worker takes a job; the handler is runSync.
TakeJob(s, job) ==
    /\ slot[s].pc = "idle"
    /\ jobs' = jobs \ {job}
    /\ Start(s, "find", "sync", [Idle EXCEPT !.client = job.client, !.left = job.left])
    /\ UNCHANGED <<access, synced, audiences>>

\* Mutant: any connection of the client will do.
AnyConnection(k) == OfClient(k)
\* The first connected connection of the client: the query has no order.
SyncCandidates(k) == Connected(k)

\* No connection, or no selected account in the one found: the job is done, silently.
FindConnection(s) ==
    /\ slot[s].pc = "find"
    /\ \/ /\ SyncCandidates(slot[s].client) = {}
          /\ Return(s)
       \/ \E c \in SyncCandidates(slot[s].client) :
             IF Selected(c) = {} THEN Return(s)
             ELSE \E a \in Selected(c) :
                    slot' = [slot EXCEPT ![s].pc = "context", ![s].conn = c, ![s].account = a]
    /\ UNCHANGED <<access, work, audiences>>

\* The insights of the last 30 days, upserted day by day.
GetInsights(s) ==
    /\ slot[s].pc = "sync"
    /\ ~Refused(s)
    /\ synced' = synced \cup {slot[s].client}
    /\ Return(s)
    /\ UNCHANGED <<access, jobs, audiences>>

-----------------------------------------------------------------------------
(* Custom audiences *)

\* resolveAccount: the selected account of the client, whatever became of its connection.
ResolveAccount(s, k, op, x) ==
    \E c \in OfClient(k) :
        /\ Selected(c) # {}
        /\ Start(s, "context", op, [Idle EXCEPT !.client = k, !.conn = c, !.audience = x])

SyncAudiences(s, k) ==
    /\ slot[s].pc = "idle"
    /\ ResolveAccount(s, k, "list_audiences", None)
    /\ UNCHANGED <<access, work, audiences>>

\* Rows are added or refreshed, never removed.
ListAudiences(s) ==
    /\ slot[s].pc = "list_audiences"
    /\ ~Refused(s)
    /\ audience' = audience \cup {<<slot[s].conn, x>> : x \in atMeta}
    /\ Return(s)
    /\ UNCHANGED <<access, work, atMeta>>

\* The pixel, page or origin audience the subtype needs is there.
CreateAudience(s, k, x) ==
    /\ slot[s].pc = "idle"
    /\ x \notin atMeta
    /\ \A r \in audience : r[2] # x
    /\ ResolveAccount(s, k, "create_audience", x)
    /\ UNCHANGED <<access, work, audiences>>

\* Mutant: the row is written whatever Meta answered.
RowAnyway(s) ==
    /\ slot[s].pc = "create_audience"
    /\ ~Refused(s)
    /\ \/ atMeta' = atMeta \cup {slot[s].audience}
       \/ atMeta' = atMeta
    /\ Goto(s, "create_row")
    /\ UNCHANGED <<access, work, audience>>
\* The audience is created at Meta. If the answer is lost, or cannot be logged, the
\* handler ends here.
CreateCall(s) ==
    /\ slot[s].pc = "create_audience"
    /\ ~Refused(s)
    /\ \/ atMeta' = atMeta \cup {slot[s].audience} /\ Goto(s, "create_row")
       \/ atMeta' = atMeta \cup {slot[s].audience} /\ Return(s)
       \/ atMeta' = atMeta /\ Return(s)
    /\ UNCHANGED <<access, work, audience>>

CreateRow(s) ==
    /\ slot[s].pc = "create_row"
    /\ audience' = audience \cup {<<slot[s].conn, slot[s].audience>>}
    /\ Return(s)
    /\ UNCHANGED <<access, work, atMeta>>

RemoveAudience(s, row) ==
    /\ slot[s].pc = "idle"
    /\ row \in audience
    /\ Start(s, "context", "delete_audience", [Idle EXCEPT !.conn = row[1], !.audience = row[2]])
    /\ UNCHANGED <<access, work, audiences>>

\* Deleted at Meta or not: the answer is swallowed, and so is a refusal of the token that
\* could not be logged or marked.
DeleteCall(s) ==
    /\ slot[s].pc = "delete_audience"
    /\ \/ ~Refused(s) /\ atMeta' = atMeta \ {slot[s].audience}
       \/ atMeta' = atMeta
    /\ Goto(s, "delete_row")
    /\ UNCHANGED <<access, work, audience>>

DeleteRow(s) ==
    /\ slot[s].pc = "delete_row"
    /\ audience' = audience \ {<<slot[s].conn, slot[s].audience>>}
    /\ Return(s)
    /\ UNCHANGED <<access, work, atMeta>>

-----------------------------------------------------------------------------
(* What the console offers, what only the API offers, and the environment *)

\* The Meta tab of a client: connecting while it has no connection, selecting an account.
MetaTab(s, k) ==
    \/ OfClient(k) = {} /\ StartConnect(k)
    \/ \E c \in OfClient(k), a \in Accounts :
          account[c][a] = "listed" /\ SelectAdAccount(s, c, a, k)

AudiencesManager(s, k) ==
    \/ SyncAudiences(s, k)
    \/ \E x \in Audiences : CreateAudience(s, k, x)
    \/ \E row \in audience : conn[row[1]].client = k /\ RemoveAudience(s, row)

\* Routes no page calls, or not in this state.
ApiOnly(s, k) ==
    \/ StartConnect(k)
    \/ EnqueueSync(k)
    \/ \E c \in Connections : \/ RefreshAssets(s, c)
                              \/ Disconnect(s, c)
                              \/ \E a \in Accounts : SelectAdAccount(s, c, a, k)

\* The token of a stored credential expires or is revoked at Meta.
TokenDies(t) ==
    /\ creds[t] # "unused"
    /\ t \notin dead
    /\ dead' = dead \cup {t}
    /\ UNCHANGED <<conn, creds, account, states, work, audiences, slot>>

\* Meta has newer numbers for the client.
NewInsights(k) ==
    /\ k \in synced
    /\ synced' = synced \ {k}
    /\ UNCHANGED <<access, jobs, audiences, slot>>

\* The process dies or a query fails. A worker's job is tried again.
Crash(s) ==
    /\ slot[s].pc # "idle"
    /\ Fail(s)
    /\ UNCHANGED <<access, synced, audiences>>

Serve(s) ==
    \/ PersistConnection(s) \/ Context(s) \/ ListAdAccounts(s) \/ DisconnectCommit(s)
    \/ TokenRefused(s) \/ MarkNeedsReconnect(s)
    \/ FindConnection(s) \/ GetInsights(s)
    \/ ListAudiences(s) \/ CreateCall(s) \/ CreateRow(s) \/ DeleteCall(s) \/ DeleteRow(s)

Next ==
    \/ Tick
    \/ \E s \in Slots : Serve(s) \/ CallFails(s) \/ Crash(s)
    \/ \E s \in Workers, job \in jobs : TakeJob(s, job)
    \/ \E s \in Requests, k \in Clients :
        \/ MetaTab(s, k) \/ AudiencesManager(s, k) \/ ApiOnly(s, k)
        \/ \E m \in MetaUsers : CompleteOAuth(s, k, m)
    \/ \E k \in Clients : StateExpires(k) \/ NewInsights(k)
    \/ \E t \in CredentialIds : TokenDies(t)

Spec == Init /\ [][Next]_vars

\* The event loop runs handlers, the timer of the scheduler fires, workers take jobs, and a
\* step of a sync that is tried again and again succeeds some time.
Fairness ==
    /\ WF_vars(Tick)
    /\ \A s \in Slots : WF_vars(Serve(s))
    /\ \A s \in Workers :
          /\ WF_vars(\E job \in jobs : TakeJob(s, job))
          /\ SF_vars(FindConnection(s)) /\ SF_vars(Context(s)) /\ SF_vars(GetInsights(s))

FairSpec == Spec /\ Fairness

-----------------------------------------------------------------------------
(* Properties *)

Handlers ==
    [pc : {"idle", "persist", "context", "drop", "mark", "find", "create_row", "delete_row"}
              \cup Calling,
     op : {"none", "disconnect"} \cup Calling,
     client : Clients \cup {None}, who : MetaUsers \cup {None},
     conn : Connections \cup {None}, account : Accounts \cup {None},
     audience : Audiences \cup {None}, token : 0..MaxCredentials, left : 0..Attempts]

\* The rows, what is at Meta and the handlers in progress have their types.
TypeOK ==
    /\ conn \in [Connections -> ConnectionRows \cup {NoConnection}]
    /\ creds \in [CredentialIds -> CredentialRows]
    /\ dead \subseteq CredentialIds
    /\ account \in [Connections -> [Accounts -> AdAccountRows]]
    /\ states \subseteq Clients
    /\ jobs \subseteq [client : Clients, left : 1..Attempts]
    /\ synced \subseteq Clients
    /\ atMeta \subseteq Audiences
    /\ audience \subseteq AudienceRows
    /\ slot \in [Slots -> Handlers]

\* A connection shown as connected can be used: its credential is stored. No crossing of
\* a reconnect, a disconnect and a dead token leaves one that looks fine and has none.
ConnectedHasCredential ==
    \A c \in Connections : conn[c].status = "CONNECTED" =>
        conn[c].credential # 0 /\ creds[conn[c].credential] = "stored"

\* A connection asks to be connected again only after Meta refused a token of it: neither
\* outages nor failures to write the log send a client back to the consent page.
FlaggedForCause ==
    [][\A c \in Connections :
          conn[c].status = "CONNECTED" /\ conn'[c].status = "NEEDS_RECONNECT" =>
              \E s \in Slots : slot[s].conn = c /\ slot[s].token \in dead]_vars

\* Publishing, audiences and syncing of a connection all mean the same ad account.
OneSelectedAccount ==
    \A c \in Connections : Cardinality(Selected(c)) <= 1

\* What every request that reaches for a connection relies on.
ConnectionInvariant == TypeOK /\ ConnectedHasCredential /\ OneSelectedAccount

\* Audiences are handled one at a time, beside everything else.
AudienceHandler(s) == slot[s].audience # None \/ slot[s].op = "list_audiences"
OneAudienceHandler ==
    \A s, q \in Slots : AudienceHandler(s) /\ AudienceHandler(q) => s = q

\* As long as audiences are handled one at a time, an audience is listed here only when it
\* exists at Meta, whatever became of the calls that created or deleted it.
ListedExists ==
    [][\A row \in audience' \ audience : row[2] \in atMeta']_vars

\* Once every connected connection of a client has a selected account and a token that
\* works, and stays so, the client's snapshots catch up again and again.
Syncable(k) ==
    /\ Connected(k) # {}
    /\ \A c \in Connected(k) :
          Selected(c) # {} /\ conn[c].credential \notin dead
ClientsCatchUp == \A k \in Clients : <>[]Syncable(k) => []<>(k \in synced)

=============================================================================
