------------------------------ MODULE Secrets ------------------------------
(***************************************************************************)
(* What the database holds sealed: stored Meta credentials and the         *)
(* personal data of leads (CryptoService), while keys are rotated          *)
(* (KeyRotationService, scripts/rotate-keys.ts), leads come in by webhook, *)
(* are worked on and are erased on request (LeadsService,                  *)
(* WebhooksController).                                                    *)
(*                                                                         *)
(* A process keeps the configuration it was started with. It is modelled   *)
(* with one handler in progress; handlers of one process differ from       *)
(* those of two only in sharing a configuration.                           *)
(***************************************************************************)
EXTENDS Integers, Sequences

CONSTANTS Processes, Leads, Credentials, Persons, None,
          Owner,          \* the person a lead's form names, or None
          Batches,        \* the webhook deliveries: sequences of leads
          HasAppSecret,   \* META_APP_SECRET is configured
          RestartsFirst,  \* the operator restarts every process before rotating
          MaxVersion      \* bound: key versions ever installed

ASSUME SecretsAssumption ==
    /\ Owner \in [Leads -> Persons \cup {None}]
    /\ Batches \subseteq Seq(Leads)
    /\ HasAppSecret \in BOOLEAN /\ RestartsFirst \in BOOLEAN
    /\ MaxVersion \in Nat \ {0}
    /\ Leads \cap Credentials = {}
    /\ None \notin Persons

VARIABLES env,       \* the installed configuration: current key version, retired ones
          cfg,       \* the configuration each process was started with
          sealed,    \* the key version a row is sealed with, 0: there is no row
          status,    \* how far the team is with a lead
          request,   \* deletion requests, one for each person
          script,    \* the rotation script
          swept,     \* it has finished since the last key was installed
          handler    \* the handler in progress in each process

vars == <<env, cfg, sealed, status, request, script, swept, handler>>
keys == <<env, cfg, script, swept>>

Rows == Leads \cup Credentials
Versions == 1..MaxVersion
Configurations == [current : Versions, retired : SUBSET Versions]
Idle == [pc |-> "idle", batch |-> <<>>, lead |-> None, person |-> None]
NoRequest == [status |-> "none", owed |-> {}]
NotRunning == [pc |-> "idle", todo |-> {}, gone |-> {}]

Init ==
    /\ env = [current |-> 1, retired |-> {}]
    /\ cfg = [p \in Processes |-> env]
    /\ sealed = [r \in Rows |-> IF r \in Credentials THEN 1 ELSE 0]
    /\ status = [l \in Leads |-> "NEW"]
    /\ request = [u \in Persons |-> NoRequest]
    /\ script = NotRunning
    /\ swept = TRUE
    /\ handler = [p \in Processes |-> Idle]

-----------------------------------------------------------------------------
(* Helpers *)

Ring(c) == c.retired \cup {c.current}       \* keyForVersion
CanOpen(c, r) == sealed[r] \in Ring(c)      \* decrypt
Stored(r) == sealed[r] # 0
Begin(p, pc, h) == handler[p].pc = "idle" /\ handler' = [handler EXCEPT ![p] = [h EXCEPT !.pc = pc]]
Goto(p, pc) == handler' = [handler EXCEPT ![p].pc = pc]
Return(p) == handler' = [handler EXCEPT ![p] = Idle]

\* Rows are deleted; the script may have read them already.
Delete(rows) ==
    /\ sealed' = [r \in Rows |-> IF r \in rows THEN 0 ELSE sealed[r]]
    /\ script' = [script EXCEPT !.gone = @ \cup (script.todo \cap rows)]
    /\ request' = [u \in Persons |-> [request[u] EXCEPT !.owed = @ \ rows]]

-----------------------------------------------------------------------------
(* Keys *)

\* Step 1 and 2 of the procedure: a new key is current, the old one is kept in the ring.
InstallKey ==
    /\ script.pc = "idle"
    /\ env.current < MaxVersion
    /\ env' = [current |-> env.current + 1, retired |-> Ring(env)]
    /\ swept' = FALSE
    /\ UNCHANGED <<cfg, sealed, status, request, script, handler>>

\* A process restarts or dies: what it was doing is lost, loadConfig reads anew.
Restart(p) ==
    /\ cfg' = [cfg EXCEPT ![p] = env]
    /\ Return(p)
    /\ UNCHANGED <<env, sealed, status, request, script, swept>>

OnOtherVersions(rows) == {r \in rows : Stored(r) /\ sealed[r] # env.current}

\* Step 3: the script reads the credentials to seal again ...
RunScript ==
    /\ script.pc = "idle"
    /\ RestartsFirst => \A p \in Processes : cfg[p] = env
    /\ script' = [pc |-> "credentials", todo |-> OnOtherVersions(Credentials), gone |-> {}]
    /\ UNCHANGED <<env, cfg, sealed, status, request, swept, handler>>

\* ... seals them one after the other, failing on a row that is gone ...
ReEncrypt(r) ==
    /\ r \in script.todo
    /\ IF r \notin script.gone /\ CanOpen(env, r)
       THEN /\ sealed' = [sealed EXCEPT ![r] = env.current]
            /\ script' = [script EXCEPT !.todo = @ \ {r}]
       ELSE /\ script' = NotRunning
            /\ UNCHANGED sealed
    /\ UNCHANGED <<env, cfg, status, request, swept, handler>>

\* ... and then the leads.
ScanLeads ==
    /\ script.pc = "credentials"
    /\ script.todo = {}
    /\ script' = [pc |-> "leads", todo |-> OnOtherVersions(Leads), gone |-> {}]
    /\ UNCHANGED <<env, cfg, sealed, status, request, swept, handler>>

ScriptFinishes ==
    /\ script.pc = "leads"
    /\ script.todo = {}
    /\ script' = NotRunning
    /\ swept' = TRUE
    /\ UNCHANGED <<env, cfg, sealed, status, request, handler>>

ScriptDies ==
    /\ script.pc # "idle"
    /\ script' = NotRunning
    /\ UNCHANGED <<env, cfg, sealed, status, request, swept, handler>>

\* Mutant: the retired keys go as soon as the script has been started.
DropEarly ==
    /\ script.pc # "idle"
    /\ env' = [env EXCEPT !.retired = {}]
    /\ UNCHANGED <<cfg, sealed, status, request, script, swept, handler>>
\* Step 4: once the script is through, the retired keys are dropped.
DropRetired ==
    /\ script.pc = "idle"
    /\ swept
    /\ env.retired # {}
    /\ env' = [env EXCEPT !.retired = {}]
    /\ UNCHANGED <<cfg, sealed, status, request, script, swept, handler>>

-----------------------------------------------------------------------------
(* Credentials: stored by a connect, removed by a disconnect *)

StoreCredential(p, c) ==
    /\ handler[p].pc = "idle"
    /\ ~Stored(c)
    /\ sealed' = [sealed EXCEPT ![c] = cfg[p].current]
    /\ UNCHANGED <<keys, status, request, handler>>

DropCredential(c) ==
    /\ Stored(c)
    /\ Delete({c})
    /\ UNCHANGED <<env, cfg, status, swept, handler>>

-----------------------------------------------------------------------------
(* Leads *)

\* Without an app secret webhooks are taken unsigned, deletion requests never.
VerifiedWebhook(signed) == HasAppSecret => signed
VerifiedDeletion(signed) == HasAppSecret /\ signed

\* Answered 200 at once, then worked off one lead after the other.
Receive(p, batch, signed) ==
    /\ VerifiedWebhook(signed)
    /\ Begin(p, "next", [Idle EXCEPT !.batch = batch])
    /\ UNCHANGED <<keys, sealed, status, request>>

\* The page's connection serves a client, and the lead is not there yet. A lead that is
\* there, and a page nobody here connected, is passed over.
NextLead(p) ==
    LET b == handler[p].batch IN
    /\ handler[p].pc = "next"
    /\ \/ /\ b = <<>>
          /\ Return(p)
       \/ /\ b # <<>>
          /\ handler' = [handler EXCEPT ![p].batch = Tail(b)]
       \/ /\ b # <<>> /\ ~Stored(Head(b))
          /\ handler' = [handler EXCEPT ![p] =
                [@ EXCEPT !.pc = "fetch", !.batch = Tail(b), !.lead = Head(b)]]
    /\ UNCHANGED <<keys, sealed, status, request>>

\* POST clients/:id/leads/simulate: a made-up lead takes the same way.
Simulate(p, l) ==
    /\ ~Stored(l)
    /\ Begin(p, "fetch", [Idle EXCEPT !.lead = l])
    /\ UNCHANGED <<keys, sealed, status, request>>

\* The credential is opened and Meta asked for the lead. A failure ends the batch.
GetLead(p, c) ==
    /\ handler[p].pc = "fetch"
    /\ \/ Stored(c) /\ CanOpen(cfg[p], c) /\ Goto(p, "persist")
       \/ Return(p)
    /\ UNCHANGED <<keys, sealed, status, request>>

\* Mutant: the lead is written again as it came.
Overwrite(p) ==
    LET l == handler[p].lead IN
    /\ handler[p].pc = "persist"
    /\ sealed' = [sealed EXCEPT ![l] = cfg[p].current]
    /\ status' = [status EXCEPT ![l] = "NEW"]
    /\ handler' = [handler EXCEPT ![p] = [@ EXCEPT !.pc = "next", !.lead = None]]
    /\ UNCHANGED <<keys, request>>
\* Upsert: a lead that has come meanwhile stays as it is.
Persist(p) ==
    LET l == handler[p].lead IN
    /\ handler[p].pc = "persist"
    /\ IF Stored(l) THEN UNCHANGED <<sealed, status>>
       ELSE /\ sealed' = [sealed EXCEPT ![l] = cfg[p].current]
            /\ status' = [status EXCEPT ![l] = "NEW"]
    /\ handler' = [handler EXCEPT ![p] = [@ EXCEPT !.pc = "next", !.lead = None]]
    /\ UNCHANGED <<keys, request>>

\* PUT leads/:id/status: found first, then written.
FindLead(p, l) ==
    /\ Stored(l)
    /\ Begin(p, "status", [Idle EXCEPT !.lead = l])
    /\ UNCHANGED <<keys, sealed, status, request>>

\* Mutant: the status is written as it was sent, unchecked.
UncheckedStatus(p, st) ==
    LET l == handler[p].lead IN
    /\ handler[p].pc = "status"
    /\ \E any \in {st, "OTHER"} : status' = IF Stored(l) THEN [status EXCEPT ![l] = any] ELSE status
    /\ Return(p)
    /\ UNCHANGED <<keys, sealed, request>>
UpdateStatus(p, st) ==
    LET l == handler[p].lead IN
    /\ handler[p].pc = "status"
    /\ status' = IF Stored(l) THEN [status EXCEPT ![l] = st] ELSE status
    /\ Return(p)
    /\ UNCHANGED <<keys, sealed, request>>

-----------------------------------------------------------------------------
(* Erasure *)

LeadsOf(u) == {l \in Leads : Owner[l] = u /\ Stored(l)}

\* handleDataDeletion records the request, for a deletion or a deauthorisation ...
RequestDeletion(p, u, signed) ==
    /\ VerifiedDeletion(signed)
    /\ \A q \in Processes : handler[q].person # u   \* bound: one at a time for a person
    /\ Begin(p, "erase", [Idle EXCEPT !.person = u])
    /\ request' = [request EXCEPT ![u] = [status |-> "RECEIVED", owed |-> LeadsOf(u)]]
    /\ UNCHANGED <<keys, sealed, status>>

\* Mutant: only leads the team has not started on are erased.
EraseNew(p) ==
    /\ handler[p].pc = "erase"
    /\ Delete({l \in LeadsOf(handler[p].person) : status[l] = "NEW"})
    /\ Goto(p, "complete")
    /\ UNCHANGED <<env, cfg, status, swept>>
\* ... erases the leads of the person in one query ...
EraseLeads(p) ==
    /\ handler[p].pc = "erase"
    /\ Delete(LeadsOf(handler[p].person))
    /\ Goto(p, "complete")
    /\ UNCHANGED <<env, cfg, status, swept>>

\* ... and marks the request. The person can look its status up.
CompleteRequest(p) ==
    /\ handler[p].pc = "complete"
    /\ request' = [request EXCEPT ![handler[p].person].status = "COMPLETED"]
    /\ Return(p)
    /\ UNCHANGED <<keys, sealed, status>>

\* LeadsInbox: what the console does with leads.
LeadsInbox(p) ==
    \E l \in Leads : Simulate(p, l) \/ FindLead(p, l)

Handle(p) ==
    \/ NextLead(p) \/ Persist(p) \/ EraseLeads(p) \/ CompleteRequest(p)
    \/ \E c \in Credentials : GetLead(p, c)
    \/ \E st \in {"NEW", "HANDLED"} : UpdateStatus(p, st)

Next ==
    \/ InstallKey \/ RunScript \/ ScanLeads \/ ScriptFinishes \/ ScriptDies \/ DropRetired
    \/ \E r \in Rows : ReEncrypt(r)
    \/ \E c \in Credentials : DropCredential(c)
    \/ \E p \in Processes :
        \/ Restart(p) \/ Handle(p) \/ LeadsInbox(p)
        \/ \E c \in Credentials : StoreCredential(p, c)
        \/ \E signed \in BOOLEAN : \/ \E b \in Batches : Receive(p, b, signed)
                                   \/ \E u \in Persons : RequestDeletion(p, u, signed)

Spec == Init /\ [][Next]_vars

-----------------------------------------------------------------------------
(* Properties *)

Handlers == [pc : {"idle", "next", "fetch", "persist", "status", "erase", "complete"},
             batch : Seq(Leads), lead : Leads \cup {None}, person : Persons \cup {None}]

\* Configurations, rows, requests, the script and the handlers have their types.
TypeOK ==
    /\ env \in Configurations
    /\ cfg \in [Processes -> Configurations]
    /\ sealed \in [Rows -> 0..MaxVersion]
    /\ status \in [Leads -> {"NEW", "HANDLED"}]
    /\ request \in [Persons -> [status : {"none", "RECEIVED", "COMPLETED"}, owed : SUBSET Leads]]
    /\ script \in [pc : {"idle", "credentials", "leads"}, todo : SUBSET Rows, gone : SUBSET Rows]
    /\ swept \in BOOLEAN
    /\ handler \in [Processes -> Handlers]

\* Rotating keys loses nothing: whatever is stored can be opened with the keys that are
\* installed, however writes, deletions and deaths of the script cross the rotation.
Readable == \A r \in Rows : Stored(r) => CanOpen(env, r)

\* A deletion request reported as completed has left none of the person's leads that were
\* stored when it came in.
ReceiptMeansErased ==
    \A u \in Persons : request[u].status = "COMPLETED" => request[u].owed = {}

\* Webhooks delivered twice, at once or late never take a lead back to new: as long as a
\* lead is stored, only the team changes its status.
StatusIsTheTeams ==
    [][\A l \in Leads : sealed[l] # 0 /\ sealed'[l] # 0 /\ status[l] # status'[l] =>
           \E p \in Processes : handler[p].pc = "status" /\ handler[p].lead = l]_vars

=============================================================================
