--------------------------- MODULE MetaAccessProofs ---------------------------
(***************************************************************************)
(* Theorems about MetaAccess, for any number of connections, accounts,     *)
(* audiences, requests and workers: a connection shown as connected can be *)
(* used, means one ad account, and asks for a new consent for cause; and,  *)
(* handled one at a time, no audience is listed that does not exist.       *)
(***************************************************************************)
EXTENDS MetaAccess, FiniteSetTheorems, TLAPS

-----------------------------------------------------------------------------
(* What a handler knows at each of its awaits *)

Known == {c \in Connections : Exists(c)}

\* The fields that are filled, when the connections in known exist.
WellFormed(h, known) ==
    /\ h.pc = "persist" => h.op = "connect" /\ h.client \in Clients /\ h.who \in MetaUsers
    /\ h.pc \in {"context", "drop", "mark", "create_row", "delete_row"} \cup Calling
         => h.conn \in known
    /\ h.pc = "context" => h.op \in Calling
    /\ h.pc \in Calling => h.op = h.pc
    /\ h.pc = "find" => h.op = "sync"
    /\ h.op = "sync" => h.client \in Clients /\ h.left \in 1..Attempts
    /\ h.op \in {"create_audience", "delete_audience"} => h.audience \in Audiences
    /\ h.pc = "create_row" => h.op = "create_audience"

\* TypeOK with what makes it inductive: handlers write what they hold.
Typed ==
    /\ TypeOK
    /\ \A s \in Slots : WellFormed(slot[s], Known)
    /\ \A c \in Connections, a \in Accounts : account[c][a] # "unknown" => c \in Known
    /\ \A row \in audience : row[1] \in Known

LEMMA InitTyped == Init => Typed
<1> SUFFICES ASSUME Init PROVE Typed
  OBVIOUS
<1>1. Idle \in Handlers /\ WellFormed(Idle, Known)
  BY MetaAccessAssumption DEF Idle, Handlers, WellFormed, Calling
<1>2. TypeOK
  BY <1>1 DEF Init, TypeOK, CredentialRows, AdAccountRows
<1>3. \A s \in Slots : slot[s] = Idle
  BY DEF Init
<1> QED BY <1>1, <1>2, <1>3 DEF Init, Typed

\* A handler goes on to h; connections that exist stay.
LEMMA SlotMoves ==
    ASSUME Typed, NEW s \in Slots, NEW h \in Handlers, WellFormed(h, Known'),
           Known \subseteq Known', slot' = [slot EXCEPT ![s] = h]
    PROVE  slot' \in [Slots -> Handlers] /\ \A q \in Slots : WellFormed(slot'[q], Known')
<1>1. \A q \in Slots : slot'[q] = IF q = s THEN h ELSE slot[q]
  BY DEF Typed, TypeOK
<1>2. \A q \in Slots : WellFormed(slot[q], Known')
  BY DEF Typed, WellFormed
<1> QED BY <1>1, <1>2 DEF Typed, TypeOK

\* The two ways a handler ends, and the way it goes on.
LEMMA HandlerMoves ==
    ASSUME Typed, NEW s \in Slots, Known \subseteq Known'
    PROVE  /\ Return(s) => /\ slot' \in [Slots -> Handlers]
                           /\ \A q \in Slots : WellFormed(slot'[q], Known')
           /\ Fail(s) => /\ slot' \in [Slots -> Handlers]
                         /\ \A q \in Slots : WellFormed(slot'[q], Known')
                         /\ jobs' \subseteq [client : Clients, left : 1..Attempts]
           /\ \A pc \in {"mark", "create_row", "delete_row"} :
                Goto(s, pc) /\ slot[s].conn \in Known
                            /\ (pc = "create_row" => slot[s].op = "create_audience")
                => /\ slot' \in [Slots -> Handlers]
                   /\ \A q \in Slots : WellFormed(slot'[q], Known')
<1>1. Idle \in Handlers /\ WellFormed(Idle, Known')
  BY MetaAccessAssumption DEF Idle, Handlers, WellFormed, Calling
<1>2. ASSUME Return(s)
      PROVE  slot' \in [Slots -> Handlers] /\ \A q \in Slots : WellFormed(slot'[q], Known')
  BY <1>1, <1>2, SlotMoves DEF Return
<1>3. Fail(s) => jobs' \subseteq [client : Clients, left : 1..Attempts]
  <2>1. slot[s] \in Handlers /\ WellFormed(slot[s], Known)
    BY DEF Typed, TypeOK
  <2>2. slot[s].op = "sync" /\ slot[s].left > 1 =>
          [client |-> slot[s].client, left |-> slot[s].left - 1]
             \in [client : Clients, left : 1..Attempts]
    BY <2>1, MetaAccessAssumption DEF WellFormed
  <2> QED BY <2>2 DEF Fail, Requeue, Typed, TypeOK
<1>4. ASSUME NEW pc \in {"mark", "create_row", "delete_row"}, Goto(s, pc),
             slot[s].conn \in Known, pc = "create_row" => slot[s].op = "create_audience"
      PROVE  slot' \in [Slots -> Handlers] /\ \A q \in Slots : WellFormed(slot'[q], Known')
  <2> DEFINE h == [slot[s] EXCEPT !.pc = pc]
  <2>1. slot[s] \in Handlers /\ WellFormed(slot[s], Known)
    BY DEF Typed, TypeOK
  <2>2. h \in Handlers /\ WellFormed(h, Known')
    BY <1>4, <2>1 DEF Handlers, WellFormed, Calling
  <2>3. slot' = [slot EXCEPT ![s] = h]
    BY <1>4 DEF Goto
  <2> HIDE DEF h
  <2> QED BY <2>2, <2>3, SlotMoves
<1> QED BY <1>2, <1>3, <1>4 DEF Fail

\* The rows stay as they are: what remains is the handlers and the jobs.
LEMMA QuietTyped ==
    ASSUME Typed, UNCHANGED <<conn, creds, account, audience>>,
           dead' \subseteq CredentialIds, states' \subseteq Clients, synced' \subseteq Clients,
           atMeta' \subseteq Audiences, jobs' \subseteq [client : Clients, left : 1..Attempts],
           slot' \in [Slots -> Handlers] /\ \A q \in Slots : WellFormed(slot'[q], Known')
    PROVE  Typed'
<1>1. Known' = Known
  BY DEF Known, Exists
<1> QED BY <1>1 DEF Typed, TypeOK

LEMMA SameKnown == UNCHANGED conn => Known' = Known
BY DEF Known, Exists

\* A request or a job begins.
LEMMA BeginTyped ==
    ASSUME Typed, NEW s \in Slots, NEW op \in {"disconnect"} \cup Calling,
           NEW pc \in {"persist", "context", "drop", "find"},
           NEW base \in Handlers, Start(s, pc, op, base),
           UNCHANGED <<conn, creds, dead, account, states, synced, atMeta, audience>>,
           jobs' \subseteq [client : Clients, left : 1..Attempts],
           pc = "persist" => op = "connect" /\ base.client \in Clients /\ base.who \in MetaUsers,
           pc \in {"context", "drop"} => base.conn \in Known,
           pc = "context" => op \in Calling,
           pc = "find" <=> op = "sync",
           op = "sync" => base.client \in Clients /\ base.left \in 1..Attempts,
           op \in {"create_audience", "delete_audience"} => base.audience \in Audiences
    PROVE  Typed'
<1> DEFINE h == [base EXCEPT !.pc = pc, !.op = op]
<1>1. h \in Handlers
  BY DEF Handlers, Calling
<1>2. /\ h.pc = pc /\ h.op = op /\ h.client = base.client /\ h.who = base.who
      /\ h.conn = base.conn /\ h.audience = base.audience /\ h.left = base.left
  BY DEF Handlers
<1>3. slot' = [slot EXCEPT ![s] = h]
  BY DEF Start
<1> HIDE DEF h
<1>4. WellFormed(h, Known)
  BY <1>2 DEF WellFormed, Calling
<1>5. slot' \in [Slots -> Handlers] /\ \A q \in Slots : WellFormed(slot'[q], Known')
  BY <1>1, <1>3, <1>4, SameKnown, SlotMoves
<1> QED BY <1>5, QuietTyped DEF Typed, TypeOK

LEMMA IdleHandler == Idle \in Handlers
BY MetaAccessAssumption DEF Idle, Handlers, Calling

\* What a user can ask for.
Ask(s, k) ==
    \/ MetaTab(s, k) \/ AudiencesManager(s, k) \/ ApiOnly(s, k)
    \/ \E m \in MetaUsers : CompleteOAuth(s, k, m)

LEMMA SelectTyped ==
    ASSUME Typed, NEW s \in Slots, NEW k \in Clients, NEW c \in Connections, NEW a \in Accounts,
           SelectAdAccount(s, c, a, k)
    PROVE  Typed'
<1>1. conn[c].status # "NONE" /\ conn[c] \in ConnectionRows
  BY DEF SelectAdAccount, Typed, TypeOK, Known, Exists, NoConnection
<1>2. conn' = [conn EXCEPT ![c] = [conn[c] EXCEPT !.client = k]]
  BY DEF SelectAdAccount
<1>3. [conn[c] EXCEPT !.client = k] \in ConnectionRows
  BY <1>1 DEF ConnectionRows
<1>4. conn' \in [Connections -> ConnectionRows \cup {NoConnection}]
  BY <1>2, <1>3 DEF Typed, TypeOK
<1>5. Known' = Known
  BY <1>1, <1>2 DEF Typed, TypeOK, Known, Exists, ConnectionRows
<1>6. OnlySelected(c, a) \in [Accounts -> AdAccountRows]
  BY DEF OnlySelected, Typed, TypeOK, AdAccountRows
<1>7. account' \in [Connections -> [Accounts -> AdAccountRows]]
  BY <1>6 DEF SelectAdAccount, Typed, TypeOK
<1>8. \A d \in Connections, b \in Accounts : account'[d][b] # "unknown" => d \in Known
  BY DEF SelectAdAccount, OnlySelected, Typed, TypeOK
<1> QED BY <1>4, <1>5, <1>7, <1>8 DEF SelectAdAccount, work, audiences, Typed, TypeOK

LEMMA AskTyped ==
    ASSUME Typed, NEW s \in Slots, NEW k \in Clients, Ask(s, k)
    PROVE  Typed'
<1> USE DEF access, work, audiences
<1>0. /\ TypeOK /\ Known \subseteq Connections
      /\ jobs \subseteq [client : Clients, left : 1..Attempts]
  BY DEF Typed, TypeOK, Known
<1>1. CASE StartConnect(k) \/ EnqueueSync(k)
  <2>1. jobs' \subseteq [client : Clients, left : 1..Attempts]
    BY <1>0, <1>1, MetaAccessAssumption DEF StartConnect, EnqueueSync, NewJob
  <2>2. UNCHANGED slot /\ Known' = Known
    BY <1>1, SameKnown DEF StartConnect, EnqueueSync
  <2> QED BY <1>1, <2>1, <2>2, QuietTyped DEF StartConnect, EnqueueSync, Typed, TypeOK
<1>2. ASSUME NEW m \in MetaUsers, CompleteOAuth(s, k, m) PROVE Typed'
  <2> DEFINE base == [Idle EXCEPT !.client = k, !.who = m]
  <2>1. base \in Handlers /\ base.client = k /\ base.who = m
    BY IdleHandler DEF Handlers
  <2>2. Start(s, "persist", "connect", base)
    BY <1>2 DEF CompleteOAuth
  <2> HIDE DEF base
  <2> QED BY <1>0, <1>2, <2>1, <2>2, BeginTyped DEF CompleteOAuth, Calling
<1>3. ASSUME NEW c \in Connections, RefreshAssets(s, c) PROVE Typed'
  <2> DEFINE base == [Idle EXCEPT !.conn = c]
  <2>1. base \in Handlers /\ base.conn = c
    BY IdleHandler DEF Handlers
  <2>2. Start(s, "context", "connect", base) /\ c \in Known
    BY <1>3 DEF RefreshAssets, Known
  <2> HIDE DEF base
  <2> QED BY <1>0, <1>3, <2>1, <2>2, BeginTyped DEF RefreshAssets, Calling
<1>4. ASSUME NEW c \in Connections, Disconnect(s, c) PROVE Typed'
  <2> DEFINE base == [Idle EXCEPT !.conn = c, !.token = conn[c].credential]
  <2>1. conn[c].credential \in 0..MaxCredentials
    BY <1>0, MetaAccessAssumption DEF TypeOK, ConnectionRows, NoConnection
  <2>2. base \in Handlers /\ base.conn = c
    BY <2>1, IdleHandler DEF Handlers
  <2>3. Start(s, "drop", "disconnect", base) /\ c \in Known
    BY <1>4 DEF Disconnect, Known
  <2> HIDE DEF base
  <2> QED BY <1>0, <1>4, <2>2, <2>3, BeginTyped DEF Disconnect, Calling
<1>5. ASSUME NEW op \in {"list_audiences", "create_audience"}, NEW x \in Audiences \cup {None},
             ResolveAccount(s, k, op, x), op = "create_audience" => x \in Audiences,
             UNCHANGED <<access, work, audiences>>
      PROVE  Typed'
  <2>1. PICK c \in Known :
          Start(s, "context", op, [Idle EXCEPT !.client = k, !.conn = c, !.audience = x])
    BY <1>5 DEF ResolveAccount, OfClient, Known
  <2> DEFINE base == [Idle EXCEPT !.client = k, !.conn = c, !.audience = x]
  <2>2. base \in Handlers /\ base.conn = c /\ base.audience = x
    BY <1>0, IdleHandler DEF Handlers
  <2>3. Start(s, "context", op, base)
    BY <2>1
  <2> HIDE DEF base
  <2> QED BY <1>0, <1>5, <2>2, <2>3, BeginTyped DEF Calling
<1>6. CASE SyncAudiences(s, k) \/ \E x \in Audiences : CreateAudience(s, k, x)
  BY <1>5, <1>6 DEF SyncAudiences, CreateAudience
<1>7. ASSUME NEW row \in audience, RemoveAudience(s, row) PROVE Typed'
  <2> DEFINE base == [Idle EXCEPT !.conn = row[1], !.audience = row[2]]
  <2>1. row[1] \in Known /\ row[2] \in Audiences
    BY DEF Typed, TypeOK, AudienceRows
  <2>2. base \in Handlers /\ base.conn = row[1] /\ base.audience = row[2]
    BY <1>0, <2>1, IdleHandler DEF Handlers
  <2>3. Start(s, "context", "delete_audience", base)
    BY <1>7 DEF RemoveAudience
  <2> HIDE DEF base
  <2> QED BY <1>0, <1>7, <2>1, <2>2, <2>3, BeginTyped DEF RemoveAudience, Calling
<1> QED BY <1>1, <1>2, <1>3, <1>4, <1>6, <1>7, SelectTyped
    DEF Ask, MetaTab, AudiencesManager, ApiOnly, OfClient

\* What a handler may rely on, and what it may write.
LEMMA Holds ==
    ASSUME Typed, NEW s \in Slots
    PROVE  /\ slot[s] \in Handlers /\ WellFormed(slot[s], Known)
           /\ slot[s].pc \in {"context", "drop", "mark", "create_row", "delete_row"} \cup Calling
                => slot[s].conn \in Known
           /\ Known \subseteq Connections
           /\ \A c \in Known : conn[c] \in ConnectionRows
<1>1. slot[s] \in Handlers /\ WellFormed(slot[s], Known) /\ Known \subseteq Connections
  BY DEF Typed, TypeOK, Known
<1>2. \A c \in Known : conn[c] \in ConnectionRows
  BY DEF Typed, TypeOK, Known, Exists, NoConnection
<1> QED BY <1>1, <1>2 DEF WellFormed

\* A connection is written: those that exist stay.
LEMMA ConnectionWrite ==
    ASSUME Typed, NEW c \in Connections, NEW row \in ConnectionRows,
           conn' = [conn EXCEPT ![c] = row]
    PROVE  /\ conn' \in [Connections -> ConnectionRows \cup {NoConnection}]
           /\ Known' = Known \cup {c}
           /\ conn'[c] = row /\ \A d \in Connections \ {c} : conn'[d] = conn[d]
<1>1. \A d \in Connections : conn'[d] = IF d = c THEN row ELSE conn[d]
  BY DEF Typed, TypeOK
<1>2. row.status # "NONE"
  BY DEF ConnectionRows
<1> QED BY <1>1, <1>2 DEF Typed, TypeOK, Known, Exists

LEMMA PersistTyped ==
    ASSUME Typed, NEW s \in Slots, PersistConnection(s)
    PROVE  Typed'
<1>1. slot[s] \in Handlers /\ slot[s].op = "connect"
      /\ slot[s].client \in Clients /\ slot[s].who \in MetaUsers
  BY Holds DEF PersistConnection, WellFormed
<1>2. NextCredential \in UnusedCredentials /\ NextCredential \in 0..MaxCredentials
  BY MetaAccessAssumption
  DEF PersistConnection, NextCredential, UnusedCredentials, CredentialIds
<1> DEFINE row == [status |-> "CONNECTED", client |-> slot[s].client,
                   who |-> slot[s].who, credential |-> NextCredential]
<1>3. PICK c \in Connections : /\ conn' = [conn EXCEPT ![c] = row]
                               /\ slot' = [slot EXCEPT ![s].pc = "context", ![s].conn = c]
  BY DEF PersistConnection
<1>4. row \in ConnectionRows
  BY <1>1, <1>2 DEF ConnectionRows
<1> HIDE DEF row
<1>5. /\ conn' \in [Connections -> ConnectionRows \cup {NoConnection}]
      /\ Known' = Known \cup {c}
  BY <1>3, <1>4, ConnectionWrite
<1> DEFINE h == [slot[s] EXCEPT !.pc = "context", !.conn = c]
<1>6. h \in Handlers
  BY <1>1 DEF Handlers
<1>7. WellFormed(h, Known')
  <2>1. h.pc = "context" /\ h.op = "connect" /\ h.conn = c
    BY <1>1 DEF Handlers
  <2> HIDE DEF h
  <2> QED BY <1>5, <2>1 DEF WellFormed, Calling
<1>8. slot' = [slot EXCEPT ![s] = h]
  BY <1>3 DEF Typed, TypeOK
<1> HIDE DEF h
<1>9. slot' \in [Slots -> Handlers] /\ \A q \in Slots : WellFormed(slot'[q], Known')
  BY <1>5, <1>6, <1>7, <1>8, SlotMoves
<1>10. creds' \in [CredentialIds -> CredentialRows]
  BY DEF PersistConnection, Typed, TypeOK, CredentialRows
<1> QED BY <1>5, <1>9, <1>10 DEF PersistConnection, work, audiences, Typed, TypeOK

LEMMA ListAccountsTyped ==
    ASSUME Typed, NEW s \in Slots, ListAdAccounts(s)
    PROVE  Typed'
<1> DEFINE c == slot[s].conn
<1>1. c \in Known /\ c \in Connections
  BY Holds DEF ListAdAccounts, Calling
<1>2. PICK found \in SUBSET Accounts :
        account' = [account EXCEPT ![c] =
              [a \in Accounts |-> IF a \in found /\ account[c][a] = "unknown"
                                  THEN "listed" ELSE account[c][a]]]
  BY DEF ListAdAccounts
<1> HIDE DEF c
<1>3. account' \in [Connections -> [Accounts -> AdAccountRows]]
  BY <1>1, <1>2 DEF Typed, TypeOK, AdAccountRows
<1>4. \A d \in Connections, a \in Accounts : account'[d][a] # "unknown" => d \in Known
  BY <1>1, <1>2 DEF Typed, TypeOK
<1>5. Known' = Known
  BY SameKnown DEF ListAdAccounts
<1>6. slot' \in [Slots -> Handlers] /\ \A q \in Slots : WellFormed(slot'[q], Known')
  BY <1>5, HandlerMoves DEF ListAdAccounts
<1> QED BY <1>3, <1>4, <1>5, <1>6 DEF ListAdAccounts, work, audiences, Typed, TypeOK

LEMMA DisconnectTyped ==
    ASSUME Typed, NEW s \in Slots, DisconnectCommit(s)
    PROVE  Typed'
<1> DEFINE c == slot[s].conn
           row == [conn[c] EXCEPT !.status = "DISCONNECTED", !.credential = 0]
<1>1. c \in Known /\ c \in Connections /\ conn[c] \in ConnectionRows
  BY Holds DEF DisconnectCommit
<1>2. row \in ConnectionRows
  <2>1. 0 \in 0..MaxCredentials
    BY MetaAccessAssumption
  <2> HIDE DEF c
  <2> QED BY <1>1, <2>1 DEF ConnectionRows
<1>3. conn' = [conn EXCEPT ![c] = row]
  BY <1>1 DEF DisconnectCommit, Typed, TypeOK
<1> HIDE DEF row, c
<1>4. conn' \in [Connections -> ConnectionRows \cup {NoConnection}] /\ Known' = Known
  <2>1. /\ conn' \in [Connections -> ConnectionRows \cup {NoConnection}]
        /\ Known' = Known \cup {c}
    BY <1>1, <1>2, <1>3, ConnectionWrite
  <2> QED BY <1>1, <2>1
<1>5. slot' \in [Slots -> Handlers] /\ \A q \in Slots : WellFormed(slot'[q], Known')
  BY <1>4, HandlerMoves DEF DisconnectCommit
<1>6. creds' \in [CredentialIds -> CredentialRows]
  BY DEF DisconnectCommit, Typed, TypeOK, CredentialRows
<1> QED BY <1>4, <1>5, <1>6 DEF DisconnectCommit, work, audiences, Typed, TypeOK

LEMMA MarkTyped ==
    ASSUME Typed, NEW s \in Slots, MarkNeedsReconnect(s)
    PROVE  Typed'
<1> DEFINE c == slot[s].conn
           row == [conn[c] EXCEPT !.status = "NEEDS_RECONNECT"]
<1>1. c \in Known /\ c \in Connections /\ conn[c] \in ConnectionRows
  BY Holds DEF MarkNeedsReconnect
<1>2. row \in ConnectionRows
  BY <1>1 DEF ConnectionRows
<1>3. conn' = [conn EXCEPT ![c] = row]
  BY <1>1 DEF MarkNeedsReconnect, Typed, TypeOK
<1> HIDE DEF row
<1>4. conn' \in [Connections -> ConnectionRows \cup {NoConnection}] /\ Known' = Known
  <2> HIDE DEF c
  <2>1. /\ conn' \in [Connections -> ConnectionRows \cup {NoConnection}]
        /\ Known' = Known \cup {c}
    BY <1>1, <1>2, <1>3, ConnectionWrite
  <2> QED BY <1>1, <2>1
<1>5. /\ slot' \in [Slots -> Handlers] /\ \A q \in Slots : WellFormed(slot'[q], Known')
      /\ jobs' \subseteq [client : Clients, left : 1..Attempts]
  BY <1>1, <1>4, HandlerMoves DEF MarkNeedsReconnect, Typed, TypeOK
<1> QED BY <1>4, <1>5 DEF MarkNeedsReconnect, audiences, Typed, TypeOK

\* A handler whose connection, accounts and audience rows stay.
LEMMA ServeTyped ==
    ASSUME Typed, NEW s \in Slots,
           \/ Context(s) \/ TokenRefused(s) \/ CallFails(s) \/ Crash(s) \/ FindConnection(s)
           \/ GetInsights(s) \/ CreateCall(s) \/ DeleteCall(s)
    PROVE  Typed'
<1> USE DEF access, work, audiences
<1>1. UNCHANGED <<conn, creds, dead, account, states, audience>> /\ Known' = Known
  BY SameKnown DEF Context, TokenRefused, CallFails, Crash, FindConnection, GetInsights,
     CreateCall, DeleteCall
<1>2. synced' \subseteq Clients /\ atMeta' \subseteq Audiences
  BY Holds DEF Typed, TypeOK, Context, TokenRefused, CallFails, Crash, FindConnection,
     GetInsights, CreateCall, DeleteCall, WellFormed, Calling
<1>3. CASE TokenRefused(s) \/ CallFails(s) \/ Crash(s) \/ GetInsights(s) \/ CreateCall(s)
           \/ DeleteCall(s)
  <2>1. /\ slot' \in [Slots -> Handlers] /\ \A q \in Slots : WellFormed(slot'[q], Known')
        /\ jobs' \subseteq [client : Clients, left : 1..Attempts]
    <3>1. slot[s].pc \in Calling => slot[s].conn \in Known
      BY Holds
    <3>2. slot[s].pc = "create_audience" => slot[s].op = "create_audience"
      BY Holds DEF WellFormed, Calling
    <3>3. CASE TokenRefused(s)
      BY <1>1, <3>1, <3>3, HandlerMoves DEF TokenRefused, Typed, TypeOK
    <3>4. CASE CallFails(s) \/ Crash(s) \/ GetInsights(s)
      BY <1>1, <3>4, HandlerMoves DEF CallFails, Crash, GetInsights, Typed, TypeOK
    <3>5. CASE CreateCall(s)
      BY <1>1, <3>1, <3>2, <3>5, HandlerMoves DEF CreateCall, Typed, TypeOK, Calling
    <3>6. CASE DeleteCall(s)
      BY <1>1, <3>1, <3>6, HandlerMoves DEF DeleteCall, Typed, TypeOK, Calling
    <3> QED BY <1>3, <3>3, <3>4, <3>5, <3>6
  <2> QED BY <1>1, <1>2, <2>1, QuietTyped DEF Typed, TypeOK
<1>4. CASE Context(s)
  <2>1. CASE Fail(s)
    BY <1>1, <1>2, <2>1, HandlerMoves, QuietTyped DEF Typed, TypeOK
  <2> DEFINE t == conn[slot[s].conn].credential
             h == [slot[s] EXCEPT !.pc = slot[s].op, !.token = t]
  <2>2. CASE slot' = [slot EXCEPT ![s].pc = slot[s].op, ![s].token = t] /\ UNCHANGED jobs
    <3>1. slot[s] \in Handlers /\ slot[s].pc = "context" /\ slot[s].op \in Calling
          /\ WellFormed(slot[s], Known) /\ t \in 0..MaxCredentials
      BY <1>4, Holds DEF Context, WellFormed, ConnectionRows
    <3>2. h \in Handlers
      BY <3>1 DEF Handlers
    <3>3. /\ h.pc = slot[s].op /\ h.op = slot[s].op /\ h.client = slot[s].client
          /\ h.conn = slot[s].conn /\ h.audience = slot[s].audience /\ h.left = slot[s].left
      BY <3>1 DEF Handlers
    <3>4. slot' = [slot EXCEPT ![s] = h]
      BY <2>2 DEF Typed, TypeOK
    <3> HIDE DEF h
    <3>5. WellFormed(h, Known')
      BY <1>1, <3>1, <3>3 DEF WellFormed, Calling
    <3>6. slot' \in [Slots -> Handlers] /\ \A q \in Slots : WellFormed(slot'[q], Known')
      BY <1>1, <3>2, <3>4, <3>5, SlotMoves
    <3> QED BY <1>1, <1>2, <2>2, <3>6, QuietTyped DEF Typed, TypeOK
  <2> QED BY <1>4, <2>1, <2>2 DEF Context
<1>5. CASE FindConnection(s)
  <2>1. CASE Return(s)
    BY <1>1, <1>2, <1>5, <2>1, HandlerMoves, QuietTyped DEF FindConnection, Typed, TypeOK
  <2>2. ASSUME NEW c \in Known, NEW a \in Accounts,
               slot' = [slot EXCEPT ![s].pc = "context", ![s].conn = c, ![s].account = a]
        PROVE  Typed'
    <3> DEFINE h == [slot[s] EXCEPT !.pc = "context", !.conn = c, !.account = a]
    <3>1. slot[s] \in Handlers /\ slot[s].op = "sync" /\ WellFormed(slot[s], Known)
          /\ c \in Connections
      BY <1>5, Holds DEF FindConnection, WellFormed
    <3>2. h \in Handlers
      BY <3>1 DEF Handlers
    <3>3. /\ h.pc = "context" /\ h.op = "sync" /\ h.client = slot[s].client
          /\ h.conn = c /\ h.left = slot[s].left
      BY <3>1 DEF Handlers
    <3>4. slot' = [slot EXCEPT ![s] = h]
      BY <2>2 DEF Typed, TypeOK
    <3> HIDE DEF h
    <3>5. WellFormed(h, Known')
      BY <1>1, <3>1, <3>3 DEF WellFormed, Calling
    <3>6. slot' \in [Slots -> Handlers] /\ \A q \in Slots : WellFormed(slot'[q], Known')
      BY <1>1, <3>2, <3>4, <3>5, SlotMoves
    <3> QED BY <1>1, <1>2, <1>5, <3>6, QuietTyped DEF FindConnection, Typed, TypeOK
  <2>3. SyncCandidates(slot[s].client) \subseteq Known
    BY DEF SyncCandidates, Connected, OfClient, Known
  <2>4. \A c : Selected(c) \subseteq Accounts
    BY DEF Selected
  <2>5. \/ Return(s)
        \/ \E c \in Known, a \in Accounts :
              slot' = [slot EXCEPT ![s].pc = "context", ![s].conn = c, ![s].account = a]
    BY <1>5, <2>3, <2>4 DEF FindConnection
  <2> QED BY <2>1, <2>2, <2>5
<1> QED BY <1>3, <1>4, <1>5

LEMMA AudienceRowsTyped ==
    ASSUME Typed, NEW s \in Slots, ListAudiences(s) \/ CreateRow(s) \/ DeleteRow(s)
    PROVE  Typed'
<1>1. Known' = Known /\ Return(s)
  BY SameKnown DEF ListAudiences, CreateRow, DeleteRow, access
<1>2. slot[s].conn \in Known /\ slot[s].conn \in Connections
  BY Holds DEF ListAudiences, CreateRow, DeleteRow, Calling
<1>3. CreateRow(s) => slot[s].audience \in Audiences
  BY Holds DEF CreateRow, WellFormed
<1>4. audience' \subseteq AudienceRows /\ \A row \in audience' : row[1] \in Known
  BY <1>2, <1>3 DEF ListAudiences, CreateRow, DeleteRow, Typed, TypeOK, AudienceRows
<1>5. slot' \in [Slots -> Handlers] /\ \A q \in Slots : WellFormed(slot'[q], Known')
  BY <1>1, HandlerMoves
<1> QED BY <1>1, <1>4, <1>5
    DEF ListAudiences, CreateRow, DeleteRow, access, work, Typed, TypeOK

LEMMA ServesTyped ==
    ASSUME Typed, NEW s \in Slots, Serve(s) \/ CallFails(s) \/ Crash(s)
    PROVE  Typed'
BY PersistTyped, ListAccountsTyped, DisconnectTyped, MarkTyped, ServeTyped, AudienceRowsTyped
DEF Serve

LEMMA StepTyped == Typed /\ [Next]_vars => Typed'
<1> SUFFICES ASSUME Typed, [Next]_vars PROVE Typed'
  OBVIOUS
<1> USE DEF access, work, audiences
<1>0. Requests \subseteq Slots /\ Workers \subseteq Slots
  BY DEF Slots
<1>1. ASSUME UNCHANGED <<conn, creds, account, audience, slot>>,
             dead' \subseteq CredentialIds, states' \subseteq Clients, synced' \subseteq Clients,
             atMeta' \subseteq Audiences,
             jobs' \subseteq [client : Clients, left : 1..Attempts]
      PROVE  Typed'
  BY <1>1, SameKnown, QuietTyped DEF Typed, TypeOK
<1>2. CASE Tick
  <2>1. jobs' \subseteq [client : Clients, left : 1..Attempts]
    BY <1>2, MetaAccessAssumption DEF Tick, DueClients, NewJob, Typed, TypeOK
  <2> QED BY <1>1, <1>2, <2>1 DEF Tick, Typed, TypeOK
<1>3. ASSUME NEW s \in Workers, NEW job \in jobs, TakeJob(s, job) PROVE Typed'
  <2> DEFINE base == [Idle EXCEPT !.client = job.client, !.left = job.left]
  <2>1. job.client \in Clients /\ job.left \in 1..Attempts /\ job.left \in 0..Attempts
    BY DEF Typed, TypeOK
  <2>2. base \in Handlers /\ base.client = job.client /\ base.left = job.left
    BY <2>1, IdleHandler DEF Handlers
  <2>3. Start(s, "find", "sync", base)
    BY <1>3 DEF TakeJob
  <2>4. jobs' \subseteq [client : Clients, left : 1..Attempts]
    BY <1>3 DEF TakeJob, Typed, TypeOK
  <2> HIDE DEF base
  <2> QED BY <1>0, <1>3, <2>1, <2>2, <2>3, <2>4, BeginTyped DEF TakeJob, Calling
<1>4. ASSUME NEW k \in Clients, StateExpires(k) \/ NewInsights(k) PROVE Typed'
  BY <1>1, <1>4 DEF StateExpires, NewInsights, Typed, TypeOK
<1>5. ASSUME NEW t \in CredentialIds, TokenDies(t) PROVE Typed'
  BY <1>1, <1>5 DEF TokenDies, Typed, TypeOK
<1>6. CASE UNCHANGED vars
  BY <1>1, <1>6 DEF vars, Typed, TypeOK
<1>7. ASSUME NEW s \in Requests, NEW k \in Clients, Ask(s, k) PROVE Typed'
  BY <1>0, <1>7, AskTyped
<1> QED BY <1>2, <1>3, <1>4, <1>5, <1>6, <1>7, ServesTyped DEF Next, Ask

\* The rows and the handlers have their types.
THEOREM MetaAccessTypes == Spec => []TypeOK
<1>1. Typed => TypeOK
  BY DEF Typed
<1> QED BY <1>1, InitTyped, StepTyped, PTL DEF Spec

-----------------------------------------------------------------------------
(* What connections and handlers hold of each other *)

\* A credential serves one connection, and is stored as long as it does. Who is about to
\* delete one read it from the connection it is about to clear; who is about to flag a
\* connection saw Meta refuse a token.
Sound ==
    /\ \A c \in Connections :
          /\ conn[c].credential # 0 => creds[conn[c].credential] = "stored"
          /\ conn[c].status = "CONNECTED" => conn[c].credential # 0
    /\ \A c, d \in Connections :
          conn[c].credential = conn[d].credential /\ conn[c].credential # 0 => c = d
    /\ \A s \in Slots : slot[s].pc = "drop" /\ slot[s].token # 0 =>
          /\ creds[slot[s].token] # "unused"
          /\ \A c \in Connections : conn[c].credential = slot[s].token => c = slot[s].conn
    /\ \A s \in Slots : slot[s].pc = "mark" => slot[s].token \in dead
    /\ \A c \in Connections : \A a, b \in Selected(c) : a = b

LEMMA InitSound == Init => Sound
BY DEF Init, Sound, NoConnection, Idle, Selected

\* Handlers that hold nothing new, connections that change in their client only.
NoDuty(q) == slot'[q].pc \in {"drop", "mark"} => slot'[q] = slot[q]

LEMMA QuietSound ==
    ASSUME Typed, Sound, UNCHANGED creds, dead \subseteq dead',
           \A c \in Connections : /\ conn'[c].credential = conn[c].credential
                                  /\ conn'[c].status = "CONNECTED" => conn[c].status = "CONNECTED",
           \A q \in Slots : NoDuty(q),
           \A c \in Connections : \A a, b \in Selected(c)' : a = b
    PROVE  Sound'
BY DEF Sound, NoDuty

\* A handler ends, begins, or goes on to an await with no duty.
LEMMA MovesNoDuty ==
    ASSUME Typed, NEW s \in Slots,
           \/ Return(s)
           \/ \E pc \in {"create_row", "delete_row"} : Goto(s, pc)
           \/ \E h \in Handlers : h.pc \notin {"drop", "mark"} /\ slot' = [slot EXCEPT ![s] = h]
    PROVE  \A q \in Slots : NoDuty(q)
<1>1. CASE Return(s)
  BY <1>1 DEF Return, Idle, NoDuty, Typed, TypeOK
<1>2. CASE \E pc \in {"create_row", "delete_row"} : Goto(s, pc)
  BY <1>2 DEF Goto, NoDuty, Typed, TypeOK, Handlers
<1>3. CASE \E h \in Handlers : h.pc \notin {"drop", "mark"} /\ slot' = [slot EXCEPT ![s] = h]
  BY <1>3 DEF NoDuty, Typed, TypeOK
<1> QED BY <1>1, <1>2, <1>3

LEMMA BeginNoDuty ==
    ASSUME Typed, NEW s \in Slots, NEW pc \in {"persist", "context", "find"}, NEW op,
           NEW base \in Handlers, Start(s, pc, op, base)
    PROVE  \A q \in Slots : NoDuty(q)
<1>1. slot'[s].pc = pc /\ \A q \in Slots \ {s} : slot'[q] = slot[q]
  BY DEF Start, Typed, TypeOK, Handlers
<1> QED BY <1>1 DEF NoDuty

\* Accounts that stay as they are, or are at most added to the list.
LEMMA SameSelected ==
    ASSUME Sound, \A c \in Connections : Selected(c)' \subseteq Selected(c)
    PROVE  \A c \in Connections : \A a, b \in Selected(c)' : a = b
BY DEF Sound

LEMMA SelectSound ==
    ASSUME Typed, Sound, NEW s \in Slots, NEW k \in Clients, NEW c \in Connections,
           NEW a \in Accounts, SelectAdAccount(s, c, a, k)
    PROVE  Sound'
<1>1. \A d \in Connections : /\ conn'[d].credential = conn[d].credential
                             /\ conn'[d].status = conn[d].status
  <2>1. conn[c] \in ConnectionRows
    BY DEF SelectAdAccount, Typed, TypeOK, Known, Exists, NoConnection
  <2> QED BY <2>1 DEF SelectAdAccount, Typed, TypeOK, ConnectionRows
<1>2. \A q \in Slots : NoDuty(q)
  BY DEF SelectAdAccount, NoDuty
<1>3. account'[c] = OnlySelected(c, a) /\ \A d \in Connections \ {c} : account'[d] = account[d]
  BY DEF SelectAdAccount, Typed, TypeOK
<1>4. \A b \in Accounts : OnlySelected(c, a)[b] = "selected" => b = a
  BY DEF OnlySelected
<1>5. \A d \in Connections : \A b, e \in Selected(d)' : b = e
  BY <1>3, <1>4 DEF Selected, Sound
<1> QED BY <1>1, <1>2, <1>5, QuietSound DEF SelectAdAccount

LEMMA AskSound ==
    ASSUME Typed, Sound, NEW s \in Slots, NEW k \in Clients, Ask(s, k)
    PROVE  Sound'
<1> USE DEF access, work, audiences
<1>0. TypeOK /\ Known \subseteq Connections
  BY DEF Typed, Known
<1>1. ASSUME UNCHANGED <<conn, creds, dead, account>>, \A q \in Slots : NoDuty(q)
      PROVE  Sound'
  <2>1. \A c \in Connections : \A a, b \in Selected(c)' : a = b
    BY <1>1, SameSelected DEF Selected
  <2> QED BY <1>1, <2>1, QuietSound
<1>2. CASE StartConnect(k) \/ EnqueueSync(k)
  BY <1>1, <1>2 DEF StartConnect, EnqueueSync, NoDuty
<1>3. ASSUME NEW m \in MetaUsers, CompleteOAuth(s, k, m) PROVE Sound'
  <2>1. [Idle EXCEPT !.client = k, !.who = m] \in Handlers
    BY IdleHandler DEF Handlers
  <2> QED BY <1>1, <1>3, <2>1, BeginNoDuty DEF CompleteOAuth
<1>4. ASSUME NEW c \in Connections, RefreshAssets(s, c) PROVE Sound'
  <2>1. [Idle EXCEPT !.conn = c] \in Handlers
    BY IdleHandler DEF Handlers
  <2> QED BY <1>1, <1>4, <2>1, BeginNoDuty DEF RefreshAssets
<1>5. ASSUME NEW op, NEW x \in Audiences \cup {None}, ResolveAccount(s, k, op, x),
             UNCHANGED <<access, work, audiences>>
      PROVE  Sound'
  <2>1. PICK c \in Connections :
          Start(s, "context", op, [Idle EXCEPT !.client = k, !.conn = c, !.audience = x])
    BY <1>5 DEF ResolveAccount, OfClient
  <2>2. [Idle EXCEPT !.client = k, !.conn = c, !.audience = x] \in Handlers
    BY IdleHandler DEF Handlers
  <2> QED BY <1>1, <1>5, <2>1, <2>2, BeginNoDuty
<1>6. CASE SyncAudiences(s, k) \/ \E x \in Audiences : CreateAudience(s, k, x)
  BY <1>5, <1>6 DEF SyncAudiences, CreateAudience
<1>7. ASSUME NEW row \in audience, RemoveAudience(s, row) PROVE Sound'
  <2>1. row[1] \in Connections /\ row[2] \in Audiences
    BY <1>0 DEF TypeOK, AudienceRows
  <2>2. [Idle EXCEPT !.conn = row[1], !.audience = row[2]] \in Handlers
    BY <2>1, IdleHandler DEF Handlers
  <2> QED BY <1>1, <1>7, <2>2, BeginNoDuty DEF RemoveAudience
<1>8. ASSUME NEW c \in Connections, Disconnect(s, c) PROVE Sound'
  <2> DEFINE t == conn[c].credential
             h == [[Idle EXCEPT !.conn = c, !.token = t] EXCEPT !.pc = "drop", !.op = "disconnect"]
  <2>1. h.pc = "drop" /\ h.conn = c /\ h.token = t
    BY DEF Idle
  <2>2. \A q \in Slots : slot'[q] = IF q = s THEN h ELSE slot[q]
    BY <1>0, <1>8 DEF Disconnect, Start, TypeOK
  <2> HIDE DEF h
  <2>3. UNCHANGED <<conn, creds, dead, account>>
    BY <1>8 DEF Disconnect
  <2>4. t # 0 => creds[t] = "stored" /\ \A d \in Connections : conn[d].credential = t => d = c
    BY DEF Sound
  <2>5. \A d \in Connections : Selected(d)' = Selected(d)
    BY <2>3 DEF Selected
  <2> HIDE DEF t
  <2>6. \A q \in Slots : slot'[q].pc = "drop" /\ slot'[q].token # 0 =>
          /\ creds[slot'[q].token] # "unused"
          /\ \A d \in Connections : conn[d].credential = slot'[q].token => d = slot'[q].conn
    BY <2>1, <2>2, <2>4 DEF Sound
  <2>7. \A q \in Slots : slot'[q].pc = "mark" => slot'[q].token \in dead
    BY <2>1, <2>2 DEF Sound
  <2> QED BY <2>3, <2>5, <2>6, <2>7 DEF Sound
<1> QED BY <1>2, <1>3, <1>4, <1>6, <1>7, <1>8, SelectSound
    DEF Ask, MetaTab, AudiencesManager, ApiOnly, OfClient

LEMMA PersistSound ==
    ASSUME Typed, Sound, NEW s \in Slots, PersistConnection(s)
    PROVE  Sound'
<1> DEFINE t == NextCredential
<1>1. t \in CredentialIds /\ creds[t] = "unused" /\ t # 0
  BY MetaAccessAssumption
  DEF PersistConnection, NextCredential, UnusedCredentials, CredentialIds
<1>2. PICK c \in Connections :
        /\ conn' = [conn EXCEPT ![c] = [status |-> "CONNECTED", client |-> slot[s].client,
                                        who |-> slot[s].who, credential |-> t]]
        /\ slot' = [slot EXCEPT ![s].pc = "context", ![s].conn = c]
  BY DEF PersistConnection
<1>3. UNCHANGED <<dead, account>> /\ creds' = [creds EXCEPT ![t] = "stored"]
  BY DEF PersistConnection
<1> HIDE DEF t
<1>4. /\ conn'[c].credential = t /\ conn'[c].status = "CONNECTED"
      /\ \A d \in Connections \ {c} : conn'[d] = conn[d]
  BY <1>2 DEF Typed, TypeOK
<1>5. slot'[s].pc = "context" /\ \A q \in Slots \ {s} : slot'[q] = slot[q]
  BY <1>2 DEF Typed, TypeOK, Handlers
<1>6. creds'[t] = "stored" /\ \A u : u # t /\ creds[u] = "stored" => creds'[u] = "stored"
  <2>1. \A u \in CredentialIds \ {t} : creds'[u] = creds[u]
    BY <1>3 DEF Typed, TypeOK
  <2>2. creds'[t] = "stored"
    BY <1>1, <1>3 DEF Typed, TypeOK
  <2>3. \A d \in Connections : conn[d].credential \in 0..MaxCredentials
    BY MetaAccessAssumption DEF Typed, TypeOK, ConnectionRows, NoConnection
  <2> QED BY <1>3, <2>1, <2>2 DEF Typed, TypeOK
<1>7. \A d \in Connections : conn[d].credential # t
  BY <1>1 DEF Sound
<1>8. \A q \in Slots \ {s} : slot[q].pc = "drop" /\ slot[q].token # 0 =>
        slot[q].token # t /\ slot[q].token \in CredentialIds
  BY <1>1, MetaAccessAssumption DEF Sound, Typed, TypeOK, Handlers, CredentialIds
<1>9. \A q \in Slots : slot'[q].pc = "drop" /\ slot'[q].token # 0 =>
        /\ creds'[slot'[q].token] # "unused"
        /\ \A d \in Connections : conn'[d].credential = slot'[q].token => d = slot'[q].conn
  BY <1>3, <1>4, <1>5, <1>8 DEF Sound, Typed, TypeOK
<1>10. \A d \in Connections :
         /\ conn'[d].credential # 0 => creds'[conn'[d].credential] = "stored"
         /\ conn'[d].status = "CONNECTED" => conn'[d].credential # 0
  BY <1>1, <1>4, <1>6, <1>7 DEF Sound
<1>11. \A d, e \in Connections :
         conn'[d].credential = conn'[e].credential /\ conn'[d].credential # 0 => d = e
  BY <1>4, <1>7 DEF Sound
<1>12. \A d \in Connections : \A a, b \in Selected(d)' : a = b
  BY <1>3, SameSelected DEF Selected
<1>13. \A q \in Slots : slot'[q].pc = "mark" => slot'[q].token \in dead
  BY <1>5 DEF Sound
<1> QED BY <1>3, <1>9, <1>10, <1>11, <1>12, <1>13 DEF Sound

LEMMA DisconnectSound ==
    ASSUME Typed, Sound, NEW s \in Slots, DisconnectCommit(s)
    PROVE  Sound'
<1> DEFINE c == slot[s].conn
           t == slot[s].token
<1>1. c \in Connections /\ conn[c] \in ConnectionRows
  BY Holds DEF DisconnectCommit
<1>2. /\ conn'[c].credential = 0 /\ conn'[c].status = "DISCONNECTED"
      /\ \A d \in Connections \ {c} : conn'[d] = conn[d]
  BY <1>1 DEF DisconnectCommit, Typed, TypeOK, ConnectionRows
<1>3. \A u \in CredentialIds : creds'[u] = IF u = t THEN "deleted" ELSE creds[u]
  BY DEF DisconnectCommit
<1>4. UNCHANGED <<dead, account>> /\ Return(s)
  BY DEF DisconnectCommit
<1>5. \A q \in Slots : NoDuty(q)
  BY <1>4, MovesNoDuty
<1>6. \A d \in Connections \ {c} : conn[d].credential # 0 =>
        conn[d].credential # t /\ conn[d].credential \in CredentialIds
  <2>1. \A d \in Connections : conn[d].credential \in 0..MaxCredentials
    BY MetaAccessAssumption DEF Typed, TypeOK, ConnectionRows, NoConnection
  <2>2. slot[s].pc = "drop"
    BY DEF DisconnectCommit
  <2>3. \A d \in Connections \ {c} : conn[d].credential # 0 => conn[d].credential # t
    BY <2>2 DEF Sound
  <2> HIDE DEF c, t
  <2> QED BY <2>1, <2>3, MetaAccessAssumption DEF CredentialIds
<1>7. \A q \in Slots : slot[q].token # 0 => slot[q].token \in CredentialIds
  BY MetaAccessAssumption DEF Typed, TypeOK, Handlers, CredentialIds
<1> HIDE DEF c, t
<1>8. \A d \in Connections :
        /\ conn'[d].credential # 0 => creds'[conn'[d].credential] = "stored"
        /\ conn'[d].status = "CONNECTED" => conn'[d].credential # 0
  BY <1>2, <1>3, <1>6 DEF Sound
<1>9. \A d, e \in Connections :
        conn'[d].credential = conn'[e].credential /\ conn'[d].credential # 0 => d = e
  BY <1>2 DEF Sound
<1>10. \A q \in Slots : slot'[q].pc = "drop" /\ slot'[q].token # 0 =>
         /\ creds'[slot'[q].token] # "unused"
         /\ \A d \in Connections : conn'[d].credential = slot'[q].token => d = slot'[q].conn
  BY <1>2, <1>3, <1>5, <1>7 DEF Sound, NoDuty
<1>11. \A q \in Slots : slot'[q].pc = "mark" => slot'[q].token \in dead
  BY <1>5 DEF Sound, NoDuty
<1>12. \A d \in Connections : \A a, b \in Selected(d)' : a = b
  BY <1>4, SameSelected DEF Selected
<1> QED BY <1>4, <1>8, <1>9, <1>10, <1>11, <1>12 DEF Sound

\* The other steps of a handler: no credential is stored or deleted.
LEMMA ServeSound ==
    ASSUME Typed, Sound, NEW s \in Slots, Serve(s) \/ CallFails(s) \/ Crash(s)
    PROVE  Sound'
<1> USE DEF access, work, audiences
<1>1. ASSUME UNCHANGED <<conn, creds, dead, account>>, \A q \in Slots : NoDuty(q)
      PROVE  Sound'
  <2>1. \A c \in Connections : \A a, b \in Selected(c)' : a = b
    BY <1>1, SameSelected DEF Selected
  <2> QED BY <1>1, <2>1, QuietSound
<1>2. CASE CallFails(s) \/ Crash(s) \/ GetInsights(s) \/ ListAudiences(s) \/ CreateRow(s)
           \/ DeleteRow(s)
  BY <1>1, <1>2, MovesNoDuty
  DEF CallFails, Crash, GetInsights, ListAudiences, CreateRow, DeleteRow, Fail
<1>3. CASE CreateCall(s) \/ DeleteCall(s)
  <2>1. Return(s) \/ Goto(s, "create_row") \/ Goto(s, "delete_row")
    BY <1>3 DEF CreateCall, DeleteCall
  <2>2. UNCHANGED <<conn, creds, dead, account>>
    BY <1>3 DEF CreateCall, DeleteCall
  <2> QED BY <1>1, <2>1, <2>2, MovesNoDuty
<1>4. CASE ListAdAccounts(s)
  <2>1. \A q \in Slots : NoDuty(q)
    BY <1>4, MovesNoDuty DEF ListAdAccounts
  <2>2. \A c \in Connections : Selected(c)' \subseteq Selected(c)
    BY <1>4 DEF ListAdAccounts, Selected, Typed, TypeOK
  <2> QED BY <1>4, <2>1, <2>2, SameSelected, QuietSound DEF ListAdAccounts
<1>5. CASE Context(s)
  <2>1. slot[s] \in Handlers /\ slot[s].op \in Calling
    BY <1>5, Holds DEF Context, WellFormed
  <2>2. ASSUME NEW t,
               slot' = [slot EXCEPT ![s].pc = slot[s].op, ![s].token = t]
        PROVE  \A q \in Slots : NoDuty(q)
    <3>1. slot'[s].pc = slot[s].op /\ \A q \in Slots \ {s} : slot'[q] = slot[q]
      BY <2>1, <2>2 DEF Typed, TypeOK, Handlers
    <3> QED BY <2>1, <3>1 DEF NoDuty, Calling
  <2>3. \A q \in Slots : NoDuty(q)
    BY <1>5, <2>2, MovesNoDuty DEF Context, Fail
  <2> QED BY <1>1, <1>5, <2>3 DEF Context
<1>6. CASE FindConnection(s)
  <2>1. ASSUME NEW c, NEW a,
               slot' = [slot EXCEPT ![s].pc = "context", ![s].conn = c, ![s].account = a]
        PROVE  \A q \in Slots : NoDuty(q)
    <3>1. slot'[s].pc = "context" /\ \A q \in Slots \ {s} : slot'[q] = slot[q]
      BY <2>1 DEF Typed, TypeOK, Handlers
    <3> QED BY <3>1 DEF NoDuty
  <2>2. \A q \in Slots : NoDuty(q)
    BY <1>6, <2>1, MovesNoDuty DEF FindConnection
  <2> QED BY <1>1, <1>6, <2>2 DEF FindConnection
<1>7. CASE TokenRefused(s)
  <2>1. /\ slot'[s].pc = "mark" /\ slot'[s].token \in dead
        /\ \A q \in Slots \ {s} : slot'[q] = slot[q]
    BY <1>7 DEF TokenRefused, Refused, Goto, Typed, TypeOK, Handlers
  <2>2. UNCHANGED <<conn, creds, dead, account>>
    BY <1>7 DEF TokenRefused
  <2>3. \A c \in Connections : \A a, b \in Selected(c)' : a = b
    BY <2>2, SameSelected DEF Selected
  <2>4. \A q \in Slots : slot'[q].pc = "mark" => slot'[q].token \in dead
    BY <2>1 DEF Sound
  <2>5. \A q \in Slots : slot'[q].pc = "drop" /\ slot'[q].token # 0 =>
          /\ creds[slot'[q].token] # "unused"
          /\ \A d \in Connections : conn[d].credential = slot'[q].token => d = slot'[q].conn
    BY <2>1 DEF Sound
  <2> QED BY <2>2, <2>3, <2>4, <2>5 DEF Sound
<1>8. CASE MarkNeedsReconnect(s)
  <2>1. slot[s].conn \in Connections /\ conn[slot[s].conn] \in ConnectionRows
    BY <1>8, Holds DEF MarkNeedsReconnect
  <2>2. \A d \in Connections : /\ conn'[d].credential = conn[d].credential
                               /\ conn'[d].status = "CONNECTED" => conn[d].status = "CONNECTED"
    BY <1>8, <2>1 DEF MarkNeedsReconnect, Typed, TypeOK, ConnectionRows
  <2>3. \A q \in Slots : NoDuty(q)
    BY <1>8, MovesNoDuty DEF MarkNeedsReconnect, Fail
  <2>4. \A c \in Connections : \A a, b \in Selected(c)' : a = b
    BY <1>8, SameSelected DEF MarkNeedsReconnect, Selected
  <2> QED BY <1>8, <2>2, <2>3, <2>4, QuietSound DEF MarkNeedsReconnect
<1> QED BY <1>2, <1>3, <1>4, <1>5, <1>6, <1>7, <1>8, PersistSound, DisconnectSound DEF Serve

LEMMA StepSound == Typed /\ Sound /\ [Next]_vars => Sound'
<1> SUFFICES ASSUME Typed, Sound, [Next]_vars PROVE Sound'
  OBVIOUS
<1> USE DEF access, work, audiences
<1>0. Requests \subseteq Slots /\ Workers \subseteq Slots
  BY DEF Slots
<1>1. ASSUME UNCHANGED <<conn, creds, account>>, dead \subseteq dead',
             \A q \in Slots : NoDuty(q)
      PROVE  Sound'
  <2>1. \A c \in Connections : \A a, b \in Selected(c)' : a = b
    BY <1>1, SameSelected DEF Selected
  <2> QED BY <1>1, <2>1, QuietSound
<1>2. CASE Tick
  BY <1>1, <1>2 DEF Tick, NoDuty
<1>3. ASSUME NEW s \in Workers, NEW job \in jobs, TakeJob(s, job) PROVE Sound'
  <2>1. job.client \in Clients /\ job.left \in 0..Attempts
    BY DEF Typed, TypeOK
  <2>2. [Idle EXCEPT !.client = job.client, !.left = job.left] \in Handlers
    BY <2>1, IdleHandler DEF Handlers
  <2> QED BY <1>0, <1>1, <1>3, <2>2, BeginNoDuty DEF TakeJob
<1>4. ASSUME NEW k \in Clients, StateExpires(k) \/ NewInsights(k) PROVE Sound'
  BY <1>1, <1>4 DEF StateExpires, NewInsights, NoDuty
<1>5. ASSUME NEW t \in CredentialIds, TokenDies(t) PROVE Sound'
  BY <1>1, <1>5 DEF TokenDies, NoDuty
<1>6. CASE UNCHANGED vars
  BY <1>1, <1>6 DEF vars, NoDuty
<1>7. ASSUME NEW s \in Requests, NEW k \in Clients, Ask(s, k) PROVE Sound'
  BY <1>0, <1>7, AskSound
<1> QED BY <1>2, <1>3, <1>4, <1>5, <1>6, <1>7, ServeSound DEF Next, Ask

LEMMA AccessInvariant == Spec => [](Typed /\ Sound)
<1>1. Init => Typed /\ Sound
  BY InitTyped, InitSound
<1>2. Typed /\ Sound /\ [Next]_vars => (Typed /\ Sound)'
  BY StepTyped, StepSound
<1> QED BY <1>1, <1>2, PTL DEF Spec

-----------------------------------------------------------------------------
(* Theorems *)

\* A connection shown as connected has a stored credential, and at most one of its ad
\* accounts is selected, whatever reconnects, disconnects and dead tokens crossed.
THEOREM ConnectionInvariantAlways == Spec => []ConnectionInvariant
<1>1. Typed /\ Sound => ConnectionInvariant
  <2> SUFFICES ASSUME Typed, Sound PROVE ConnectionInvariant
    OBVIOUS
  <2>1. ASSUME NEW c \in Connections PROVE Cardinality(Selected(c)) <= 1
    <3>1. CASE Selected(c) = {}
      BY <3>1, FS_EmptySet
    <3>2. ASSUME NEW a \in Selected(c) PROVE Cardinality(Selected(c)) <= 1
      <4>1. Selected(c) = {a}
        BY <3>2 DEF Sound
      <4>2. Cardinality({a}) = 1
        BY FS_Singleton, Zenon
      <4> QED BY <4>1, <4>2
    <3> QED BY <3>1, <3>2
  <2> QED BY <2>1 DEF ConnectionInvariant, ConnectedHasCredential, OneSelectedAccount, Typed, Sound
<1> QED BY <1>1, AccessInvariant, PTL

\* Only a connection a token of which Meta refused loses its status of connected to a
\* request to reconnect.
THEOREM FlaggedForCauseAlways == Spec => FlaggedForCause
<1>1. Typed /\ Sound /\ [Next]_vars =>
        [\A c \in Connections :
          conn[c].status = "CONNECTED" /\ conn'[c].status = "NEEDS_RECONNECT" =>
              \E s \in Slots : slot[s].conn = c /\ slot[s].token \in dead]_vars
  <2> SUFFICES ASSUME Typed, Sound, Next, NEW c \in Connections,
                      conn[c].status = "CONNECTED", conn'[c].status = "NEEDS_RECONNECT"
               PROVE  \E s \in Slots : slot[s].conn = c /\ slot[s].token \in dead
    OBVIOUS
  <2> USE DEF access, work, audiences
  <2>1. ASSUME NEW s \in Slots, MarkNeedsReconnect(s)
        PROVE  slot[s].conn = c /\ slot[s].token \in dead
    BY <2>1 DEF MarkNeedsReconnect, Sound, Typed, TypeOK
  <2>2. \A s \in Slots : ~PersistConnection(s)
    BY DEF PersistConnection, Typed, TypeOK
  <2>3. \A s \in Slots : ~DisconnectCommit(s)
    <3>1. conn[c] \in ConnectionRows
      BY DEF Typed, TypeOK, NoConnection
    <3>2. ASSUME NEW s \in Slots, DisconnectCommit(s) PROVE FALSE
      <4>1. conn'[c] = IF c = slot[s].conn
                       THEN [conn[c] EXCEPT !.status = "DISCONNECTED", !.credential = 0]
                       ELSE conn[c]
        BY <3>2 DEF DisconnectCommit, Typed, TypeOK
      <4> QED BY <3>1, <4>1 DEF ConnectionRows
    <3> QED BY <3>2
  <2>4. ASSUME NEW s, NEW d \in Connections, NEW a, NEW k PROVE ~SelectAdAccount(s, d, a, k)
    BY DEF SelectAdAccount, Typed, TypeOK, ConnectionRows, NoConnection
  <2>5. conn' # conn
    OBVIOUS
  <2>6. ASSUME NEW s \in Slots, Serve(s) \/ CallFails(s) \/ Crash(s)
        PROVE  MarkNeedsReconnect(s)
    BY <2>2, <2>3, <2>5, <2>6
    DEF Serve, Context, ListAdAccounts, TokenRefused, FindConnection, GetInsights,
        ListAudiences, CreateCall, CreateRow, DeleteCall, DeleteRow, CallFails, Crash
  <2>7. ASSUME NEW s \in Slots, NEW k \in Clients PROVE ~Ask(s, k)
    BY <2>4, <2>5
    DEF Ask, MetaTab, AudiencesManager, ApiOnly, OfClient, StartConnect, EnqueueSync,
        CompleteOAuth, RefreshAssets, Disconnect, SyncAudiences, CreateAudience, RemoveAudience
  <2> QED BY <2>1, <2>5, <2>6, <2>7
      DEF Next, Ask, Slots, Tick, TakeJob, StateExpires, NewInsights, TokenDies
<1> QED BY <1>1, AccessInvariant, PTL DEF Spec, FlaggedForCause

-----------------------------------------------------------------------------
(* Audiences, handled one at a time                                        *)

\* The row that is about to be written stands for an audience that exists at Meta.
Created(h, there) == h.pc = "create_row" => h.audience \in there
CreatedFirst == \A s \in Slots : Created(slot[s], atMeta)

\* Nobody comes to write a row, or did before.
Brings(h) == h.pc = "create_row"
NoRow(q) == Brings(slot'[q]) => slot'[q] = slot[q]

LEMMA QuietCreated ==
    ASSUME CreatedFirst, atMeta \subseteq atMeta', \A q \in Slots : NoRow(q)
    PROVE  CreatedFirst'
BY DEF CreatedFirst, Created, NoRow, Brings

LEMMA MovesNoRow ==
    ASSUME Typed, NEW s \in Slots,
           \/ Return(s)
           \/ \E pc \in {"mark", "delete_row"} : Goto(s, pc)
           \/ \E h : ~Brings(h) /\ slot' = [slot EXCEPT ![s] = h]
    PROVE  \A q \in Slots : NoRow(q)
<1>1. CASE Return(s)
  BY <1>1 DEF Return, Idle, NoRow, Brings, Typed, TypeOK
<1>2. CASE \E pc \in {"mark", "delete_row"} : Goto(s, pc)
  BY <1>2 DEF Goto, NoRow, Brings, Typed, TypeOK, Handlers
<1>3. CASE \E h : ~Brings(h) /\ slot' = [slot EXCEPT ![s] = h]
  BY <1>3 DEF NoRow, Typed, TypeOK
<1> QED BY <1>1, <1>2, <1>3

LEMMA BeginNoRow ==
    ASSUME Typed, NEW s \in Slots, NEW pc \in {"persist", "context", "find", "drop"}, NEW op,
           NEW base \in Handlers, Start(s, pc, op, base)
    PROVE  \A q \in Slots : NoRow(q)
<1>1. slot'[s].pc = pc /\ \A q \in Slots \ {s} : slot'[q] = slot[q]
  BY DEF Start, Typed, TypeOK, Handlers
<1> QED BY <1>1 DEF NoRow, Brings

LEMMA AskNoRow ==
    ASSUME Typed, NEW s \in Slots, NEW k \in Clients, Ask(s, k)
    PROVE  atMeta' = atMeta /\ \A q \in Slots : NoRow(q)
<1> USE DEF access, work, audiences
<1>0. TypeOK /\ Known \subseteq Connections
  BY DEF Typed, Known
<1>1. CASE StartConnect(k) \/ EnqueueSync(k)
  BY <1>1 DEF StartConnect, EnqueueSync, NoRow
<1>2. ASSUME NEW m \in MetaUsers, CompleteOAuth(s, k, m)
      PROVE  atMeta' = atMeta /\ \A q \in Slots : NoRow(q)
  <2>1. [Idle EXCEPT !.client = k, !.who = m] \in Handlers
    BY IdleHandler DEF Handlers
  <2> QED BY <1>2, <2>1, BeginNoRow DEF CompleteOAuth
<1>3. ASSUME NEW c \in Connections, RefreshAssets(s, c)
      PROVE  atMeta' = atMeta /\ \A q \in Slots : NoRow(q)
  <2>1. [Idle EXCEPT !.conn = c] \in Handlers
    BY IdleHandler DEF Handlers
  <2> QED BY <1>3, <2>1, BeginNoRow DEF RefreshAssets
<1>4. ASSUME NEW op, NEW x \in Audiences \cup {None}, ResolveAccount(s, k, op, x)
      PROVE  \A q \in Slots : NoRow(q)
  <2>1. PICK c \in Connections :
          Start(s, "context", op, [Idle EXCEPT !.client = k, !.conn = c, !.audience = x])
    BY <1>4 DEF ResolveAccount, OfClient
  <2>2. [Idle EXCEPT !.client = k, !.conn = c, !.audience = x] \in Handlers
    BY IdleHandler DEF Handlers
  <2> QED BY <2>1, <2>2, BeginNoRow
<1>5. CASE SyncAudiences(s, k) \/ \E x \in Audiences : CreateAudience(s, k, x)
  BY <1>4, <1>5 DEF SyncAudiences, CreateAudience
<1>6. ASSUME NEW row \in audience, RemoveAudience(s, row)
      PROVE  atMeta' = atMeta /\ \A q \in Slots : NoRow(q)
  <2>1. row[1] \in Connections /\ row[2] \in Audiences
    BY <1>0 DEF TypeOK, AudienceRows
  <2>2. [Idle EXCEPT !.conn = row[1], !.audience = row[2]] \in Handlers
    BY <2>1, IdleHandler DEF Handlers
  <2> QED BY <1>6, <2>2, BeginNoRow DEF RemoveAudience
<1>7. ASSUME NEW c \in Connections, Disconnect(s, c)
      PROVE  atMeta' = atMeta /\ \A q \in Slots : NoRow(q)
  <2>1. [Idle EXCEPT !.conn = c, !.token = conn[c].credential] \in Handlers
    <3>1. conn[c].credential \in 0..MaxCredentials
      BY <1>0, MetaAccessAssumption DEF TypeOK, ConnectionRows, NoConnection
    <3> QED BY <3>1, IdleHandler DEF Handlers
  <2> QED BY <1>7, <2>1, BeginNoRow DEF Disconnect
<1>8. ASSUME NEW c, NEW a, SelectAdAccount(s, c, a, k)
      PROVE  atMeta' = atMeta /\ \A q \in Slots : NoRow(q)
  BY <1>8 DEF SelectAdAccount, NoRow
<1> QED BY <1>1, <1>2, <1>3, <1>5, <1>6, <1>7, <1>8
    DEF Ask, MetaTab, AudiencesManager, ApiOnly, OfClient

\* CreateCall writes down at Meta what its row will say; only DeleteCall takes away, and
\* whoever is at either is the one handler of audiences.
LEMMA ServeCreated ==
    ASSUME Typed, CreatedFirst, OneAudienceHandler, NEW s \in Slots,
           Serve(s) \/ CallFails(s) \/ Crash(s)
    PROVE  CreatedFirst'
<1> USE DEF access, work, audiences
<1>1. CASE \/ CallFails(s) \/ Crash(s) \/ GetInsights(s) \/ ListAudiences(s) \/ CreateRow(s)
           \/ DeleteRow(s) \/ ListAdAccounts(s) \/ DisconnectCommit(s)
  <2>1. Return(s) /\ atMeta' = atMeta
    BY <1>1 DEF CallFails, Crash, GetInsights, ListAudiences, CreateRow, DeleteRow,
       ListAdAccounts, DisconnectCommit, Fail
  <2> QED BY <2>1, MovesNoRow, QuietCreated
<1>2. CASE TokenRefused(s) \/ MarkNeedsReconnect(s)
  <2>1. (Goto(s, "mark") \/ Goto(s, "delete_row") \/ Return(s)) /\ atMeta' = atMeta
    BY <1>2 DEF TokenRefused, MarkNeedsReconnect, Fail
  <2> QED BY <2>1, MovesNoRow, QuietCreated
<1>3. CASE PersistConnection(s)
  <2>1. PICK c \in Connections : slot' = [slot EXCEPT ![s].pc = "context", ![s].conn = c]
    BY <1>3 DEF PersistConnection
  <2>2. \A q \in Slots : NoRow(q)
    BY <2>1 DEF NoRow, Brings, Typed, TypeOK, Handlers
  <2> QED BY <1>3, <2>2, QuietCreated DEF PersistConnection
<1>4. CASE Context(s)
  <2>1. slot[s] \in Handlers /\ slot[s].op \in Calling
    BY <1>4, Holds DEF Context, WellFormed
  <2>2. ASSUME NEW t, slot' = [slot EXCEPT ![s].pc = slot[s].op, ![s].token = t]
        PROVE  \A q \in Slots : NoRow(q)
    <3>1. slot'[s].pc = slot[s].op /\ \A q \in Slots \ {s} : slot'[q] = slot[q]
      BY <2>1, <2>2 DEF Typed, TypeOK, Handlers
    <3> QED BY <2>1, <3>1 DEF NoRow, Brings, Calling
  <2>3. \A q \in Slots : NoRow(q)
    BY <1>4, <2>2, MovesNoRow DEF Context, Fail
  <2> QED BY <1>4, <2>3, QuietCreated DEF Context
<1>5. CASE FindConnection(s)
  <2>1. ASSUME NEW c, NEW a,
               slot' = [slot EXCEPT ![s].pc = "context", ![s].conn = c, ![s].account = a]
        PROVE  \A q \in Slots : NoRow(q)
    BY <2>1 DEF NoRow, Brings, Typed, TypeOK, Handlers
  <2>2. \A q \in Slots : NoRow(q)
    BY <1>5, <2>1, MovesNoRow DEF FindConnection
  <2> QED BY <1>5, <2>2, QuietCreated DEF FindConnection
<1>6. CASE CreateCall(s)
  <2>1. CASE Return(s)
    <3>1. atMeta \subseteq atMeta'
      BY <1>6 DEF CreateCall
    <3> QED BY <2>1, <3>1, MovesNoRow, QuietCreated
  <2>2. CASE atMeta' = atMeta \cup {slot[s].audience} /\ Goto(s, "create_row")
    <3>1. /\ slot'[s].audience = slot[s].audience
          /\ \A q \in Slots \ {s} : slot'[q] = slot[q]
      BY <2>2 DEF Goto, Typed, TypeOK, Handlers
    <3> QED BY <2>2, <3>1 DEF CreatedFirst, Created
  <2> QED BY <1>6, <2>1, <2>2 DEF CreateCall
<1>7. CASE DeleteCall(s)
  <2>1. slot[s].audience # None
    BY <1>7, Holds, MetaAccessAssumption DEF DeleteCall, WellFormed, Calling
  <2>2. \A q \in Slots \ {s} : slot[q].pc # "create_row"
    <3> SUFFICES ASSUME NEW q \in Slots \ {s}, slot[q].pc = "create_row" PROVE FALSE
      OBVIOUS
    <3>1. slot[q].audience # None
      BY Holds, MetaAccessAssumption DEF WellFormed
    <3> QED BY <2>1, <3>1 DEF OneAudienceHandler, AudienceHandler
  <2>3. \A q \in Slots : NoRow(q)
    BY <1>7, MovesNoRow DEF DeleteCall
  <2>4. slot'[s].pc = "delete_row"
    BY <1>7 DEF DeleteCall, Goto, Typed, TypeOK, Handlers
  <2> QED BY <2>2, <2>3, <2>4 DEF CreatedFirst, Created, NoRow, Brings
<1> QED BY <1>1, <1>2, <1>3, <1>4, <1>5, <1>6, <1>7 DEF Serve

LEMMA StepCreated ==
    Typed /\ OneAudienceHandler /\ CreatedFirst /\ [Next]_vars => CreatedFirst'
<1> SUFFICES ASSUME Typed, OneAudienceHandler, CreatedFirst, [Next]_vars PROVE CreatedFirst'
  OBVIOUS
<1> USE DEF access, work, audiences
<1>0. Requests \subseteq Slots /\ Workers \subseteq Slots
  BY DEF Slots
<1>1. ASSUME NEW s \in Slots, Serve(s) \/ CallFails(s) \/ Crash(s) PROVE CreatedFirst'
  BY <1>1, ServeCreated
<1>2. ASSUME NEW s \in Workers, NEW job \in jobs, TakeJob(s, job) PROVE CreatedFirst'
  <2>1. job.client \in Clients /\ job.left \in 0..Attempts
    BY DEF Typed, TypeOK
  <2>2. [Idle EXCEPT !.client = job.client, !.left = job.left] \in Handlers
    BY <2>1, IdleHandler DEF Handlers
  <2>3. \A q \in Slots : NoRow(q)
    BY <1>0, <1>2, <2>2, BeginNoRow DEF TakeJob
  <2> QED BY <1>2, <2>3, QuietCreated DEF TakeJob
<1>3. ASSUME NEW s \in Requests, NEW k \in Clients, Ask(s, k) PROVE CreatedFirst'
  BY <1>0, <1>3, AskNoRow, QuietCreated
<1>4. CASE UNCHANGED <<slot, atMeta>>
  BY <1>4 DEF CreatedFirst
<1>5. ASSUME NEW k, StateExpires(k) \/ NewInsights(k) PROVE UNCHANGED <<slot, atMeta>>
  BY <1>5 DEF StateExpires, NewInsights
<1>6. ASSUME NEW t, TokenDies(t) PROVE UNCHANGED <<slot, atMeta>>
  BY <1>6 DEF TokenDies
<1>7. CASE Tick \/ UNCHANGED vars
  BY <1>4, <1>7 DEF Tick, vars
<1> QED BY <1>1, <1>2, <1>3, <1>4, <1>5, <1>6, <1>7 DEF Next, Ask

\* Rows are written by ListAudiences, for what exists at Meta, and by CreateRow.
LEMMA ListedStep ==
    ASSUME Typed, CreatedFirst, Next, NEW row \in audience' \ audience
    PROVE  row[2] \in atMeta'
<1> USE DEF access, work, audiences
<1>1. audience' # audience
  OBVIOUS
<1>2. PICK s \in Slots : ListAudiences(s) \/ CreateRow(s)
  <2>1. ASSUME NEW s \in Slots, Serve(s) \/ CallFails(s) \/ Crash(s)
        PROVE  ListAudiences(s) \/ CreateRow(s)
    <3>1. ~DeleteRow(s)
      BY DEF DeleteRow
    <3> QED BY <1>1, <2>1, <3>1
        DEF Serve, PersistConnection, Context, ListAdAccounts, DisconnectCommit, TokenRefused,
            MarkNeedsReconnect, FindConnection, GetInsights, CreateCall, DeleteCall, CallFails,
            Crash
  <2>2. ASSUME NEW s \in Slots, NEW k \in Clients PROVE ~Ask(s, k)
    BY <1>1
    DEF Ask, MetaTab, AudiencesManager, ApiOnly, StartConnect, EnqueueSync, CompleteOAuth,
        RefreshAssets, Disconnect, SelectAdAccount, SyncAudiences, CreateAudience, RemoveAudience
  <2> QED BY <1>1, <2>1, <2>2
      DEF Next, Ask, Slots, Tick, TakeJob, StateExpires, NewInsights, TokenDies
<1>3. CASE ListAudiences(s)
  BY <1>3 DEF ListAudiences
<1>4. CASE CreateRow(s)
  BY <1>4 DEF CreateRow, CreatedFirst, Created
<1> QED BY <1>2, <1>3, <1>4

\* As long as audiences are handled one at a time, no audience is listed that does not
\* exist at Meta, whatever calls fail, lose their answers or are cut short beside
\* reconnects, disconnects, syncs and dead tokens (audiences.service.ts).
THEOREM ListedExistsAlways == Spec /\ []OneAudienceHandler => ListedExists
<1>1. Init => CreatedFirst
  BY DEF Init, CreatedFirst, Created, Idle
<1>2. Typed /\ CreatedFirst /\ [Next]_vars =>
        [\A row \in audience' \ audience : row[2] \in atMeta']_vars
  BY ListedStep
<1> QED BY <1>1, <1>2, StepCreated, AccessInvariant, PTL DEF Spec, ListedExists

=============================================================================
