------------------------------ MODULE Identity ------------------------------
(***************************************************************************)
(* Sessions and organisations: AuthService and OrgService of the API, the  *)
(* guards in front of every route, and the part of the web console that    *)
(* keeps a session: the access and refresh tokens in the browser's         *)
(* storage, the retry of a request answered 401, and the team page.        *)
(*                                                                         *)
(* A call slot is one request a browser has in progress, from the click to *)
(* the answer: pc names the await it has reached, in the browser or in the *)
(* handler. The tabs of one user share one storage. Each user has one      *)
(* browser. A role stands for a member's role and client scope.            *)
(***************************************************************************)
EXTENDS Integers, FiniteSets, Permissions

CONSTANTS Users, Orgs, Calls,
          None,         \* no user, no organisation
          Assignable,   \* the roles the team page assigns in the instance
          MaxMembers,   \* bound: member rows ever created
          MaxTokens     \* bound: refresh tokens ever issued

ASSUME IdentityAssumption ==
    /\ Assignable \subseteq OrgRoles
    /\ MaxMembers \in Nat /\ MaxTokens \in Nat
    /\ None \notin Users /\ None \notin Orgs

VARIABLES users,     \* users with a row
          members,   \* member rows, in the order of createdAt
          tokens,    \* refresh token rows
          access,    \* the access token in each user's browser
          refresh,   \* the refresh token there (0: none)
          shown,     \* the role in the session the console shows
          call       \* the requests in progress

vars == <<users, members, tokens, access, refresh, shown, call>>
rows == <<users, members>>
storage == <<access, refresh, shown>>

PRIVILEGED == {"ADMIN", "AGENCY_OWNER"}

MemberIds == 1..MaxMembers
TokenIds == 1..MaxTokens

\* REMOVED keeps the id of a deleted row from being used again.
NoMember == [user |-> None, org |-> None, role |-> "UNUSED"]
NoToken == [user |-> None, status |-> "unused", login |-> 0]
Session == [user : Users, org : Orgs, role : OrgRoles]
NoSession == [user |-> None, org |-> None, role |-> "UNUSED"]
SignedOff == "UNUSED"
NoAccess == [session |-> NoSession, fresh |-> FALSE]

PermissionOf ==
    [kind \in {"read", "report", "add", "role", "remove"} |->
        CASE kind = "read" -> "member.read"
          [] kind = "report" -> "analytics.read"
          [] OTHER -> "member.manage"]

\* What a page asks for. A report is fetched as text, by a function of its own.
Reads == [kind : {"read", "report"}, member : {0}, user : {None}, role : {"UNUSED"}]
TeamOperations ==
    [kind : {"add"}, member : {0}, user : Users, role : Assignable]
    \cup [kind : {"role"}, member : MemberIds, user : {None}, role : Assignable]
    \cup [kind : {"remove"}, member : MemberIds, user : {None}, role : {"UNUSED"}]
Operations == Reads \cup TeamOperations
NoOperation == [kind |-> "none", member |-> 0, user |-> None, role |-> "UNUSED"]

MemberRows == [user : Users, org : Orgs, role : OrgRoles \cup {"REMOVED"}] \cup {NoMember}
TokenRows ==
    [user : Users, status : {"live", "revoked", "expired"}, login : TokenIds] \cup {NoToken}
AccessRows == [session : Session, fresh : BOOLEAN] \cup {NoAccess}
PC == {"idle", "issue", "signed_in", "denied", "refresh", "rotate", "refreshed", "retry",
       "add", "count", "write"}
CallRows ==
    [pc : PC, user : Users \cup {None}, op : Operations \cup {NoOperation},
     as : Session \cup {NoSession}, token : 0..MaxTokens,
     session : Session \cup {NoSession}]

Idle == [pc |-> "idle", user |-> None, op |-> NoOperation, as |-> NoSession,
         token |-> 0, session |-> NoSession]

Init ==
    /\ users = {}
    /\ members = [m \in MemberIds |-> NoMember]
    /\ tokens = [t \in TokenIds |-> NoToken]
    /\ access = [u \in Users |-> NoAccess]
    /\ refresh = [u \in Users |-> 0]
    /\ shown = [u \in Users |-> SignedOff]
    /\ call = [c \in Calls |-> Idle]

-----------------------------------------------------------------------------
(* Helpers *)

Exists(m) == members[m].role \in OrgRoles
Unused == {m \in MemberIds : members[m] = NoMember}
NextMember == CHOOSE m \in Unused : \A n \in Unused : m <= n
FreshTokens == {t \in TokenIds : tokens[t] = NoToken}
NextToken == CHOOSE t \in FreshTokens : \A n \in FreshTokens : t <= n

Memberships(u) == {m \in MemberIds : Exists(m) /\ members[m].user = u}
SessionOf(u, m) == [user |-> u, org |-> members[m].org, role |-> members[m].role]
\* memberships[0] of a list ordered by createdAt.
OldestSession(u) ==
    SessionOf(u, CHOOSE m \in Memberships(u) : \A n \in Memberships(u) : m <= n)

InAnyOrganisation(m, org) == Exists(m)  \* Mutant: the row is found by its id alone
InOrganisation(m, org) == Exists(m) /\ members[m].org = org

\* Mutant: the member itself is counted too.
AnyPrivileged(org, m) ==
    \E n \in MemberIds : /\ InOrganisation(n, org)
                         /\ members[n].role \in PRIVILEGED
OtherPrivileged(org, m) ==
    \E n \in MemberIds \ {m} : /\ InOrganisation(n, org)
                               /\ members[n].role \in PRIVILEGED

LosesPrivilege(op) ==
    /\ members[op.member].role \in PRIVILEGED
    /\ op.kind = "role" => op.role \notin PRIVILEGED

End(c) == call' = [call EXCEPT ![c] = Idle]
Goto(c, pc) == call' = [call EXCEPT ![c].pc = pc]

-----------------------------------------------------------------------------
(* Signing in *)

\* register: the organisation, its user and the owner's membership in one transaction.
Register(c, u, org) ==
    /\ call[c].pc = "idle"
    /\ u \notin users
    /\ \A m \in MemberIds : members[m].org # org
    /\ Unused # {}
    /\ users' = users \cup {u}
    /\ members' = [members EXCEPT ![NextMember] =
                      [user |-> u, org |-> org, role |-> "AGENCY_OWNER"]]
    /\ call' = [call EXCEPT ![c] =
                  [Idle EXCEPT !.pc = "issue", !.user = u,
                               !.session = [user |-> u, org |-> org, role |-> "AGENCY_OWNER"]]]
    /\ UNCHANGED <<tokens, storage>>

\* login: the right password, and a membership.
Login(c, u) ==
    /\ call[c].pc = "idle"
    /\ u \in users
    /\ Memberships(u) # {}
    /\ call' = [call EXCEPT ![c] = [Idle EXCEPT !.pc = "issue", !.user = u,
                                                !.session = OldestSession(u)]]
    /\ UNCHANGED <<rows, tokens, storage>>

\* issueSession: the access token is signed, then the refresh token stored.
Issue(c) ==
    LET t == NextToken IN
    /\ call[c].pc = "issue"
    /\ FreshTokens # {}
    /\ tokens' = [tokens EXCEPT ![t] =
                    [user |-> call[c].session.user, status |-> "live",
                     login |-> IF call[c].token = 0 THEN t ELSE tokens[call[c].token].login]]
    /\ call' = [call EXCEPT ![c].pc = IF call[c].token = 0 THEN "signed_in" ELSE "refreshed",
                            ![c].token = t]
    /\ UNCHANGED <<rows, storage>>

Store(c) ==
    LET u == call[c].user IN
    /\ access' = [access EXCEPT ![u] = [session |-> call[c].session, fresh |-> TRUE]]
    /\ refresh' = [refresh EXCEPT ![u] = call[c].token]

\* The login and register pages: the tokens and the session to show.
SignedIn(c) ==
    /\ call[c].pc = "signed_in"
    /\ Store(c)
    /\ shown' = [shown EXCEPT ![call[c].user] = call[c].session.role]
    /\ End(c)
    /\ UNCHANGED <<rows, tokens>>

\* The console's log-out clears the browser and tells the API nothing.
LogOut(u) ==
    /\ refresh[u] # 0
    /\ access' = [access EXCEPT ![u] = NoAccess]
    /\ refresh' = [refresh EXCEPT ![u] = 0]
    /\ shown' = [shown EXCEPT ![u] = SignedOff]
    /\ UNCHANGED <<rows, tokens, call>>

\* POST /auth/logout, by whoever holds the token (the console never calls it).
Logout(t) ==
    /\ tokens[t].status = "live"
    /\ tokens' = [tokens EXCEPT ![t].status = "revoked"]
    /\ UNCHANGED <<rows, storage, call>>

-----------------------------------------------------------------------------
(* A request, the guards, and the refresh behind a 401 *)

\* Where a handler stands after the guards and its first query.
Entry(a, op) ==
    IF ~RoleHasPermission(a.role, PermissionOf[op.kind]) \/ op.kind \in {"read", "report"}
    THEN "idle"
    ELSE IF op.kind = "add" THEN "add"
    ELSE IF ~InOrganisation(op.member, a.org) THEN "idle"
    ELSE IF LosesPrivilege(op) THEN "count" ELSE "write"

\* JwtAuthGuard: the caller is whoever the access token says, until it expires.
Caller(u) == IF access[u].fresh THEN access[u].session ELSE NoSession

\* rawRequest up to the API's first await.
Send(c, u, op, unauthorised) ==
    LET a == Caller(u) IN
    IF a = NoSession
    THEN /\ call' = [call EXCEPT ![c] = [Idle EXCEPT !.pc = unauthorised,
                                    !.user = IF unauthorised = "idle" THEN None ELSE u,
                                    !.op = IF unauthorised = "idle" THEN NoOperation ELSE op]]
         /\ UNCHANGED users
    ELSE LET pc == Entry(a, op) IN
         /\ call' = [call EXCEPT ![c] = IF pc = "idle" THEN Idle
                        ELSE [Idle EXCEPT !.pc = pc, !.user = u, !.op = op, !.as = a]]
         /\ users' = IF pc = "add" THEN users \cup {op.user} ELSE users

\* The layout of the console sends everybody without a session to the login page.
ShowsConsole(u) == shown[u] # SignedOff

\* A page loads (useApi).
Load(c, u, op) ==
    /\ call[c].pc = "idle"
    /\ ShowsConsole(u)
    /\ op \in Reads
    /\ Send(c, u, op, "denied")
    /\ UNCHANGED <<members, tokens, storage>>

\* The team page offers its operations to the role it shows.
TeamPage(c, u, op) ==
    /\ call[c].pc = "idle"
    /\ ShowsConsole(u)
    /\ RoleHasPermission(shown[u], "member.manage")
    /\ op \in TeamOperations
    /\ Send(c, u, op, "denied")
    /\ UNCHANGED <<members, tokens, storage>>

\* A 401 reaches the browser, which sends the refresh token it holds by then.
Denied(c) ==
    LET t == refresh[call[c].user] IN
    /\ call[c].pc = "denied"
    /\ IF t = 0 THEN End(c)
       ELSE call' = [call EXCEPT ![c].pc = "refresh", ![c].token = t]
    /\ UNCHANGED <<rows, tokens, storage>>

\* The request is over for want of a session. Only rawRequest clears the tokens.
SignedOut(c) ==
    LET u == call[c].user IN
    /\ access' = IF call[c].op.kind = "report" THEN access ELSE [access EXCEPT ![u] = NoAccess]
    /\ refresh' = IF call[c].op.kind = "report" THEN refresh ELSE [refresh EXCEPT ![u] = 0]
    /\ End(c)
    /\ UNCHANGED <<rows, tokens, shown>>

Refreshable(t) == tokens[t].status = "live" /\ Memberships(tokens[t].user) # {}

\* refresh: the token is valid and its user belongs somewhere.
Refresh(c) ==
    /\ call[c].pc = "refresh"
    /\ Refreshable(call[c].token)
    /\ call' = [call EXCEPT ![c].pc = "rotate", ![c].session = OldestSession(call[c].user)]
    /\ UNCHANGED <<rows, tokens, storage>>

RefreshRefused(c) ==
    /\ call[c].pc = "refresh"
    /\ ~Refreshable(call[c].token)
    /\ SignedOut(c)

\* Mutant: the old token stays valid.
NotRevoked(c) ==
    /\ call[c].pc = "rotate"
    /\ Goto(c, "issue")
    /\ UNCHANGED <<rows, tokens, storage>>
\* The old token is revoked, whatever became of it since it was read.
Rotate(c) ==
    /\ call[c].pc = "rotate"
    /\ tokens' = [tokens EXCEPT ![call[c].token].status = "revoked"]
    /\ Goto(c, "issue")
    /\ UNCHANGED <<rows, storage>>

\* tryRefresh stores the new tokens; the session shown stays the one of the login.
Refreshed(c) ==
    /\ call[c].pc = "refreshed"
    /\ Store(c)
    /\ Goto(c, "retry")
    /\ UNCHANGED <<rows, tokens, shown>>

\* Mutant: any 401 that is not followed by a refresh signs the user out.
ClearsOnRetry(c) ==
    /\ call[c].pc = "retry"
    /\ IF access[call[c].user].fresh
       THEN /\ Send(c, call[c].user, call[c].op, "idle")
            /\ UNCHANGED <<members, tokens, storage>>
       ELSE SignedOut(c)
\* The request once more; a second 401 is an error.
Retry(c) ==
    /\ call[c].pc = "retry"
    /\ Send(c, call[c].user, call[c].op, "idle")
    /\ UNCHANGED <<members, tokens, storage>>

-----------------------------------------------------------------------------
(* Members *)

\* addMember: refused if the user is a member (the check, or the unique index behind it).
AddMember(c) ==
    LET op == call[c].op  org == call[c].as.org IN
    /\ call[c].pc = "add"
    /\ IF \E m \in Memberships(op.user) : members[m].org = org
       THEN UNCHANGED members
       ELSE /\ Unused # {}
            /\ members' = [members EXCEPT ![NextMember] =
                              [user |-> op.user, org |-> org, role |-> op.role]]
    /\ End(c)
    /\ UNCHANGED <<users, tokens, storage>>

\* assertNotLastPrivileged
AssertNotLastPrivileged(c) ==
    /\ call[c].pc = "count"
    /\ IF OtherPrivileged(call[c].as.org, call[c].op.member) THEN Goto(c, "write") ELSE End(c)
    /\ UNCHANGED <<rows, tokens, storage>>

\* The write by id of updateMember; it fails if the row is gone.
UpdateMember(c) ==
    LET op == call[c].op IN
    /\ call[c].pc = "write"
    /\ op.kind = "role"
    /\ members' = IF Exists(op.member) THEN [members EXCEPT ![op.member].role = op.role]
                  ELSE members
    /\ End(c)
    /\ UNCHANGED <<users, tokens, storage>>

\* Mutant: a removal goes through the update of the role.
UpdatesInstead(c) ==
    /\ call[c].pc = "write"
    /\ call[c].op.kind = "remove"
    /\ members' = [members EXCEPT ![call[c].op.member].role = call[c].op.role]
    /\ End(c)
    /\ UNCHANGED <<users, tokens, storage>>
\* The delete by id of removeMember.
RemoveMember(c) ==
    LET m == call[c].op.member IN
    /\ call[c].pc = "write"
    /\ call[c].op.kind = "remove"
    /\ members' = IF Exists(m) THEN [members EXCEPT ![m].role = "REMOVED"] ELSE members
    /\ End(c)
    /\ UNCHANGED <<users, tokens, storage>>

-----------------------------------------------------------------------------
(* The environment *)

\* JWT_ACCESS_TTL passes.
AccessExpires(u) ==
    /\ access[u].fresh
    /\ access' = [access EXCEPT ![u].fresh = FALSE]
    /\ UNCHANGED <<rows, tokens, refresh, shown, call>>

\* JWT_REFRESH_TTL passes.
TokenExpires(t) ==
    /\ tokens[t].status = "live"
    /\ tokens' = [tokens EXCEPT ![t].status = "expired"]
    /\ UNCHANGED <<rows, storage, call>>

\* A crash, a failed query or a lost answer: the handler is gone, the browser sees an error.
Lost(c) ==
    /\ call[c].pc # "idle"
    /\ IF call[c].pc \in {"refresh", "rotate", "issue", "refreshed"} /\ call[c].op.kind # "none"
       THEN SignedOut(c)
       ELSE End(c) /\ UNCHANGED <<rows, tokens, storage>>

Serve(c) ==
    \/ Issue(c) \/ SignedIn(c)
    \/ Denied(c) \/ Refresh(c) \/ RefreshRefused(c) \/ Rotate(c) \/ Refreshed(c) \/ Retry(c)
    \/ AddMember(c) \/ AssertNotLastPrivileged(c)
    \/ UpdateMember(c) \/ RemoveMember(c)

Next ==
    \/ \E c \in Calls :
        \/ Serve(c)
        \/ Lost(c)
        \/ \E u \in Users :
            \/ \E org \in Orgs : Register(c, u, org)
            \/ Login(c, u)
            \/ \E op \in Reads : Load(c, u, op)
            \/ \E op \in TeamOperations : TeamPage(c, u, op)
    \/ \E u \in Users : LogOut(u) \/ AccessExpires(u)
    \/ \E t \in TokenIds : Logout(t) \/ TokenExpires(t)

Spec == Init /\ [][Next]_vars

-----------------------------------------------------------------------------
(* Properties *)

\* The rows, the browsers' storages and the requests in progress have their types.
TypeOK ==
    /\ users \subseteq Users
    /\ members \in [MemberIds -> MemberRows]
    /\ tokens \in [TokenIds -> TokenRows]
    /\ access \in [Users -> AccessRows]
    /\ refresh \in [Users -> 0..MaxTokens]
    /\ shown \in [Users -> OrgRoles \cup {SignedOff}]
    /\ call \in [Calls -> CallRows]

\* An organisation always has somebody who can administer it: demotions and removals,
\* of oneself or of others, never take the last owner or administrator away.
PrivilegedRemains ==
    \A m \in MemberIds : members[m] # NoMember =>
        \E n \in MemberIds : InOrganisation(n, members[m].org) /\ members[n].role \in PRIVILEGED

\* Rotation: of the refresh tokens that descend from one sign-in, at most one is valid,
\* however often the session was refreshed and wherever a refresh was cut short.
OneLivePerLogin ==
    \A s, t \in TokenIds :
        /\ tokens[s].status = "live" /\ tokens[t].status = "live"
        /\ tokens[s].login = tokens[t].login
        => s = t

\* A member row, once there, changes only by a request whose caller was signed in to
\* the row's own organisation with member.manage: agencies cannot touch each other's teams, and a page that
\* still shows the buttons of an earlier role gives none of its power.
OnlyManagersOfTheOrganisation ==
    [][\A m \in MemberIds : members[m] # NoMember /\ members'[m] # members[m] =>
          \E c \in Calls :
              /\ call[c].pc = "write"
              /\ call[c].as.org = members[m].org
              /\ RoleHasPermission(call[c].as.role, "member.manage")]_vars

\* A browser loses a refresh token that the API would still accept only when its user
\* logs out or an answer is lost: no sequence of expiries and refreshes signs a user out.
KeptWhileUsable ==
    [][\A u \in Users :
          refresh[u] # 0 /\ refresh'[u] = 0 /\ Refreshable(refresh[u]) =>
              LogOut(u) \/ \E c \in Calls : Lost(c)]_vars

=============================================================================
