---------------------------- MODULE IdentityProofs ----------------------------
(***************************************************************************)
(* Theorems about Identity.  Types and the reach of a caller's power hold  *)
(* for any number of users, organisations and requests in progress; what   *)
(* depends on a request not being overtaken is proved for one at a time.   *)
(***************************************************************************)
EXTENDS IdentityInvariants, WellFoundedInduction, TLAPS

-----------------------------------------------------------------------------
(* The first row of a table: what CHOOSE returns.                          *)

Below == {p \in Nat \X Nat : p[1] < p[2]}

LEMMA LeastExists ==
    ASSUME NEW S \in SUBSET Nat, S # {}
    PROVE  \E m \in S : \A n \in S : m <= n
<1>1. IsWellFoundedOn(Below, Nat)
  BY NatLessThanWellFounded DEF OpToRel, Below
<1>2. \E m \in S : \A n \in S : <<n, m>> \notin Below
  BY <1>1, WFMin
<1>3. \A m, n \in Nat : <<n, m>> \notin Below => m <= n
  BY DEF Below
<1> QED BY <1>2, <1>3

LEMMA NextMemberIsUnused ==
    ASSUME Unused # {}
    PROVE  NextMember \in MemberIds /\ members[NextMember] = NoMember
<1>1. Unused \in SUBSET Nat
  BY IdentityAssumption DEF Unused, MemberIds
<1>2. \E m \in Unused : \A n \in Unused : m <= n
  BY <1>1, LeastExists
<1>3. NextMember \in Unused
  BY <1>2 DEF NextMember
<1> QED BY <1>3 DEF Unused

LEMMA NextTokenIsFresh ==
    ASSUME FreshTokens # {}
    PROVE  NextToken \in TokenIds /\ tokens[NextToken] = NoToken
<1>1. FreshTokens \in SUBSET Nat
  BY IdentityAssumption DEF FreshTokens, TokenIds
<1>2. \E m \in FreshTokens : \A n \in FreshTokens : m <= n
  BY <1>1, LeastExists
<1>3. NextToken \in FreshTokens
  BY <1>2 DEF NextToken
<1> QED BY <1>3 DEF FreshTokens

\* What a row says of itself.
LEMMA MemberFacts ==
    ASSUME TypeOK, NEW m \in MemberIds
    PROVE  /\ members[m] \in MemberRows
           /\ Exists(m) => /\ members[m] # NoMember
                           /\ members[m].user \in Users /\ members[m].org \in Orgs
           /\ members[m].org \in Orgs => members[m] # NoMember
           /\ members[m] # NoMember => members[m].org \in Orgs /\ members[m].user \in Users
BY IdentityAssumption DEF TypeOK, MemberRows, NoMember, Exists, OrgRoles

LEMMA TokenFacts ==
    ASSUME TypeOK, NEW t \in TokenIds
    PROVE  /\ tokens[t] \in TokenRows
           /\ tokens[t].status = "live" => Issued(t, tokens)
           /\ Issued(t, tokens) => tokens[t].user \in Users /\ tokens[t].login \in TokenIds
           /\ tokens[t].user \in Users => Issued(t, tokens)
BY IdentityAssumption DEF TypeOK, TokenRows, NoToken, Issued

LEMMA OldestSessionType ==
    ASSUME TypeOK, NEW u \in Users, Memberships(u) # {}
    PROVE  /\ OldestSession(u) \in Session
           /\ OldestSession(u).user = u
           /\ Known(OldestSession(u).org, members)
<1> DEFINE m == CHOOSE m \in Memberships(u) : \A n \in Memberships(u) : m <= n
<1>1. Memberships(u) \in SUBSET Nat
  BY IdentityAssumption DEF Memberships, MemberIds
<1>2. \E x \in Memberships(u) : \A n \in Memberships(u) : x <= n
  BY <1>1, LeastExists
<1>3. m \in Memberships(u)
  BY <1>2
<1>4. OldestSession(u) = [user |-> u, org |-> members[m].org, role |-> members[m].role]
  BY DEF OldestSession, SessionOf
<1> HIDE DEF m
<1>5. m \in MemberIds /\ members[m].role \in OrgRoles /\ members[m].org \in Orgs
  BY <1>3, MemberFacts DEF Memberships, Exists
<1> QED BY <1>4, <1>5 DEF Session, Known

-----------------------------------------------------------------------------
(* Rows and tokens stay: no step forgets where a row belongs.              *)

MembersKeep(new) ==
    \A m \in MemberIds :
        members[m] # NoMember => new[m] # NoMember /\ new[m].org = members[m].org
TokensKeep(new) ==
    \A t \in TokenIds :
        tokens[t] # NoToken => /\ new[t] # NoToken
                               /\ new[t].user = tokens[t].user
                               /\ new[t].login = tokens[t].login

LEMMA SameKeep == /\ UNCHANGED members => MembersKeep(members')
                  /\ UNCHANGED tokens => TokensKeep(tokens')
BY DEF MembersKeep, TokensKeep

LEMMA KnownStays ==
    ASSUME TypeOK, NEW new, MembersKeep(new), NEW org \in Orgs, Known(org, members)
    PROVE  Known(org, new)
<1>1. PICK m \in MemberIds : members[m].org = org
  BY DEF Known
<1>2. new[m].org = org
  BY <1>1, MemberFacts DEF MembersKeep
<1> QED BY <1>2 DEF Known

LEMMA SlotStays ==
    ASSUME TypeOK, NEW c \in Calls, SlotSound(call[c], members, tokens),
           NEW ms, NEW ts, MembersKeep(ms), TokensKeep(ts)
    PROVE  SlotSound(call[c], ms, ts)
<1> DEFINE s == call[c]
<1>1. s \in CallRows
  BY DEF TypeOK
<1> HIDE DEF s
<1>2. SlotSound(s, members, tokens)
  BY DEF s
<1>3. s.pc \in HandsOut => SessionSound(s, ms)
  BY <1>2, KnownStays DEF SlotSound, SessionSound, Session
<1>4. TokenSound(s, tokens) => TokenSound(s, ts)
  BY DEF TokenSound, Issued, TokensKeep
<1>5. s.pc \in Manages => ManagerSound(s, ms)
  BY <1>2, KnownStays DEF SlotSound, ManagerSound, Session
<1>6. s.pc \in {"count", "write"} => s.op.member \in MemberIds
  BY <1>2 DEF SlotSound, ManagerSound, Manages, TeamOperations
<1>7. s.pc \in {"count", "write"} =>
        ms[s.op.member] # NoMember /\ ms[s.op.member].org = s.as.org
  BY <1>2, <1>6 DEF SlotSound, MembersKeep
<1> QED BY <1>2, <1>3, <1>4, <1>5, <1>7 DEF SlotSound, s

LEMMA StorageStays ==
    ASSUME TypeOK, NEW u \in Users, StorageSound(u, access[u], refresh[u], members, tokens),
           NEW ms, NEW ts, MembersKeep(ms), TokensKeep(ts)
    PROVE  StorageSound(u, access[u], refresh[u], ms, ts)
<1>1. access[u] # NoAccess => Known(access[u].session.org, ms)
  BY KnownStays DEF StorageSound, TypeOK, AccessRows, Session
<1>2. refresh[u] # 0 => Issued(refresh[u], ts) /\ ts[refresh[u]].user = u
  BY DEF StorageSound, Issued, TokensKeep
<1> QED BY <1>1, <1>2 DEF StorageSound

LEMMA LoginsStay ==
    ASSUME IdentityInvariant, UNCHANGED tokens
    PROVE  \A t \in TokenIds : Issued(t, tokens') => Issued(tokens'[t].login, tokens')
BY DEF IdentityInvariant

-----------------------------------------------------------------------------
(* A request moves on.                                                     *)

LEMMA SlotMoves ==
    ASSUME IdentityInvariant, MembersKeep(members'), TokensKeep(tokens'),
           NEW c \in Calls, NEW h \in CallRows, call' = [call EXCEPT ![c] = h],
           SlotSound(h, members', tokens')
    PROVE  /\ call' \in [Calls -> CallRows]
           /\ \A d \in Calls : SlotSound(call'[d], members', tokens')
<1>1. TypeOK /\ \A d \in Calls : call'[d] = IF d = c THEN h ELSE call[d]
  BY DEF IdentityInvariant, TypeOK
<1>2. \A d \in Calls : SlotSound(call[d], members', tokens')
  BY SlotStays DEF IdentityInvariant
<1> QED BY <1>1, <1>2 DEF TypeOK

\* The browsers keep what they have.
LEMMA StorageKept ==
    ASSUME IdentityInvariant, MembersKeep(members'), TokensKeep(tokens'),
           UNCHANGED storage
    PROVE  /\ access' \in [Users -> AccessRows] /\ refresh' \in [Users -> 0..MaxTokens]
           /\ shown' \in [Users -> OrgRoles \cup {SignedOff}]
           /\ \A u \in Users : StorageSound(u, access'[u], refresh'[u], members', tokens')
BY StorageStays DEF IdentityInvariant, TypeOK, storage

\* Only the request moves, and a user row may be added.
LEMMA Quiet ==
    ASSUME IdentityInvariant, NEW c \in Calls, NEW h \in CallRows,
           call' = [call EXCEPT ![c] = h], SlotSound(h, members, tokens),
           users' \subseteq Users, UNCHANGED <<members, tokens, storage>>
    PROVE  IdentityInvariant'
<1>1. MembersKeep(members') /\ TokensKeep(tokens')
  BY SameKeep
<1>2. SlotSound(h, members', tokens')
  BY DEF SlotSound
<1> QED BY <1>1, <1>2, SlotMoves, StorageKept, LoginsStay DEF IdentityInvariant, TypeOK

LEMMA IdleIsSound ==
    Idle \in CallRows /\ \A ms, ts : SlotSound(Idle, ms, ts)
<1>1. 0 \in 0..MaxTokens
  BY IdentityAssumption
<1>2. Idle \in CallRows
  BY <1>1 DEF Idle, CallRows, PC
<1>3. Idle.pc = "idle"
  BY DEF Idle
<1> QED BY <1>2, <1>3 DEF SlotSound, HandsOut, Presents, Asks, Manages

LEMMA Holds ==
    ASSUME IdentityInvariant, NEW c \in Calls
    PROVE  /\ call[c] \in CallRows /\ SlotSound(call[c], members, tokens)
           /\ TypeOK
BY DEF IdentityInvariant, TypeOK

\* The session a browser presents.
LEMMA CallerFacts ==
    ASSUME IdentityInvariant, NEW u \in Users, Caller(u) # NoSession
    PROVE  Caller(u) \in Session /\ Known(Caller(u).org, members)
<1>1. access[u].fresh /\ Caller(u) = access[u].session
  BY DEF Caller
<1>2. access[u] \in [session : Session, fresh : BOOLEAN] /\ access[u] # NoAccess
  BY <1>1 DEF IdentityInvariant, TypeOK, AccessRows, NoAccess
<1> QED BY <1>1, <1>2 DEF IdentityInvariant, StorageSound

\* Where the guards let a request in.
LEMMA EntryFacts ==
    ASSUME NEW a \in Session, NEW op \in Operations
    PROVE  /\ Entry(a, op) \in {"idle", "add", "count", "write"}
           /\ Entry(a, op) # "idle" =>
                op \in TeamOperations /\ RoleHasPermission(a.role, "member.manage")
           /\ Entry(a, op) = "add" => op.kind = "add"
           /\ Entry(a, op) \in {"count", "write"} =>
                op.kind \in {"role", "remove"} /\ InOrganisation(op.member, a.org)
           /\ Entry(a, op) = "write" => ~LosesPrivilege(op)
<1>1. op.kind \in {"read", "report", "add", "role", "remove"}
  BY DEF Operations, Reads, TeamOperations
<1>2. op.kind \notin {"read", "report"} =>
        op \in TeamOperations /\ PermissionOf[op.kind] = "member.manage"
  BY <1>1 DEF Operations, Reads, PermissionOf
<1> QED BY <1>1, <1>2 DEF Entry

-----------------------------------------------------------------------------
(* Every step keeps IdentityInvariant.                                     *)

LEMMA InitSound == Init => IdentityInvariant
<1> SUFFICES ASSUME Init PROVE IdentityInvariant
  OBVIOUS
<1>1. 0 \in 0..MaxTokens
  BY IdentityAssumption
<1>2. TypeOK
  BY <1>1, IdleIsSound DEF Init, TypeOK, MemberRows, TokenRows, AccessRows
<1>3. \A c \in Calls : SlotSound(call[c], members, tokens)
  BY IdleIsSound DEF Init
<1>4. \A u \in Users : access[u] = NoAccess /\ refresh[u] = 0
  BY DEF Init
<1>5. \A t \in TokenIds : ~Issued(t, tokens)
  BY DEF Init, Issued
<1> QED BY <1>2, <1>3, <1>4, <1>5 DEF IdentityInvariant, StorageSound

\* A sign-in begins: the session that will be handed out.
LEMMA SignInSlot ==
    ASSUME NEW u \in Users, NEW session \in Session, session.user = u,
           NEW ms, NEW ts, Known(session.org, ms),
           NEW h, h = [Idle EXCEPT !.pc = "issue", !.user = u, !.session = session]
    PROVE  h \in CallRows /\ SlotSound(h, ms, ts)
<1>1. Idle \in CallRows
  BY IdleIsSound
<1>2. h \in CallRows
  BY <1>1 DEF CallRows, PC
<1>3. h.pc = "issue" /\ h.user = u /\ h.session = session /\ h.token = 0
  BY <1>1 DEF CallRows, Idle
<1> QED BY <1>2, <1>3 DEF SlotSound, SessionSound, HandsOut, Presents, Asks, Manages

LEMMA RegisterSound ==
    ASSUME IdentityInvariant, NEW c \in Calls, NEW u \in Users, NEW org \in Orgs,
           Register(c, u, org)
    PROVE  IdentityInvariant'
<1> DEFINE session == [user |-> u, org |-> org, role |-> "AGENCY_OWNER"]
           h == [Idle EXCEPT !.pc = "issue", !.user = u, !.session = session]
<1>1. TypeOK /\ NextMember \in MemberIds /\ members[NextMember] = NoMember
  BY NextMemberIsUnused DEF IdentityInvariant, Register
<1>2. session \in Session /\ session \in MemberRows
  BY DEF Session, MemberRows, OrgRoles
<1>3. /\ members' = [members EXCEPT ![NextMember] = session]
      /\ call' = [call EXCEPT ![c] = h]
      /\ users' = users \cup {u} /\ UNCHANGED <<tokens, storage>>
  BY DEF Register
<1>4. session.user = u /\ session.org = org /\ session # NoMember
  BY DEF NoMember, OrgRoles
<1> HIDE DEF session, h
<1>5. MembersKeep(members') /\ TokensKeep(tokens')
  BY <1>1, <1>3, SameKeep DEF MembersKeep, TypeOK
<1>6. Known(session.org, members')
  BY <1>1, <1>3 DEF Known, TypeOK
<1>7. h \in CallRows /\ SlotSound(h, members', tokens')
  BY <1>2, <1>4, <1>6, SignInSlot DEF h
<1> QED BY <1>1, <1>2, <1>3, <1>5, <1>7, SlotMoves, StorageKept, LoginsStay
    DEF IdentityInvariant, TypeOK

LEMMA LoginSound ==
    ASSUME IdentityInvariant, NEW c \in Calls, NEW u \in Users, Login(c, u)
    PROVE  IdentityInvariant'
<1> DEFINE h == [Idle EXCEPT !.pc = "issue", !.user = u, !.session = OldestSession(u)]
<1>1. TypeOK
  BY DEF IdentityInvariant
<1>2. /\ OldestSession(u) \in Session /\ OldestSession(u).user = u
      /\ Known(OldestSession(u).org, members)
  BY <1>1, OldestSessionType DEF Login
<1>3. h \in CallRows /\ SlotSound(h, members, tokens)
  BY <1>2, SignInSlot
<1>4. call' = [call EXCEPT ![c] = h] /\ UNCHANGED <<rows, tokens, storage>>
  BY DEF Login
<1> HIDE DEF h
<1> QED BY <1>1, <1>3, <1>4, Quiet DEF rows, TypeOK

LEMMA IssueSound ==
    ASSUME IdentityInvariant, NEW c \in Calls, Issue(c)
    PROVE  IdentityInvariant'
<1> DEFINE s == call[c]
           t == NextToken
           row == [user |-> s.session.user, status |-> "live",
                   login |-> IF s.token = 0 THEN t ELSE tokens[s.token].login]
           h == [s EXCEPT !.pc = IF s.token = 0 THEN "signed_in" ELSE "refreshed", !.token = t]
<1>1. /\ t \in TokenIds /\ tokens[t] = NoToken /\ TypeOK
      /\ s \in CallRows /\ s.pc = "issue" /\ SlotSound(s, members, tokens)
  BY NextTokenIsFresh, Holds DEF Issue
<1>2. /\ tokens' = [tokens EXCEPT ![t] = row]
      /\ UNCHANGED <<rows, storage>>
  BY DEF Issue
<1>3. call' = [call EXCEPT ![c] = h]
  BY <1>1 DEF Issue, TypeOK
<1>4. s.session \in Session /\ s.session.user = s.user /\ s.user \in Users
  BY <1>1 DEF SlotSound, SessionSound, HandsOut
<1>5. s.token # 0 => Issued(s.token, tokens) /\ s.op \in Operations
  BY <1>1 DEF SlotSound, TokenSound
<1>6. s.token # 0 => tokens[s.token].login \in TokenIds
                     /\ Issued(tokens[s.token].login, tokens)
  BY <1>1, <1>5, TokenFacts DEF IdentityInvariant, Issued
<1>7. row \in TokenRows /\ row.user = s.user /\ row # NoToken
  BY <1>1, <1>4, <1>6, IdentityAssumption DEF TokenRows, NoToken
<1>8. row.login = IF s.token = 0 THEN t ELSE tokens[s.token].login
  OBVIOUS
<1> HIDE DEF s, t, row
<1>9. h \in CallRows
  <2>1. t \in 0..MaxTokens
    BY <1>1, IdentityAssumption DEF TokenIds
  <2> QED BY <1>1, <2>1 DEF CallRows, PC
<1>10. /\ h.pc \in {"signed_in", "refreshed"} /\ (h.pc = "refreshed" => s.token # 0)
       /\ h.token = t /\ h.user = s.user /\ h.session = s.session /\ h.op = s.op
  BY <1>1 DEF CallRows
<1> HIDE DEF h
<1>11. MembersKeep(members') /\ TokensKeep(tokens')
  BY <1>1, <1>2, SameKeep DEF TokensKeep, TypeOK, rows
<1>12. tokens'[t] = row
  BY <1>1, <1>2 DEF TypeOK
<1>13. SlotSound(h, members', tokens')
  <2>1. TokenSound(h, tokens')
    BY <1>1, <1>7, <1>10, <1>12 DEF TokenSound, Issued
  <2>2. SessionSound(h, members')
    BY <1>1, <1>2, <1>10 DEF SlotSound, SessionSound, HandsOut, rows
  <2> QED BY <1>4, <1>5, <1>10, <2>1, <2>2
      DEF SlotSound, HandsOut, Presents, Asks, Manages
<1>14. \A x \in TokenIds : Issued(x, tokens') => Issued(tokens'[x].login, tokens')
  <2>1. \A x \in TokenIds : tokens'[x] = IF x = t THEN row ELSE tokens[x]
    BY <1>2 DEF IdentityInvariant, TypeOK
  <2>2. \A x : Issued(x, tokens) => Issued(x, tokens')
    BY <2>1, <1>7 DEF Issued
  <2>3. Issued(t, tokens')
    BY <1>1, <1>7, <1>12 DEF Issued
  <2>4. Issued(row.login, tokens')
    BY <1>6, <1>8, <2>2, <2>3
  <2>5. ASSUME NEW x \in TokenIds, Issued(x, tokens'), x # t
        PROVE  Issued(tokens'[x].login, tokens')
    <3>1. Issued(x, tokens)
      BY <2>1, <2>5 DEF Issued
    <3> QED BY <2>1, <2>2, <2>5, <3>1 DEF IdentityInvariant
  <2> QED BY <1>12, <2>4, <2>5
<1> QED BY <1>1, <1>2, <1>3, <1>7, <1>9, <1>11, <1>13, <1>14, SlotMoves, StorageKept
    DEF IdentityInvariant, TypeOK, rows

\* The browser stores what the request was handed.
LEMMA StoreSound ==
    ASSUME IdentityInvariant, NEW c \in Calls, call[c].pc \in {"signed_in", "refreshed"},
           Store(c), UNCHANGED <<members, tokens>>
    PROVE  /\ access' \in [Users -> AccessRows] /\ refresh' \in [Users -> 0..MaxTokens]
           /\ \A u \in Users : StorageSound(u, access'[u], refresh'[u], members', tokens')
<1> DEFINE u == call[c].user
           acc == [session |-> call[c].session, fresh |-> TRUE]
<1>1. TypeOK /\ SlotSound(call[c], members, tokens)
  BY Holds
<1>2. u \in Users /\ SessionSound(call[c], members) /\ TokenSound(call[c], tokens)
  BY <1>1 DEF SlotSound, HandsOut, Presents
<1>3. call[c].token \in 0..MaxTokens /\ acc \in AccessRows
  BY <1>2, IdentityAssumption DEF TokenSound, Issued, TokenIds, SessionSound, AccessRows
<1>4. access' = [access EXCEPT ![u] = acc] /\ refresh' = [refresh EXCEPT ![u] = call[c].token]
  BY DEF Store
<1>5. StorageSound(u, acc, call[c].token, members', tokens')
  BY <1>2 DEF StorageSound, SessionSound, TokenSound
<1> HIDE DEF u, acc
<1>6. \A v \in Users : /\ access'[v] = IF v = u THEN acc ELSE access[v]
                       /\ refresh'[v] = IF v = u THEN call[c].token ELSE refresh[v]
  BY <1>1, <1>4 DEF TypeOK
<1>7. \A v \in Users : StorageSound(v, access[v], refresh[v], members', tokens')
  BY DEF IdentityInvariant
<1> QED BY <1>1, <1>2, <1>3, <1>4, <1>5, <1>6, <1>7 DEF TypeOK

\* The browser forgets what it had, or part of it.
LEMMA ForgetSound ==
    ASSUME IdentityInvariant, NEW u \in Users, UNCHANGED <<members, tokens>>,
           access' \in {access, [access EXCEPT ![u] = NoAccess]},
           refresh' \in {refresh, [refresh EXCEPT ![u] = 0]}
    PROVE  /\ access' \in [Users -> AccessRows] /\ refresh' \in [Users -> 0..MaxTokens]
           /\ \A v \in Users : StorageSound(v, access'[v], refresh'[v], members', tokens')
<1>1. TypeOK /\ 0 \in 0..MaxTokens /\ NoAccess \in AccessRows
  BY IdentityAssumption DEF IdentityInvariant, AccessRows
<1>2. \A v \in Users : /\ access'[v] \in {access[v], NoAccess} /\ refresh'[v] \in {refresh[v], 0}
  BY <1>1 DEF TypeOK
<1>3. \A v \in Users : StorageSound(v, access[v], refresh[v], members', tokens')
  BY DEF IdentityInvariant
<1> QED BY <1>1, <1>2, <1>3 DEF TypeOK, StorageSound

\* The browser's storage changes, and the request moves on or ends.
LEMMA StorageMoves ==
    ASSUME IdentityInvariant, NEW c \in Calls, NEW h \in CallRows,
           call' = [call EXCEPT ![c] = h], SlotSound(h, members, tokens),
           UNCHANGED <<users, members, tokens>>,
           access' \in [Users -> AccessRows], refresh' \in [Users -> 0..MaxTokens],
           \A u \in Users : StorageSound(u, access'[u], refresh'[u], members', tokens'),
           shown' \in [Users -> OrgRoles \cup {SignedOff}]
    PROVE  IdentityInvariant'
<1>1. MembersKeep(members') /\ TokensKeep(tokens') /\ SlotSound(h, members', tokens')
  BY SameKeep
<1> QED BY <1>1, SlotMoves, LoginsStay DEF IdentityInvariant, TypeOK

LEMMA SignedInSound ==
    ASSUME IdentityInvariant, NEW c \in Calls, SignedIn(c)
    PROVE  IdentityInvariant'
<1>1. call[c].session \in Session /\ shown \in [Users -> OrgRoles \cup {SignedOff}]
  BY Holds DEF SignedIn, SlotSound, SessionSound, HandsOut, TypeOK
<1>2. shown' \in [Users -> OrgRoles \cup {SignedOff}]
  BY <1>1 DEF SignedIn, Session
<1> QED BY <1>2, StoreSound, StorageMoves, IdleIsSound DEF SignedIn, End, rows

LEMMA SignedOutSound ==
    ASSUME IdentityInvariant, NEW c \in Calls, call[c].pc # "idle", SignedOut(c)
    PROVE  IdentityInvariant'
<1>1. TypeOK /\ call[c].user \in Users
  BY Holds DEF SlotSound
<1> QED BY <1>1, ForgetSound, StorageMoves, IdleIsSound DEF SignedOut, End, rows, TypeOK

LEMMA DeniedSound ==
    ASSUME IdentityInvariant, NEW c \in Calls, Denied(c)
    PROVE  IdentityInvariant'
<1> DEFINE s == call[c]
           t == refresh[s.user]
           h == [s EXCEPT !.pc = "refresh", !.token = t]
<1>1. TypeOK /\ s \in CallRows /\ s.pc = "denied" /\ SlotSound(s, members, tokens)
  BY Holds DEF Denied
<1>2. s.user \in Users /\ s.op \in Operations /\ t \in 0..MaxTokens
  BY <1>1 DEF SlotSound, Asks, TypeOK
<1>3. CASE t = 0
  BY <1>1, <1>3, Quiet, IdleIsSound DEF Denied, End, rows, TypeOK
<1>4. CASE t # 0
  <2>1. Issued(t, tokens) /\ tokens[t].user = s.user
    BY <1>2, <1>4 DEF IdentityInvariant, StorageSound
  <2>2. call' = [call EXCEPT ![c] = h]
    BY <1>1, <1>4 DEF Denied, TypeOK
  <2> HIDE DEF s, t
  <2>3. h \in CallRows /\ h.pc = "refresh" /\ h.token = t /\ h.user = s.user /\ h.op = s.op
    BY <1>1, <1>2 DEF CallRows, PC
  <2> HIDE DEF h
  <2>4. SlotSound(h, members, tokens)
    BY <1>2, <2>1, <2>3 DEF SlotSound, TokenSound, HandsOut, Presents, Asks, Manages
  <2> QED BY <1>1, <2>2, <2>3, <2>4, Quiet DEF Denied, rows, TypeOK
<1> QED BY <1>3, <1>4

LEMMA RefreshSound ==
    ASSUME IdentityInvariant, NEW c \in Calls, Refresh(c)
    PROVE  IdentityInvariant'
<1> DEFINE s == call[c]
           session == OldestSession(s.user)
           h == [s EXCEPT !.pc = "rotate", !.session = session]
<1>1. TypeOK /\ s \in CallRows /\ s.pc = "refresh" /\ SlotSound(s, members, tokens)
  BY Holds DEF Refresh
<1>2. s.user \in Users /\ s.op \in Operations /\ TokenSound(s, tokens)
  BY <1>1 DEF SlotSound, Asks, Presents
<1>3. Memberships(s.user) # {}
  BY <1>2 DEF Refresh, Refreshable, TokenSound
<1>4. session \in Session /\ session.user = s.user /\ Known(session.org, members)
  BY <1>1, <1>2, <1>3, OldestSessionType
<1>5. call' = [call EXCEPT ![c] = h] /\ UNCHANGED <<rows, tokens, storage>>
  BY <1>1 DEF Refresh, TypeOK
<1> HIDE DEF s, session
<1>6. /\ h \in CallRows /\ h.pc = "rotate" /\ h.token = s.token /\ h.user = s.user
      /\ h.op = s.op /\ h.session = session
  BY <1>1, <1>4 DEF CallRows, PC
<1> HIDE DEF h
<1>7. SlotSound(h, members, tokens)
  BY <1>2, <1>4, <1>6
  DEF SlotSound, SessionSound, TokenSound, HandsOut, Presents, Asks, Manages
<1> QED BY <1>1, <1>5, <1>6, <1>7, Quiet DEF rows, TypeOK

\* A request goes on to the next await with what it holds.
LEMMA GotoSlot ==
    ASSUME TypeOK, NEW c \in Calls, NEW pc \in PC, Goto(c, pc),
           NEW h, h = [call[c] EXCEPT !.pc = pc]
    PROVE  /\ call' = [call EXCEPT ![c] = h] /\ h \in CallRows
           /\ h.pc = pc /\ h.user = call[c].user /\ h.op = call[c].op /\ h.as = call[c].as
           /\ h.token = call[c].token /\ h.session = call[c].session
<1>1. call[c] \in CallRows
  BY DEF TypeOK
<1>2. call' = [call EXCEPT ![c] = h]
  BY DEF Goto, TypeOK
<1> QED BY <1>1, <1>2 DEF CallRows

\* A token goes out of use; nothing else changes about it.
LEMMA TokenEnds ==
    ASSUME IdentityInvariant, NEW t, Issued(t, tokens), NEW status \in {"revoked", "expired"},
           tokens' = [tokens EXCEPT ![t].status = status]
    PROVE  /\ tokens' \in [TokenIds -> TokenRows]
           /\ TokensKeep(tokens')
           /\ \A x \in TokenIds : Issued(x, tokens') => Issued(tokens'[x].login, tokens')
<1> DEFINE row == [tokens[t] EXCEPT !.status = status]
<1>1. TypeOK /\ t \in TokenIds
  BY DEF IdentityInvariant, Issued
<1>2. tokens[t] \in [user : Users, status : {"live", "revoked", "expired"}, login : TokenIds]
  BY <1>1 DEF Issued, TypeOK, TokenRows
<1>3. tokens' = [tokens EXCEPT ![t] = row]
  BY <1>1 DEF TypeOK
<1>4. row \in TokenRows /\ row.user = tokens[t].user /\ row.login = tokens[t].login
  BY <1>2 DEF TokenRows
<1>5. row # NoToken
  BY <1>2, <1>4, IdentityAssumption DEF NoToken
<1> HIDE DEF row
<1>6. \A x \in TokenIds : tokens'[x] = IF x = t THEN row ELSE tokens[x]
  BY <1>1, <1>3 DEF TypeOK
<1>7. TokensKeep(tokens')
  BY <1>4, <1>5, <1>6 DEF TokensKeep
<1>8. \A x \in TokenIds : Issued(x, tokens') => Issued(tokens'[x].login, tokens')
  <2>1. \A x : Issued(x, tokens) => Issued(x, tokens')
    BY <1>7 DEF TokensKeep, Issued
  <2>2. ASSUME NEW x \in TokenIds, Issued(x, tokens')
        PROVE  Issued(x, tokens) /\ tokens'[x].login = tokens[x].login
    BY <1>4, <1>6, <2>2 DEF Issued
  <2> QED BY <2>1, <2>2 DEF IdentityInvariant
<1> QED BY <1>1, <1>3, <1>4, <1>7, <1>8 DEF TypeOK

LEMMA RotateSound ==
    ASSUME IdentityInvariant, NEW c \in Calls, Rotate(c)
    PROVE  IdentityInvariant'
<1> DEFINE h == [call[c] EXCEPT !.pc = "issue"]
<1>1. TypeOK /\ call[c].pc = "rotate" /\ SlotSound(call[c], members, tokens)
  BY Holds DEF Rotate
<1>2. /\ call[c].user \in Users /\ call[c].op \in Operations
      /\ TokenSound(call[c], tokens) /\ SessionSound(call[c], members)
  BY <1>1 DEF SlotSound, Asks, Presents, HandsOut
<1>3. /\ call' = [call EXCEPT ![c] = h] /\ h \in CallRows
      /\ h.pc = "issue" /\ h.user = call[c].user /\ h.op = call[c].op
      /\ h.token = call[c].token /\ h.session = call[c].session
  BY <1>1, GotoSlot DEF Rotate, PC
<1> HIDE DEF h
<1>4. /\ tokens' \in [TokenIds -> TokenRows] /\ TokensKeep(tokens')
      /\ \A x \in TokenIds : Issued(x, tokens') => Issued(tokens'[x].login, tokens')
  BY <1>2, TokenEnds DEF Rotate, TokenSound
<1>5. MembersKeep(members') /\ members' = members
  BY SameKeep DEF Rotate, rows
<1>6. TokenSound(h, tokens')
  BY <1>2, <1>3, <1>4 DEF TokenSound, Issued, TokensKeep
<1>7. SlotSound(h, members', tokens')
  BY <1>2, <1>3, <1>5, <1>6
  DEF SlotSound, SessionSound, HandsOut, Presents, Asks, Manages
<1> QED BY <1>1, <1>3, <1>4, <1>5, <1>7, SlotMoves, StorageKept
    DEF Rotate, rows, IdentityInvariant, TypeOK

LEMMA RefreshedSound ==
    ASSUME IdentityInvariant, NEW c \in Calls, Refreshed(c)
    PROVE  IdentityInvariant'
<1> DEFINE h == [call[c] EXCEPT !.pc = "retry"]
<1>1. TypeOK /\ call[c].pc = "refreshed" /\ SlotSound(call[c], members, tokens)
  BY Holds DEF Refreshed
<1>2. call[c].user \in Users /\ call[c].op \in Operations
  BY <1>1 DEF SlotSound, Asks
<1>3. /\ call' = [call EXCEPT ![c] = h] /\ h \in CallRows
      /\ h.pc = "retry" /\ h.user = call[c].user /\ h.op = call[c].op
  BY <1>1, GotoSlot DEF Refreshed, PC
<1> HIDE DEF h
<1>4. SlotSound(h, members, tokens)
  BY <1>2, <1>3 DEF SlotSound, HandsOut, Presents, Asks, Manages
<1> QED BY <1>1, <1>3, <1>4, StoreSound, StorageMoves DEF Refreshed, rows, TypeOK

\* A request as far as the API's first await.
LEMMA SendSound ==
    ASSUME IdentityInvariant, NEW c \in Calls, NEW u \in Users, NEW op \in Operations,
           NEW unauthorised \in {"idle", "denied"}, Send(c, u, op, unauthorised),
           UNCHANGED <<members, tokens, storage>>
    PROVE  IdentityInvariant'
<1> DEFINE a == Caller(u)
<1>1. TypeOK /\ Idle \in CallRows
  BY IdleIsSound DEF IdentityInvariant
<1>2. CASE a = NoSession
  <2> DEFINE h == [Idle EXCEPT !.pc = unauthorised,
                       !.user = IF unauthorised = "idle" THEN None ELSE u,
                       !.op = IF unauthorised = "idle" THEN NoOperation ELSE op]
  <2>1. call' = [call EXCEPT ![c] = h] /\ UNCHANGED users
    BY <1>2 DEF Send
  <2>2. h \in CallRows /\ h.pc = unauthorised
        /\ (unauthorised = "denied" => h.user = u /\ h.op = op)
    BY <1>1 DEF CallRows, PC
  <2> HIDE DEF h
  <2>3. SlotSound(h, members, tokens)
    BY <2>2 DEF SlotSound, HandsOut, Presents, Asks, Manages
  <2> QED BY <1>1, <2>1, <2>2, <2>3, Quiet DEF TypeOK
<1>3. CASE a # NoSession
  <2> DEFINE pc == Entry(a, op)
             h == [Idle EXCEPT !.pc = pc, !.user = u, !.op = op, !.as = a]
  <2>1. a \in Session /\ Known(a.org, members)
    BY <1>3, CallerFacts
  <2>2. /\ pc \in {"idle", "add", "count", "write"}
        /\ pc # "idle" => op \in TeamOperations /\ RoleHasPermission(a.role, "member.manage")
        /\ pc = "add" => op.kind = "add"
        /\ pc \in {"count", "write"} =>
              op.kind \in {"role", "remove"} /\ InOrganisation(op.member, a.org)
    BY <2>1, EntryFacts
  <2>3. users' = IF pc = "add" THEN users \cup {op.user} ELSE users
    BY <1>3 DEF Send
  <2>4. call' = [call EXCEPT ![c] = IF pc = "idle" THEN Idle ELSE h]
    BY <1>3 DEF Send
  <2> HIDE DEF a, pc
  <2>5. pc = "add" => op.user \in Users
    BY <2>2 DEF TeamOperations
  <2>6. /\ pc # "idle" => h \in CallRows
        /\ h.pc = pc /\ h.user = u /\ h.op = op /\ h.as = a
    BY <1>1, <2>1, <2>2 DEF CallRows, PC
  <2> HIDE DEF h
  <2>7. pc \in {"count", "write"} => members[op.member] # NoMember /\ members[op.member].org = a.org
    BY <1>1, <2>2, MemberFacts DEF InOrganisation, TeamOperations
  <2>8. pc # "idle" => SlotSound(h, members, tokens)
    BY <2>1, <2>2, <2>6, <2>7 DEF SlotSound, ManagerSound, HandsOut, Presents, Asks, Manages
  <2>9. users' \subseteq Users
    BY <1>1, <2>3, <2>5 DEF TypeOK
  <2>10. CASE pc = "idle"
    BY <2>4, <2>9, <2>10, IdleIsSound, Quiet
  <2>11. CASE pc # "idle"
    BY <2>4, <2>6, <2>8, <2>9, <2>11, Quiet
  <2> QED BY <2>10, <2>11
<1> QED BY <1>2, <1>3

\* One member row is written, in the organisation it belongs to, and the request ends.
LEMMA MemberWriteSound ==
    ASSUME IdentityInvariant, NEW c \in Calls, NEW m \in MemberIds,
           NEW row \in MemberRows, row # NoMember,
           members[m] # NoMember => row.org = members[m].org,
           members' = [members EXCEPT ![m] = row],
           End(c), UNCHANGED <<users, tokens, storage>>
    PROVE  IdentityInvariant'
<1>1. TypeOK /\ members' \in [MemberIds -> MemberRows]
  BY DEF IdentityInvariant, TypeOK
<1>2. MembersKeep(members') /\ TokensKeep(tokens')
  BY <1>1, SameKeep DEF MembersKeep, TypeOK
<1> QED BY <1>1, <1>2, IdleIsSound, SlotMoves, StorageKept, LoginsStay
    DEF End, IdentityInvariant, TypeOK

\* A request ends without a trace.
LEMMA EndSound ==
    ASSUME IdentityInvariant, NEW c \in Calls, End(c), UNCHANGED <<rows, tokens, storage>>
    PROVE  IdentityInvariant'
BY Quiet, IdleIsSound DEF End, rows, IdentityInvariant, TypeOK

LEMMA AddMemberSound ==
    ASSUME IdentityInvariant, NEW c \in Calls, AddMember(c)
    PROVE  IdentityInvariant'
<1> DEFINE op == call[c].op
           row == [user |-> op.user, org |-> call[c].as.org, role |-> op.role]
<1>1. op \in TeamOperations /\ op.kind = "add" /\ call[c].as \in Session
  BY Holds DEF AddMember, SlotSound, ManagerSound, Manages
<1>2. row \in MemberRows /\ row # NoMember
  BY <1>1, IdentityAssumption DEF TeamOperations, Session, MemberRows, NoMember
<1>3. CASE \E m \in Memberships(op.user) : members[m].org = call[c].as.org
  BY <1>3, EndSound DEF AddMember, rows
<1>4. CASE ~\E m \in Memberships(op.user) : members[m].org = call[c].as.org
  <2>1. NextMember \in MemberIds /\ members[NextMember] = NoMember
    BY <1>4, NextMemberIsUnused DEF AddMember
  <2>2. members' = [members EXCEPT ![NextMember] = row]
    BY <1>4 DEF AddMember
  <2> HIDE DEF row
  <2> QED BY <1>2, <2>1, <2>2, MemberWriteSound DEF AddMember
<1> QED BY <1>3, <1>4

\* What a write by id knows of its row.
LEMMA WriteFacts ==
    ASSUME IdentityInvariant, NEW c \in Calls, call[c].pc \in {"count", "write"}
    PROVE  /\ call[c].op \in TeamOperations /\ call[c].op.kind \in {"role", "remove"}
           /\ call[c].op.member \in MemberIds /\ call[c].as \in Session
           /\ members[call[c].op.member] \in
                [user : Users, org : Orgs, role : OrgRoles \cup {"REMOVED"}]
           /\ members[call[c].op.member].org = call[c].as.org
           /\ RoleHasPermission(call[c].as.role, "member.manage")
           /\ call[c].op.kind = "role" => call[c].op.role \in OrgRoles
<1>1. SlotSound(call[c], members, tokens) /\ TypeOK
  BY Holds
<1>2. /\ call[c].op \in TeamOperations /\ call[c].op.kind \in {"role", "remove"}
      /\ call[c].as \in Session /\ members[call[c].op.member] # NoMember
      /\ members[call[c].op.member].org = call[c].as.org
      /\ RoleHasPermission(call[c].as.role, "member.manage")
  BY <1>1 DEF SlotSound, ManagerSound, Manages
<1>3. /\ call[c].op.member \in MemberIds
      /\ call[c].op.kind = "role" => call[c].op.role \in OrgRoles
  BY <1>2, IdentityAssumption DEF TeamOperations
<1>4. members[call[c].op.member] \in MemberRows
  BY <1>1, <1>3, MemberFacts
<1> QED BY <1>2, <1>3, <1>4 DEF MemberRows

LEMMA UpdateMemberSound ==
    ASSUME IdentityInvariant, NEW c \in Calls, UpdateMember(c)
    PROVE  IdentityInvariant'
<1> DEFINE op == call[c].op
           row == [members[op.member] EXCEPT !.role = op.role]
<1>1. /\ op.member \in MemberIds /\ op.role \in OrgRoles
      /\ members[op.member] \in [user : Users, org : Orgs, role : OrgRoles \cup {"REMOVED"}]
  BY WriteFacts DEF UpdateMember
<1>2. CASE Exists(op.member)
  <2>1. members' = [members EXCEPT ![op.member] = row]
    BY <1>2 DEF UpdateMember, IdentityInvariant, TypeOK
  <2>2. row \in MemberRows /\ row.org = members[op.member].org /\ row # NoMember
    BY <1>1, IdentityAssumption DEF MemberRows, NoMember
  <2> HIDE DEF row
  <2> QED BY <1>1, <2>1, <2>2, MemberWriteSound DEF UpdateMember
<1>3. CASE ~Exists(op.member)
  BY <1>3, EndSound DEF UpdateMember, rows
<1> QED BY <1>2, <1>3

LEMMA RemoveMemberSound ==
    ASSUME IdentityInvariant, NEW c \in Calls, RemoveMember(c)
    PROVE  IdentityInvariant'
<1> DEFINE m == call[c].op.member
           row == [members[m] EXCEPT !.role = "REMOVED"]
<1>1. /\ m \in MemberIds
      /\ members[m] \in [user : Users, org : Orgs, role : OrgRoles \cup {"REMOVED"}]
  BY WriteFacts DEF RemoveMember
<1>2. CASE Exists(m)
  <2>1. members' = [members EXCEPT ![m] = row]
    BY <1>2 DEF RemoveMember, IdentityInvariant, TypeOK
  <2>2. row \in MemberRows /\ row.org = members[m].org /\ row # NoMember
    BY <1>1, IdentityAssumption DEF MemberRows, NoMember
  <2> HIDE DEF row
  <2> QED BY <1>1, <2>1, <2>2, MemberWriteSound DEF RemoveMember
<1>3. CASE ~Exists(m)
  BY <1>3, EndSound DEF RemoveMember, rows
<1> QED BY <1>2, <1>3

LEMMA CountSound ==
    ASSUME IdentityInvariant, NEW c \in Calls, AssertNotLastPrivileged(c)
    PROVE  IdentityInvariant'
<1> DEFINE h == [call[c] EXCEPT !.pc = "write"]
<1>1. TypeOK /\ call[c].pc = "count" /\ SlotSound(call[c], members, tokens)
  BY Holds DEF AssertNotLastPrivileged
<1>2. CASE End(c)
  BY <1>2, EndSound DEF AssertNotLastPrivileged
<1>3. CASE Goto(c, "write")
  <2>1. /\ call' = [call EXCEPT ![c] = h] /\ h \in CallRows /\ h.pc = "write"
        /\ h.user = call[c].user /\ h.op = call[c].op /\ h.as = call[c].as
    BY <1>1, <1>3, GotoSlot DEF PC
  <2> HIDE DEF h
  <2>2. SlotSound(h, members, tokens)
    BY <1>1, <2>1 DEF SlotSound, ManagerSound, HandsOut, Presents, Asks, Manages
  <2> QED BY <1>1, <2>1, <2>2, Quiet DEF AssertNotLastPrivileged, rows, TypeOK
<1> QED BY <1>2, <1>3 DEF AssertNotLastPrivileged

\* The requests stay where they are.
LEMMA NoRequestMoves ==
    ASSUME IdentityInvariant, UNCHANGED <<users, members, call>>, TokensKeep(tokens'),
           tokens' \in [TokenIds -> TokenRows],
           \A t \in TokenIds : Issued(t, tokens') => Issued(tokens'[t].login, tokens'),
           access' \in [Users -> AccessRows], refresh' \in [Users -> 0..MaxTokens],
           \A u \in Users : StorageSound(u, access'[u], refresh'[u], members', tokens'),
           shown' \in [Users -> OrgRoles \cup {SignedOff}]
    PROVE  IdentityInvariant'
<1>1. MembersKeep(members') /\ TypeOK
  BY SameKeep DEF IdentityInvariant
<1>2. \A c \in Calls : SlotSound(call[c], members', tokens')
  BY <1>1, SlotStays DEF IdentityInvariant
<1> QED BY <1>1, <1>2 DEF IdentityInvariant, TypeOK

LEMMA BrowserSound ==
    ASSUME IdentityInvariant, NEW u \in Users, LogOut(u) \/ AccessExpires(u)
    PROVE  IdentityInvariant'
<1>1. TypeOK /\ TokensKeep(tokens') /\ UNCHANGED <<users, members, tokens, call>>
  BY SameKeep DEF IdentityInvariant, LogOut, AccessExpires, rows
<1>2. CASE LogOut(u)
  BY <1>1, <1>2, ForgetSound, LoginsStay, NoRequestMoves DEF LogOut, TypeOK
<1>3. CASE AccessExpires(u)
  <2> DEFINE acc == [access[u] EXCEPT !.fresh = FALSE]
  <2>1. access[u] \in [session : Session, fresh : BOOLEAN] /\ access[u] # NoAccess
    BY <1>1, <1>3 DEF AccessExpires, TypeOK, AccessRows, NoAccess
  <2>2. access' = [access EXCEPT ![u] = acc]
    BY <1>1, <1>3 DEF AccessExpires, TypeOK
  <2>3. acc \in AccessRows /\ acc.session = access[u].session
    BY <2>1 DEF AccessRows
  <2> HIDE DEF acc
  <2>4. \A v \in Users : access'[v] = IF v = u THEN acc ELSE access[v]
    BY <1>1, <2>2 DEF TypeOK
  <2>5. \A v \in Users : StorageSound(v, access'[v], refresh[v], members, tokens)
    BY <2>1, <2>3, <2>4 DEF IdentityInvariant, StorageSound
  <2>6. access' \in [Users -> AccessRows] /\ UNCHANGED <<refresh, shown>>
    BY <1>1, <1>3, <2>2, <2>3 DEF AccessExpires, TypeOK
  <2>7. \A v \in Users : StorageSound(v, access'[v], refresh'[v], members', tokens')
    BY <1>1, <2>5, <2>6
  <2> QED BY <1>1, <2>6, <2>7, LoginsStay, NoRequestMoves DEF TypeOK
<1> QED BY <1>2, <1>3

LEMMA TokenStepSound ==
    ASSUME IdentityInvariant, NEW t \in TokenIds, Logout(t) \/ TokenExpires(t)
    PROVE  IdentityInvariant'
<1>1. Issued(t, tokens)
  BY TokenFacts DEF Logout, TokenExpires, IdentityInvariant
<1>2. PICK status \in {"revoked", "expired"} : tokens' = [tokens EXCEPT ![t].status = status]
  BY DEF Logout, TokenExpires
<1>3. /\ tokens' \in [TokenIds -> TokenRows] /\ TokensKeep(tokens')
      /\ \A x \in TokenIds : Issued(x, tokens') => Issued(tokens'[x].login, tokens')
  BY <1>1, <1>2, TokenEnds
<1>4. UNCHANGED <<rows, storage, call>> /\ MembersKeep(members')
  BY SameKeep DEF Logout, TokenExpires, rows
<1> QED BY <1>3, <1>4, StorageKept, NoRequestMoves DEF rows

LEMMA AskSound ==
    ASSUME IdentityInvariant, NEW c \in Calls, NEW u \in Users, NEW op \in Operations,
           Load(c, u, op) \/ TeamPage(c, u, op)
    PROVE  IdentityInvariant'
BY SendSound DEF Load, TeamPage

LEMMA RetrySound ==
    ASSUME IdentityInvariant, NEW c \in Calls, Retry(c)
    PROVE  IdentityInvariant'
<1>1. call[c].user \in Users /\ call[c].op \in Operations
  BY Holds DEF Retry, SlotSound, Asks
<1> QED BY <1>1, SendSound DEF Retry

LEMMA ServeSound ==
    ASSUME IdentityInvariant, NEW c \in Calls, Serve(c)
    PROVE  IdentityInvariant'
<1>1. CASE RefreshRefused(c)
  BY <1>1, SignedOutSound DEF RefreshRefused
<1> QED BY <1>1, IssueSound, SignedInSound, DeniedSound, RefreshSound, RotateSound,
           RefreshedSound, RetrySound, AddMemberSound, CountSound, UpdateMemberSound,
           RemoveMemberSound DEF Serve

LEMMA LostSound ==
    ASSUME IdentityInvariant, NEW c \in Calls, Lost(c)
    PROVE  IdentityInvariant'
BY SignedOutSound, EndSound DEF Lost

LEMMA StepSound == IdentityInvariant /\ [Next]_vars => IdentityInvariant'
<1> SUFFICES ASSUME IdentityInvariant, [Next]_vars PROVE IdentityInvariant'
  OBVIOUS
<1>1. CASE UNCHANGED vars
  <2>1. TokensKeep(tokens') /\ UNCHANGED <<users, members, tokens, storage, call>>
    BY <1>1, SameKeep DEF vars, storage
  <2> QED BY <2>1, SameKeep, StorageKept, LoginsStay, NoRequestMoves
          DEF IdentityInvariant, TypeOK
<1>2. ASSUME NEW c \in Calls, NEW u \in Users,
             \/ \E org \in Orgs : Register(c, u, org)
             \/ Login(c, u)
             \/ \E op \in Reads : Load(c, u, op)
             \/ \E op \in TeamOperations : TeamPage(c, u, op)
      PROVE  IdentityInvariant'
  BY <1>2, RegisterSound, LoginSound, AskSound DEF Operations
<1> QED BY <1>1, <1>2, ServeSound, LostSound, BrowserSound, TokenStepSound DEF Next

LEMMA IdentityInvariantAlways == Spec => []IdentityInvariant
BY InitSound, StepSound, PTL DEF Spec

\* The rows, the browsers' storages and the requests in progress have their types,
\* for any number of users, organisations, rows, tokens and requests.
THEOREM IdentityTypes == Spec => []TypeOK
<1>1. IdentityInvariant => TypeOK
  BY DEF IdentityInvariant
<1> QED BY <1>1, IdentityInvariantAlways, PTL

-----------------------------------------------------------------------------
(* Who may change a member row.                                            *)

LEMMA MemberWriters ==
    ASSUME [Next]_vars
    PROVE  \/ UNCHANGED members
           \/ \E c \in Calls : \/ AddMember(c) \/ UpdateMember(c) \/ RemoveMember(c)
                               \/ \E u \in Users, org \in Orgs : Register(c, u, org)
<1>1. ASSUME NEW c \in Calls, Serve(c), ~AddMember(c), ~UpdateMember(c), ~RemoveMember(c)
      PROVE  UNCHANGED members
  BY <1>1 DEF Serve, Issue, SignedIn, Denied, Refresh, RefreshRefused, SignedOut, Rotate,
     Refreshed, Retry, AssertNotLastPrivileged, rows
<1>2. ASSUME NEW c \in Calls, NEW u \in Users,
             \/ Login(c, u)
             \/ \E op \in Reads : Load(c, u, op)
             \/ \E op \in TeamOperations : TeamPage(c, u, op)
      PROVE  UNCHANGED members
  BY <1>2 DEF Login, Load, TeamPage, rows
<1>3. ASSUME NEW c \in Calls, Lost(c) PROVE UNCHANGED members
  BY <1>3 DEF Lost, SignedOut, rows
<1>4. ASSUME NEW u \in Users, LogOut(u) \/ AccessExpires(u) PROVE UNCHANGED members
  BY <1>4 DEF LogOut, AccessExpires, rows
<1>5. ASSUME NEW t \in TokenIds, Logout(t) \/ TokenExpires(t) PROVE UNCHANGED members
  BY <1>5 DEF Logout, TokenExpires, rows
<1>6. CASE UNCHANGED vars
  BY <1>6 DEF vars
<1> QED BY <1>1, <1>2, <1>3, <1>4, <1>5, <1>6 DEF Next

LEMMA RowWrittenById ==
    ASSUME IdentityInvariant, [Next]_vars, NEW m \in MemberIds,
           members[m] # NoMember, members'[m] # members[m]
    PROVE  \E c \in Calls : call[c].pc = "write" /\ call[c].op.member = m
<1>1. TypeOK
  BY DEF IdentityInvariant
<1>2. ASSUME NEW c \in Calls, NEW u \in Users, NEW org \in Orgs, Register(c, u, org)
      PROVE  FALSE
  BY <1>1, <1>2, NextMemberIsUnused DEF Register, TypeOK
<1>3. ASSUME NEW c \in Calls, AddMember(c) PROVE FALSE
  BY <1>1, <1>3, NextMemberIsUnused DEF AddMember, TypeOK
<1>4. ASSUME NEW c \in Calls, UpdateMember(c) \/ RemoveMember(c)
      PROVE  call[c].pc = "write" /\ call[c].op.member = m
  BY <1>1, <1>4, WriteFacts DEF UpdateMember, RemoveMember, TypeOK
<1> QED BY <1>2, <1>3, <1>4, MemberWriters

\* A member row changes only by a request whose caller was signed in to the row's own
\* organisation with member.manage, however requests, expiries and lost answers cross.
THEOREM OnlyManagersAlways == Spec => OnlyManagersOfTheOrganisation
<1>1. ASSUME IdentityInvariant, [Next]_vars
      PROVE  [\A m \in MemberIds : members[m] # NoMember /\ members'[m] # members[m] =>
                \E c \in Calls :
                    /\ call[c].pc = "write"
                    /\ call[c].as.org = members[m].org
                    /\ RoleHasPermission(call[c].as.role, "member.manage")]_vars
  <2>1. ASSUME Next, NEW m \in MemberIds, members[m] # NoMember, members'[m] # members[m]
        PROVE  \E c \in Calls :
                    /\ call[c].pc = "write"
                    /\ call[c].as.org = members[m].org
                    /\ RoleHasPermission(call[c].as.role, "member.manage")
    <3>1. PICK c \in Calls : call[c].pc = "write" /\ call[c].op.member = m
      BY <1>1, <2>1, RowWrittenById
    <3> QED BY <1>1, <3>1, WriteFacts
  <2> QED BY <1>1, <2>1
<1> QED BY <1>1, IdentityInvariantAlways, PTL DEF Spec, OnlyManagersOfTheOrganisation

-----------------------------------------------------------------------------
(* One request at a time: somebody remains who can administer.             *)

\* Rows of other members stay what they are, so their organisation keeps its administrator.
LEMMA OthersKeep ==
    ASSUME IdentityInvariant, PrivilegedRemains, NEW k \in MemberIds, NEW row \in MemberRows,
           members' = [members EXCEPT ![k] = row], row # NoMember,
           members[k] # NoMember => row.org = members[k].org,
           \/ row.role \in PRIVILEGED
           \/ OtherPrivileged(row.org, k)
    PROVE  PrivilegedRemains'
<1>1. \A m \in MemberIds : members'[m] = IF m = k THEN row ELSE members[m]
  BY DEF IdentityInvariant, TypeOK
<1>2. PRIVILEGED \subseteq OrgRoles
  BY DEF PRIVILEGED, OrgRoles
<1>3. \E n \in MemberIds : members'[n].org = row.org /\ members'[n].role \in PRIVILEGED
  BY <1>1 DEF OtherPrivileged, InOrganisation
<1>4. ASSUME NEW m \in MemberIds, m # k, members[m] # NoMember
      PROVE  \E n \in MemberIds : members'[n].org = members[m].org
                                 /\ members'[n].role \in PRIVILEGED
  <2>1. PICK n \in MemberIds : members[n].org = members[m].org /\ members[n].role \in PRIVILEGED
    BY <1>4 DEF PrivilegedRemains, InOrganisation
  <2>2. CASE n # k
    BY <1>1, <2>1, <2>2
  <2>3. CASE n = k
    <3>1. members[k] # NoMember
      BY <2>1, <2>3 DEF NoMember, PRIVILEGED
    <3> QED BY <1>3, <2>1, <2>3, <3>1
  <2> QED BY <2>2, <2>3
<1>5. \A m \in MemberIds : members'[m] # NoMember =>
        \E n \in MemberIds : /\ members'[n].org = members'[m].org
                             /\ members'[n].role \in PRIVILEGED
  BY <1>1, <1>3, <1>4
<1> QED BY <1>2, <1>5 DEF PrivilegedRemains, InOrganisation, Exists

LEMMA SameMembersRemain ==
    ASSUME PrivilegedRemains, UNCHANGED members
    PROVE  PrivilegedRemains'
BY DEF PrivilegedRemains, InOrganisation, Exists

LEMMA RegisterRemains ==
    ASSUME IdentityInvariant, PrivilegedRemains, NEW c \in Calls, NEW u \in Users,
           NEW org \in Orgs, Register(c, u, org)
    PROVE  PrivilegedRemains'
<1> DEFINE row == [user |-> u, org |-> org, role |-> "AGENCY_OWNER"]
<1>1. /\ row \in MemberRows /\ row # NoMember /\ row.role \in PRIVILEGED
  BY DEF MemberRows, NoMember, OrgRoles, PRIVILEGED
<1>2. NextMember \in MemberIds /\ members[NextMember] = NoMember
  BY NextMemberIsUnused DEF Register
<1>3. members' = [members EXCEPT ![NextMember] = row]
  BY DEF Register
<1> HIDE DEF row
<1> QED BY <1>1, <1>2, <1>3, OthersKeep

\* A new colleague joins an organisation that has its administrator.
LEMMA AddMemberRemains ==
    ASSUME IdentityInvariant, PrivilegedRemains, NEW c \in Calls, AddMember(c)
    PROVE  PrivilegedRemains'
<1> DEFINE op == call[c].op
           row == [user |-> op.user, org |-> call[c].as.org, role |-> op.role]
<1>1. /\ op \in TeamOperations /\ op.kind = "add" /\ call[c].as \in Session
      /\ Known(call[c].as.org, members)
  BY Holds DEF AddMember, SlotSound, ManagerSound, Manages
<1>2. row \in MemberRows /\ row # NoMember /\ row.org = call[c].as.org
  BY <1>1, IdentityAssumption DEF TeamOperations, Session, MemberRows, NoMember
<1>3. CASE UNCHANGED members
  BY <1>3, SameMembersRemain
<1>4. CASE Unused # {} /\ members' = [members EXCEPT ![NextMember] = row]
  <2>1. NextMember \in MemberIds /\ members[NextMember] = NoMember
    BY <1>4, NextMemberIsUnused
  <2>2. PICK m \in MemberIds : members[m].org = call[c].as.org
    BY <1>1 DEF Known
  <2>3. members[m] # NoMember
    BY <1>1, <2>2, MemberFacts DEF Session, IdentityInvariant
  <2>4. PICK n \in MemberIds : InOrganisation(n, call[c].as.org) /\ members[n].role \in PRIVILEGED
    BY <2>2, <2>3 DEF PrivilegedRemains
  <2>5. n # NextMember
    BY <2>1, <2>4 DEF PRIVILEGED, NoMember
  <2>6. OtherPrivileged(row.org, NextMember)
    BY <1>2, <2>4, <2>5 DEF OtherPrivileged
  <2> HIDE DEF row
  <2> QED BY <1>2, <1>4, <2>1, <2>6, OthersKeep
<1> QED BY <1>3, <1>4 DEF AddMember

\* The write of a member who keeps the power, never had it, or leaves another behind.
LEMMA WriteRemains ==
    ASSUME IdentityInvariant, PrivilegedRemains, NEW c \in Calls, ReadsHold(call[c]),
           UpdateMember(c) \/ RemoveMember(c)
    PROVE  PrivilegedRemains'
<1> DEFINE op == call[c].op
           x == op.member
           role == IF op.kind = "role" THEN op.role ELSE "REMOVED"
           row == [members[x] EXCEPT !.role = role]
<1>1. /\ call[c].pc = "write" /\ op.kind \in {"role", "remove"} /\ x \in MemberIds
      /\ members[x] \in [user : Users, org : Orgs, role : OrgRoles \cup {"REMOVED"}]
      /\ members[x].org = call[c].as.org
      /\ op.kind = "role" => op.role \in OrgRoles
  BY WriteFacts DEF UpdateMember, RemoveMember
<1>2. CASE UNCHANGED members
  BY <1>2, SameMembersRemain
<1>3. CASE ~UNCHANGED members
  <2>1. members' = [members EXCEPT ![x] = row]
    BY <1>1, <1>3 DEF UpdateMember, RemoveMember, IdentityInvariant, TypeOK
  <2>2. /\ row \in MemberRows /\ row.org = members[x].org /\ row.role = role
        /\ row # NoMember
    BY <1>1, IdentityAssumption DEF MemberRows, NoMember
  <2>3. row.role \in PRIVILEGED \/ OtherPrivileged(row.org, x)
    <3>1. CASE LosesPrivilege(op)
      BY <1>1, <2>2, <3>1 DEF ReadsHold
    <3>2. CASE ~LosesPrivilege(op) /\ members[x].role \in PRIVILEGED
      BY <1>1, <2>2, <3>2 DEF LosesPrivilege
    <3>3. CASE members[x].role \notin PRIVILEGED
      <4>1. members[x] # NoMember
        BY <1>1, IdentityAssumption DEF NoMember
      <4> QED BY <1>1, <2>2, <3>3, <4>1 DEF PrivilegedRemains, OtherPrivileged
    <3> QED BY <3>1, <3>2, <3>3
  <2> HIDE DEF row
  <2> QED BY <1>1, <2>1, <2>2, <2>3, OthersKeep
<1> QED BY <1>2, <1>3

LEMMA StepRemains ==
    ASSUME SerialInvariant, [Next]_vars
    PROVE  PrivilegedRemains'
BY MemberWriters, SameMembersRemain, RegisterRemains, AddMemberRemains, WriteRemains
DEF SerialInvariant

-----------------------------------------------------------------------------
(* One request at a time: of a sign-in's tokens one is valid.              *)

LEMMA SameTokensOneLive ==
    ASSUME OneLivePerLogin, UNCHANGED tokens
    PROVE  OneLivePerLogin'
BY DEF OneLivePerLogin

\* A token that ends leaves those that are valid.
LEMMA EndedToken ==
    ASSUME IdentityInvariant, NEW t \in TokenIds, NEW status \in {"revoked", "expired"},
           tokens' = [tokens EXCEPT ![t].status = status]
    PROVE  /\ \A x \in TokenIds : tokens'[x].status = "live" =>
                x # t /\ tokens'[x] = tokens[x]
           /\ \A x \in TokenIds : tokens'[x].login = tokens[x].login
<1>1. TypeOK
  BY DEF IdentityInvariant
<1>2. \A x \in TokenIds : x # t => tokens'[x] = tokens[x]
  BY <1>1 DEF TypeOK
<1>3. tokens'[t] = [tokens[t] EXCEPT !.status = status]
  BY <1>1 DEF TypeOK
<1>4. tokens[t] \in TokenRows
  BY <1>1 DEF TypeOK
<1>5. tokens'[t].status = status /\ tokens'[t].login = tokens[t].login
  BY <1>3, <1>4 DEF TokenRows, NoToken
<1> QED BY <1>2, <1>5

LEMMA EndedTokenOneLive ==
    ASSUME IdentityInvariant, OneLivePerLogin, NEW t \in TokenIds,
           NEW status \in {"revoked", "expired"},
           tokens' = [tokens EXCEPT ![t].status = status]
    PROVE  OneLivePerLogin'
BY EndedToken DEF OneLivePerLogin

LEMMA IssueOneLive ==
    ASSUME IdentityInvariant, OneLivePerLogin, NEW c \in Calls, ReadsHold(call[c]), Issue(c)
    PROVE  OneLivePerLogin'
<1> DEFINE s == call[c]
           t == NextToken
           row == [user |-> s.session.user, status |-> "live",
                   login |-> IF s.token = 0 THEN t ELSE tokens[s.token].login]
<1>1. t \in TokenIds /\ tokens[t] = NoToken /\ s.pc = "issue" /\ TypeOK
  BY NextTokenIsFresh DEF Issue, IdentityInvariant
<1>2. tokens' = [tokens EXCEPT ![t] = row]
  BY DEF Issue
<1>3. \A x \in TokenIds : tokens'[x] = IF x = t THEN row ELSE tokens[x]
  BY <1>1, <1>2 DEF TypeOK
<1>4. \A x \in TokenIds : x # t /\ tokens[x].status = "live" => tokens[x].login # row.login
  <2>1. CASE s.token = 0
    <3>1. row.login = t
      BY <2>1
    <3>2. ASSUME NEW x \in TokenIds, tokens[x].status = "live" PROVE tokens[x].login # t
      <4>1. Issued(tokens[x].login, tokens)
        BY <1>1, <3>2, TokenFacts DEF IdentityInvariant
      <4> QED BY <1>1, <4>1 DEF Issued
    <3> QED BY <3>1, <3>2
  <2>2. CASE s.token # 0
    <3>1. row.login = tokens[s.token].login /\ Live(tokens[s.token].login) = {}
      BY <1>1, <2>2 DEF ReadsHold
    <3> QED BY <3>1 DEF Live
  <2> QED BY <2>1, <2>2
<1> HIDE DEF t, row
<1> QED BY <1>3, <1>4 DEF OneLivePerLogin

LEMMA TokenWriters ==
    ASSUME IdentityInvariant, [Next]_vars
    PROVE  \/ UNCHANGED tokens
           \/ \E c \in Calls : Issue(c)
           \/ \E c \in Calls : /\ Rotate(c) /\ call[c].token \in TokenIds
                               /\ tokens' = [tokens EXCEPT ![call[c].token].status = "revoked"]
           \/ \E t \in TokenIds, status \in {"revoked", "expired"} :
                /\ tokens' = [tokens EXCEPT ![t].status = status]
                /\ UNCHANGED <<members, storage, call>>
<1>1. ASSUME NEW c \in Calls, Serve(c), ~Issue(c), ~Rotate(c)
      PROVE  UNCHANGED tokens
  BY <1>1 DEF Serve, SignedIn, Denied, Refresh, RefreshRefused, SignedOut, Refreshed, Retry,
     AddMember, AssertNotLastPrivileged, UpdateMember, RemoveMember
<1>2. ASSUME NEW c \in Calls, Rotate(c)
      PROVE  /\ call[c].token \in TokenIds
             /\ tokens' = [tokens EXCEPT ![call[c].token].status = "revoked"]
  BY <1>2, Holds DEF Rotate, SlotSound, TokenSound, Issued, Presents
<1>3. ASSUME NEW c \in Calls, NEW u \in Users,
             \/ \E org \in Orgs : Register(c, u, org)
             \/ Login(c, u)
             \/ \E op \in Reads : Load(c, u, op)
             \/ \E op \in TeamOperations : TeamPage(c, u, op)
      PROVE  UNCHANGED tokens
  BY <1>3 DEF Register, Login, Load, TeamPage
<1>4. ASSUME NEW c \in Calls, Lost(c) PROVE UNCHANGED tokens
  BY <1>4 DEF Lost, SignedOut
<1>5. ASSUME NEW u \in Users, LogOut(u) \/ AccessExpires(u) PROVE UNCHANGED tokens
  BY <1>5 DEF LogOut, AccessExpires
<1>6. ASSUME NEW t \in TokenIds, Logout(t) \/ TokenExpires(t)
      PROVE  /\ \E status \in {"revoked", "expired"} : tokens' = [tokens EXCEPT ![t].status = status]
             /\ UNCHANGED <<members, storage, call>>
  BY <1>6 DEF Logout, TokenExpires, rows
<1>7. CASE UNCHANGED vars
  BY <1>7 DEF vars
<1> QED BY <1>1, <1>2, <1>3, <1>4, <1>5, <1>6, <1>7 DEF Next

LEMMA StepOneLive ==
    ASSUME SerialInvariant, [Next]_vars
    PROVE  OneLivePerLogin'
BY TokenWriters, SameTokensOneLive, IssueOneLive, EndedTokenOneLive DEF SerialInvariant

-----------------------------------------------------------------------------
(* One request at a time: what was read still holds when it is acted on.   *)

LEMMA ReadsAtRest ==
    ASSUME NEW c \in Calls,
           \/ call'[c].pc \notin {"write", "refresh", "rotate", "issue"}
           \/ call'[c].pc = "issue" /\ call'[c].token = 0
    PROVE  ReadsHold(call[c])'
BY DEF ReadsHold

LEMMA EndReads ==
    ASSUME IdentityInvariant, NEW c \in Calls, End(c)
    PROVE  ReadsHold(call[c])'
<1>1. call'[c].pc = "idle"
  BY DEF End, Idle, IdentityInvariant, TypeOK
<1> QED BY <1>1, ReadsAtRest

LEMMA SignInReads ==
    ASSUME IdentityInvariant, NEW c \in Calls, NEW u \in Users,
           Login(c, u) \/ \E org \in Orgs : Register(c, u, org)
    PROVE  ReadsHold(call[c])'
<1>1. PICK session :
        call' = [call EXCEPT ![c] = [Idle EXCEPT !.pc = "issue", !.user = u, !.session = session]]
  BY DEF Login, Register
<1>2. call'[c].pc = "issue" /\ call'[c].token = 0
  BY <1>1 DEF Idle, IdentityInvariant, TypeOK
<1> QED BY <1>2, ReadsAtRest

LEMMA SendReads ==
    ASSUME IdentityInvariant, NEW c \in Calls, NEW u \in Users, NEW op \in Operations,
           NEW unauthorised \in {"idle", "denied"}, Send(c, u, op, unauthorised),
           UNCHANGED members
    PROVE  ReadsHold(call[c])'
<1> DEFINE a == Caller(u)
<1>1. TypeOK
  BY DEF IdentityInvariant
<1>2. CASE a = NoSession
  <2>1. call'[c].pc = unauthorised
    BY <1>1, <1>2 DEF Send, Idle, TypeOK
  <2> QED BY <2>1, ReadsAtRest
<1>3. CASE a # NoSession
  <2>1. a \in Session
    BY <1>3, CallerFacts
  <2>2. /\ call'[c].pc = Entry(a, op)
        /\ Entry(a, op) # "idle" => call'[c].op = op
    <3> DEFINE pc == Entry(a, op)
               h == [Idle EXCEPT !.pc = pc, !.user = u, !.op = op, !.as = a]
    <3>1. call' = [call EXCEPT ![c] = IF pc = "idle" THEN Idle ELSE h]
      BY <1>3 DEF Send
    <3>2. h.pc = pc /\ h.op = op /\ Idle.pc = "idle"
      BY DEF Idle
    <3> HIDE DEF pc, h
    <3>3. call'[c].pc = pc /\ (pc # "idle" => call'[c].op = op)
      BY <1>1, <3>1, <3>2 DEF TypeOK
    <3> QED BY <3>3 DEF pc
  <2>3. /\ Entry(a, op) \in {"idle", "add", "count", "write"}
        /\ Entry(a, op) = "write" => ~LosesPrivilege(op)
    BY <2>1, EntryFacts
  <2>4. call'[c].pc = "write" => ~LosesPrivilege(call[c].op)'
    BY <2>2, <2>3 DEF LosesPrivilege
  <2> QED BY <2>2, <2>3, <2>4 DEF ReadsHold
<1> QED BY <1>2, <1>3

LEMMA DeniedReads ==
    ASSUME IdentityInvariant, NEW c \in Calls, Denied(c)
    PROVE  ReadsHold(call[c])'
<1>1. CASE End(c)
  BY <1>1, EndReads
<1>2. CASE call' = [call EXCEPT ![c].pc = "refresh", ![c].token = refresh[call[c].user]]
  <2>1. call[c] \in CallRows /\ UNCHANGED refresh
    BY Holds DEF Denied, storage
  <2>2. /\ call'[c].pc = "refresh" /\ call'[c].user = call[c].user
        /\ call'[c].token = refresh[call[c].user]
    BY <1>2, <2>1 DEF CallRows, IdentityInvariant, TypeOK
  <2> QED BY <2>1, <2>2 DEF ReadsHold
<1> QED BY <1>1, <1>2 DEF Denied

\* The token that was valid when it was read is the only one of its sign-in.
LEMMA RefreshReads ==
    ASSUME IdentityInvariant, OneLivePerLogin, NEW c \in Calls, Refresh(c)
    PROVE  ReadsHold(call[c])'
<1>1. /\ call[c] \in CallRows /\ call[c].pc = "refresh" /\ UNCHANGED tokens
      /\ SlotSound(call[c], members, tokens)
  BY Holds DEF Refresh
<1>2. call'[c].pc = "rotate" /\ call'[c].token = call[c].token
  BY <1>1 DEF Refresh, CallRows, IdentityInvariant, TypeOK
<1>3. call[c].token \in TokenIds /\ tokens[call[c].token].status = "live"
  BY <1>1 DEF Refresh, Refreshable, SlotSound, TokenSound, Issued, Presents
<1>4. Live(tokens[call[c].token].login) \subseteq {call[c].token}
  BY <1>3 DEF Live, OneLivePerLogin
<1>5. Live(tokens[call[c].token].login)' \subseteq {call'[c].token}
  BY <1>1, <1>2, <1>4 DEF Live
<1> QED BY <1>2, <1>5 DEF ReadsHold

LEMMA RotateReads ==
    ASSUME IdentityInvariant, NEW c \in Calls, ReadsHold(call[c]), Rotate(c)
    PROVE  ReadsHold(call[c])'
<1>1. /\ call[c] \in CallRows /\ call[c].pc = "rotate" /\ call[c].token \in TokenIds
      /\ tokens' = [tokens EXCEPT ![call[c].token].status = "revoked"]
  BY Holds DEF Rotate, SlotSound, TokenSound, Issued, Presents
<1>2. call'[c].pc = "issue" /\ call'[c].token = call[c].token
  BY <1>1 DEF Rotate, Goto, CallRows, IdentityInvariant, TypeOK
<1>3. /\ \A x \in TokenIds : tokens'[x].status = "live" =>
            x # call[c].token /\ tokens'[x] = tokens[x]
      /\ \A x \in TokenIds : tokens'[x].login = tokens[x].login
  BY <1>1, EndedToken
<1>4. Live(tokens[call[c].token].login) \subseteq {call[c].token}
  BY <1>1 DEF ReadsHold
<1>5. Live(tokens[call[c].token].login)' = {}
  BY <1>1, <1>2, <1>3, <1>4 DEF Live
<1> QED BY <1>2, <1>5 DEF ReadsHold

LEMMA CountReads ==
    ASSUME IdentityInvariant, NEW c \in Calls, AssertNotLastPrivileged(c)
    PROVE  ReadsHold(call[c])'
<1>1. CASE End(c)
  BY <1>1, EndReads
<1>2. CASE OtherPrivileged(call[c].as.org, call[c].op.member) /\ Goto(c, "write")
  <2>1. call[c] \in CallRows /\ UNCHANGED members
    BY Holds DEF AssertNotLastPrivileged, rows
  <2>2. call'[c].pc = "write" /\ call'[c].op = call[c].op /\ call'[c].as = call[c].as
    BY <1>2, <2>1 DEF Goto, CallRows, IdentityInvariant, TypeOK
  <2>3. OtherPrivileged(call[c].as.org, call[c].op.member)'
    BY <1>2, <2>1, <2>2 DEF OtherPrivileged, InOrganisation, Exists
  <2> QED BY <2>2, <2>3 DEF ReadsHold
<1> QED BY <1>1, <1>2 DEF AssertNotLastPrivileged

LEMMA ServeReads ==
    ASSUME SerialInvariant, NEW c \in Calls, Serve(c)
    PROVE  ReadsHold(call[c])'
<1>1. /\ IdentityInvariant /\ OneLivePerLogin /\ ReadsHold(call[c])
      /\ call[c] \in CallRows /\ SlotSound(call[c], members, tokens)
  BY Holds DEF SerialInvariant
<1>2. CASE Issue(c)
  <2>1. call'[c].pc \in {"signed_in", "refreshed"}
    BY <1>1, <1>2 DEF Issue, CallRows, IdentityInvariant, TypeOK
  <2> QED BY <2>1, ReadsAtRest
<1>3. CASE Refreshed(c)
  <2>1. call'[c].pc = "retry"
    BY <1>1, <1>3 DEF Refreshed, Goto, CallRows, IdentityInvariant, TypeOK
  <2> QED BY <2>1, ReadsAtRest
<1>4. CASE Retry(c)
  <2>1. call[c].user \in Users /\ call[c].op \in Operations
    BY <1>1, <1>4 DEF Retry, SlotSound, Asks
  <2> QED BY <1>1, <1>4, <2>1, SendReads DEF Retry
<1>5. CASE \/ SignedIn(c) \/ RefreshRefused(c) \/ AddMember(c)
           \/ UpdateMember(c) \/ RemoveMember(c)
  BY <1>1, <1>5, EndReads
  DEF SignedIn, RefreshRefused, SignedOut, AddMember, UpdateMember, RemoveMember
<1> QED BY <1>1, <1>2, <1>3, <1>4, <1>5, DeniedReads, RefreshReads, RotateReads, CountReads
    DEF Serve

\* The user logs out, a token expires: what the request read is none the worse for it.
LEMMA QuietReads ==
    ASSUME SerialInvariant, NEW c \in Calls, UNCHANGED <<members, call>>,
           \A x \in TokenIds : tokens'[x].status = "live" => tokens'[x] = tokens[x],
           \A x \in TokenIds : tokens'[x].login = tokens[x].login,
           \A u \in Users : refresh'[u] \in {refresh[u], 0}
    PROVE  ReadsHold(call[c])'
<1>1. SlotSound(call[c], members, tokens) /\ ReadsHold(call[c])
  BY Holds DEF SerialInvariant
<1>2. /\ call[c].pc \in {"refresh", "rotate"} \/ (call[c].pc = "issue" /\ call[c].token # 0)
           => call[c].token \in TokenIds
      /\ call[c].pc = "refresh" => call[c].user \in Users
  BY <1>1 DEF SlotSound, TokenSound, Issued, Presents
<1>3. \A login : Live(login)' \subseteq Live(login)
  BY DEF Live
<1>4. call[c].pc = "rotate" => Live(tokens[call[c].token].login)' \subseteq {call[c].token}
  BY <1>1, <1>2 DEF ReadsHold, Live
<1>5. call[c].pc = "issue" /\ call[c].token # 0 => Live(tokens[call[c].token].login)' = {}
  BY <1>1, <1>2 DEF ReadsHold, Live
<1>6. call[c].pc = "refresh" => refresh'[call[c].user] \in {0, call[c].token}
  BY <1>1, <1>2 DEF ReadsHold
<1>7. call[c].pc = "write" /\ LosesPrivilege(call[c].op)' =>
        OtherPrivileged(call[c].as.org, call[c].op.member)'
  BY <1>1 DEF ReadsHold, LosesPrivilege, OtherPrivileged, InOrganisation, Exists
<1> QED BY <1>4, <1>5, <1>6, <1>7 DEF ReadsHold

LEMMA StepReads ==
    ASSUME SerialInvariant, OneCall, [Next]_vars
    PROVE  \A c \in Calls : ReadsHold(call[c])'
<1> SUFFICES ASSUME NEW c \in Calls PROVE ReadsHold(call[c])'
  OBVIOUS
<1>1. IdentityInvariant /\ TypeOK
  BY DEF SerialInvariant, IdentityInvariant
<1>2. CASE UNCHANGED <<members, tokens, call>> /\ \A u \in Users : refresh'[u] \in {refresh[u], 0}
  BY <1>2, QuietReads
<1>3. CASE UNCHANGED vars
  BY <1>2, <1>3 DEF vars
<1>4. ASSUME NEW u \in Users, LogOut(u) \/ AccessExpires(u) PROVE ReadsHold(call[c])'
  <2>1. \A v \in Users : refresh'[v] \in {refresh[v], 0}
    BY <1>1, <1>4 DEF LogOut, AccessExpires, TypeOK
  <2> QED BY <1>2, <1>4, <2>1 DEF LogOut, AccessExpires, rows
<1>5. ASSUME NEW t \in TokenIds, Logout(t) \/ TokenExpires(t) PROVE ReadsHold(call[c])'
  <2>1. PICK status \in {"revoked", "expired"} : tokens' = [tokens EXCEPT ![t].status = status]
    BY <1>5 DEF Logout, TokenExpires
  <2>2. UNCHANGED <<members, call, refresh>>
    BY <1>5 DEF Logout, TokenExpires, rows, storage
  <2> QED BY <1>1, <2>1, <2>2, EndedToken, QuietReads
<1>6. ASSUME NEW u \in Users,
             \/ \E org \in Orgs : Register(c, u, org)
             \/ Login(c, u)
             \/ \E op \in Reads : Load(c, u, op)
             \/ \E op \in TeamOperations : TeamPage(c, u, op)
      PROVE  ReadsHold(call[c])'
  BY <1>1, <1>6, SignInReads, SendReads DEF Load, TeamPage, Operations
<1>7. ASSUME Lost(c) PROVE ReadsHold(call[c])'
  BY <1>1, <1>7, EndReads DEF Lost, SignedOut
<1> QED BY <1>3, <1>4, <1>5, <1>6, <1>7, ServeReads DEF Next, OneCall

LEMMA SerialInit == Init => SerialInvariant
<1> SUFFICES ASSUME Init PROVE SerialInvariant
  OBVIOUS
<1>1. PrivilegedRemains
  BY DEF Init, PrivilegedRemains
<1>2. OneLivePerLogin
  BY DEF Init, OneLivePerLogin, NoToken
<1>3. \A c \in Calls : ReadsHold(call[c])
  BY DEF Init, Idle, ReadsHold
<1> QED BY <1>1, <1>2, <1>3, InitSound DEF SerialInvariant

LEMMA SerialAlways == OneCall /\ Spec => []SerialInvariant
<1>1. OneCall /\ SerialInvariant /\ [Next]_vars => SerialInvariant'
  BY StepSound, StepRemains, StepOneLive, StepReads DEF SerialInvariant
<1>2. CASE OneCall
  BY <1>1, <1>2, SerialInit, PTL DEF Spec
<1>3. CASE ~OneCall
  BY <1>3
<1> QED BY <1>2, <1>3

\* Served one at a time, demotions and removals never take the last owner or administrator
\* of an organisation away, whatever is lost or expires on the way.
THEOREM PrivilegedRemainsAlways == OneCall /\ Spec => []PrivilegedRemains
<1>1. SerialInvariant => PrivilegedRemains
  BY DEF SerialInvariant
<1> QED BY <1>1, SerialAlways, PTL

\* Served one at a time, at most one of the refresh tokens of a sign-in is valid, wherever
\* a refresh was cut short.
THEOREM OneLivePerLoginAlways == OneCall /\ Spec => []OneLivePerLogin
<1>1. SerialInvariant => OneLivePerLogin
  BY DEF SerialInvariant
<1> QED BY <1>1, SerialAlways, PTL

-----------------------------------------------------------------------------
(* One request at a time: who takes a usable refresh token away.           *)

LEMMA RefreshWriters ==
    ASSUME [Next]_vars
    PROVE  \/ UNCHANGED refresh
           \/ \E c \in Calls : SignedIn(c) \/ Refreshed(c) \/ RefreshRefused(c) \/ Lost(c)
           \/ \E u \in Users : LogOut(u)
<1>1. ASSUME NEW c \in Calls, Serve(c), ~SignedIn(c), ~Refreshed(c), ~RefreshRefused(c)
      PROVE  UNCHANGED refresh
  BY <1>1 DEF Serve, Issue, Denied, Refresh, Rotate, Retry, AddMember,
     AssertNotLastPrivileged, UpdateMember, RemoveMember, storage
<1>2. ASSUME NEW c \in Calls, NEW u \in Users,
             \/ \E org \in Orgs : Register(c, u, org)
             \/ Login(c, u)
             \/ \E op \in Reads : Load(c, u, op)
             \/ \E op \in TeamOperations : TeamPage(c, u, op)
      PROVE  UNCHANGED refresh
  BY <1>2 DEF Register, Login, Load, TeamPage, storage
<1>3. ASSUME NEW u \in Users, AccessExpires(u) PROVE UNCHANGED refresh
  BY <1>3 DEF AccessExpires
<1>4. ASSUME NEW t \in TokenIds, Logout(t) \/ TokenExpires(t) PROVE UNCHANGED refresh
  BY <1>4 DEF Logout, TokenExpires, storage
<1>5. CASE UNCHANGED vars
  BY <1>5 DEF vars, storage
<1> QED BY <1>1, <1>2, <1>3, <1>4, <1>5 DEF Next

LEMMA KeptStep ==
    ASSUME SerialInvariant, [Next]_vars, NEW u \in Users,
           refresh[u] # 0, refresh'[u] = 0, Refreshable(refresh[u])
    PROVE  LogOut(u) \/ \E c \in Calls : Lost(c)
<1>1. IdentityInvariant /\ TypeOK
  BY DEF SerialInvariant, IdentityInvariant
<1>2. ASSUME NEW c \in Calls, SignedIn(c) \/ Refreshed(c) PROVE FALSE
  <2>1. /\ refresh' = [refresh EXCEPT ![call[c].user] = call[c].token]
        /\ SlotSound(call[c], members, tokens) /\ call[c].pc \in {"signed_in", "refreshed"}
    BY <1>1, <1>2, Holds DEF SignedIn, Refreshed, Store
  <2>2. call[c].token # 0
    BY <2>1, IdentityAssumption DEF SlotSound, TokenSound, Issued, TokenIds, Presents
  <2> QED BY <1>1, <2>1, <2>2 DEF TypeOK
<1>3. ASSUME NEW c \in Calls, RefreshRefused(c) PROVE FALSE
  <2>1. /\ call[c].pc = "refresh" /\ ~Refreshable(call[c].token)
        /\ refresh' \in {refresh, [refresh EXCEPT ![call[c].user] = 0]}
    BY <1>3 DEF RefreshRefused, SignedOut
  <2>2. u = call[c].user
    BY <1>1, <2>1 DEF TypeOK
  <2>3. refresh[u] \in {0, call[c].token}
    BY <2>1, <2>2 DEF SerialInvariant, ReadsHold
  <2> QED BY <2>1, <2>3
<1>4. ASSUME NEW v \in Users, LogOut(v) PROVE v = u
  BY <1>1, <1>4 DEF LogOut, TypeOK
<1> QED BY <1>2, <1>3, <1>4, RefreshWriters

\* Served one at a time, a browser loses a refresh token that the API would still accept
\* only when its user logs out or an answer is lost.
THEOREM KeptWhileUsableAlways == OneCall /\ Spec => KeptWhileUsable
<1>1. ASSUME SerialInvariant, [Next]_vars
      PROVE  [\A u \in Users :
                refresh[u] # 0 /\ refresh'[u] = 0 /\ Refreshable(refresh[u]) =>
                  LogOut(u) \/ \E c \in Calls : Lost(c)]_vars
  BY <1>1, KeptStep
<1> QED BY <1>1, SerialAlways, PTL DEF Spec, KeptWhileUsable
=============================================================================
