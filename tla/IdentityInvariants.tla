-------------------------- MODULE IdentityInvariants --------------------------
(***************************************************************************)
(* Why Identity keeps its promises: what a request may rely on at each     *)
(* await, and how rows, tokens and the browsers' storages hang together.   *)
(* IdentityInvariant is inductive for any number of requests in progress,  *)
(* SerialInvariant when there is one.                                      *)
(***************************************************************************)
EXTENDS Identity

\* An organisation that was registered: its rows stay, even when removed.
Known(org, ms) == \E m \in MemberIds : ms[m].org = org
Issued(t, ts) == t \in TokenIds /\ ts[t] # NoToken

-----------------------------------------------------------------------------
(* What a request has read by the await it is at.                          *)

HandsOut == {"issue", "signed_in", "rotate", "refreshed"}
Presents == {"signed_in", "refresh", "rotate", "refreshed"}
Asks == {"denied", "refresh", "rotate", "refreshed", "retry"}
Manages == {"add", "count", "write"}

SessionSound(s, ms) ==
    s.session \in Session /\ s.session.user = s.user /\ Known(s.session.org, ms)
TokenSound(s, ts) == Issued(s.token, ts) /\ ts[s.token].user = s.user
ManagerSound(s, ms) ==
    /\ s.op \in TeamOperations
    /\ s.as \in Session /\ Known(s.as.org, ms)
    /\ RoleHasPermission(s.as.role, "member.manage")

SlotSound(s, ms, ts) ==
    /\ s.pc # "idle" => s.user \in Users
    /\ s.pc \in HandsOut => SessionSound(s, ms)
    /\ s.pc \in Presents \/ (s.pc = "issue" /\ s.token # 0) => TokenSound(s, ts)
    /\ s.pc \in Asks \/ (s.pc = "issue" /\ s.token # 0) => s.op \in Operations
    /\ s.pc \in Manages => ManagerSound(s, ms)
    /\ s.pc = "add" => s.op.kind = "add"
    /\ s.pc \in {"count", "write"} => /\ s.op.kind \in {"role", "remove"}
                                      /\ ms[s.op.member] # NoMember
                                      /\ ms[s.op.member].org = s.as.org

\* What a browser keeps was issued to its user.
StorageSound(u, acc, ref, ms, ts) ==
    /\ acc # NoAccess => Known(acc.session.org, ms)
    /\ ref # 0 => Issued(ref, ts) /\ ts[ref].user = u

IdentityInvariant ==
    /\ TypeOK
    /\ \A c \in Calls : SlotSound(call[c], members, tokens)
    /\ \A u \in Users : StorageSound(u, access[u], refresh[u], members, tokens)
    /\ \A t \in TokenIds : Issued(t, tokens) => Issued(tokens[t].login, tokens)

-----------------------------------------------------------------------------
(* One request at a time.                                                  *)

OneCall == \A c, d \in Calls : c = d

Live(login) == {t \in TokenIds : tokens[t].status = "live" /\ tokens[t].login = login}

\* What was read is still so when it is acted on.
ReadsHold(s) ==
    /\ s.pc = "write" /\ LosesPrivilege(s.op) => OtherPrivileged(s.as.org, s.op.member)
    /\ s.pc = "refresh" => refresh[s.user] \in {0, s.token}
    /\ s.pc = "rotate" => Live(tokens[s.token].login) \subseteq {s.token}
    /\ s.pc = "issue" /\ s.token # 0 => Live(tokens[s.token].login) = {}

SerialInvariant ==
    /\ IdentityInvariant
    /\ PrivilegedRemains
    /\ OneLivePerLogin
    /\ \A c \in Calls : ReadsHold(call[c])
=============================================================================
