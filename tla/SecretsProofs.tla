---------------------------- MODULE SecretsProofs ----------------------------
(***************************************************************************)
(* Theorems about Secrets, for any number of processes, leads, persons,    *)
(* credentials and key versions and for any webhook deliveries.            *)
(***************************************************************************)
EXTENDS Secrets, TLAPS

-----------------------------------------------------------------------------
(* Types *)

LEMMA IdleHandler ==
  /\ Idle \in Handlers
  /\ \A l \in Leads : [Idle EXCEPT !.lead = l] \in Handlers
  /\ \A u \in Persons : [Idle EXCEPT !.person = u] \in Handlers
  /\ \A b \in Seq(Leads) : [Idle EXCEPT !.batch = b] \in Handlers
<1>1. <<>> \in Seq(Leads)
  OBVIOUS
<1>2. Idle = [pc |-> "idle", batch |-> <<>>, lead |-> None, person |-> None]
  BY DEF Idle
<1>3. Idle \in Handlers
  BY <1>1, <1>2 DEF Handlers
<1> HIDE DEF Idle
<1> QED BY <1>3 DEF Handlers

\* The pc of a handler.
Awaits == {"idle", "next", "fetch", "persist", "status", "erase", "complete"}

LEMMA HandlerMoves ==
  ASSUME TypeOK, NEW p \in Processes
  PROVE  /\ handler[p] \in Handlers
         /\ Return(p) => handler' \in [Processes -> Handlers]
         /\ \A pc \in Awaits :
              /\ Goto(p, pc) => handler' \in [Processes -> Handlers]
              /\ \A h \in Handlers : Begin(p, pc, h) => handler' \in [Processes -> Handlers]
<1>1. handler \in [Processes -> Handlers]
  BY DEF TypeOK
<1>2. \A pc \in Awaits, h \in Handlers : [h EXCEPT !.pc = pc] \in Handlers
  BY DEF Handlers, Awaits
<1> QED BY <1>1, <1>2, IdleHandler DEF Return, Goto, Begin

LEMMA InitTyped == Init => TypeOK
<1> SUFFICES ASSUME Init PROVE TypeOK
  OBVIOUS
<1>1. env \in Configurations
  BY SecretsAssumption DEF Init, Configurations, Versions
<1>2. Idle \in Handlers /\ NotRunning \in [pc : {"idle", "credentials", "leads"},
                                           todo : SUBSET Rows, gone : SUBSET Rows]
  BY DEF Idle, Handlers, NotRunning
<1> QED BY <1>1, <1>2, SecretsAssumption DEF Init, TypeOK, NoRequest, Rows

LEMMA DeleteTyped ==
  ASSUME TypeOK, NEW rows \in SUBSET Rows, Delete(rows)
  PROVE  /\ sealed' \in [Rows -> 0..MaxVersion]
         /\ request' \in [Persons -> [status : {"none", "RECEIVED", "COMPLETED"},
                                      owed : SUBSET Leads]]
         /\ script' \in [pc : {"idle", "credentials", "leads"}, todo : SUBSET Rows,
                         gone : SUBSET Rows]
<1>1. 0 \in 0..MaxVersion
  BY SecretsAssumption
<1> QED BY <1>1 DEF TypeOK, Delete

\* The rotation: installing keys, the script, dropping keys.
Rotate ==
    \/ InstallKey \/ RunScript \/ ScanLeads \/ ScriptFinishes \/ ScriptDies \/ DropRetired
    \/ \E r \in Rows : ReEncrypt(r)

LEMMA RotateTyped == ASSUME TypeOK, Rotate PROVE TypeOK'
<1> DEFINE Scripts == [pc : {"idle", "credentials", "leads"}, todo : SUBSET Rows, gone : SUBSET Rows]
<1>0. NotRunning \in Scripts
  BY DEF NotRunning
<1>1. CASE InstallKey
  <2>1. env' \in Configurations
    BY <1>1, SecretsAssumption DEF TypeOK, InstallKey, Configurations, Versions, Ring
  <2> QED BY <1>1, <2>1 DEF TypeOK, InstallKey
<1>2. CASE RunScript
  <2>1. OnOtherVersions(Credentials) \in SUBSET Rows
    BY DEF OnOtherVersions, Rows
  <2> QED BY <1>2, <2>1 DEF TypeOK, RunScript
<1>3. CASE ScanLeads
  <2>1. OnOtherVersions(Leads) \in SUBSET Rows
    BY DEF OnOtherVersions, Rows
  <2> QED BY <1>3, <2>1 DEF TypeOK, ScanLeads
<1>4. CASE ScriptFinishes \/ ScriptDies
  BY <1>0, <1>4 DEF TypeOK, ScriptFinishes, ScriptDies
<1>5. CASE DropRetired
  <2>1. env' \in Configurations
    BY <1>5 DEF TypeOK, DropRetired, Configurations
  <2> QED BY <1>5, <2>1 DEF TypeOK, DropRetired
<1>6. ASSUME NEW r \in Rows, ReEncrypt(r) PROVE TypeOK'
  <2>1. env.current \in 0..MaxVersion
    BY SecretsAssumption DEF TypeOK, Configurations, Versions
  <2>2. sealed' \in [Rows -> 0..MaxVersion]
    BY <1>6, <2>1 DEF TypeOK, ReEncrypt
  <2>3. script' \in Scripts
    BY <1>0, <1>6 DEF TypeOK, ReEncrypt
  <2> QED BY <1>6, <2>2, <2>3 DEF TypeOK, ReEncrypt
<1> QED BY <1>1, <1>2, <1>3, <1>4, <1>5, <1>6 DEF Rotate

LEMMA HandleTyped == ASSUME TypeOK, NEW p \in Processes, Handle(p) PROVE TypeOK'
<1> USE HandlerMoves DEF Awaits
<1>0. cfg[p].current \in 0..MaxVersion
  BY SecretsAssumption DEF TypeOK, Configurations, Versions
<1>1. CASE NextLead(p)
  <2>1. handler[p].batch # <<>> => /\ Head(handler[p].batch) \in Leads
                                   /\ Tail(handler[p].batch) \in Seq(Leads)
    BY DEF Handlers
  <2>2. handler[p].batch # <<>> =>
          /\ [handler[p] EXCEPT !.batch = Tail(handler[p].batch)] \in Handlers
          /\ [handler[p] EXCEPT !.pc = "fetch", !.batch = Tail(handler[p].batch),
                                !.lead = Head(handler[p].batch)] \in Handlers
    BY <2>1 DEF Handlers
  <2>3. handler' \in [Processes -> Handlers]
    BY <1>1, <2>2 DEF TypeOK, NextLead
  <2> QED BY <1>1, <2>3 DEF TypeOK, NextLead, keys
<1>2. CASE Persist(p)
  <2>1. handler' \in [Processes -> Handlers]
    BY <1>2 DEF TypeOK, Persist, Handlers
  <2> QED BY <1>0, <1>2, <2>1 DEF TypeOK, Persist, keys
<1>3. CASE EraseLeads(p)
  <2>1. LeadsOf(handler[p].person) \in SUBSET Rows
    BY DEF LeadsOf, Rows
  <2> QED BY <1>3, <2>1, DeleteTyped DEF TypeOK, EraseLeads
<1>4. CASE CompleteRequest(p)
  BY <1>4 DEF TypeOK, CompleteRequest, keys
<1>5. ASSUME NEW c \in Credentials, GetLead(p, c) PROVE TypeOK'
  BY <1>5 DEF TypeOK, GetLead, keys
<1>6. ASSUME NEW st \in {"NEW", "HANDLED"}, UpdateStatus(p, st) PROVE TypeOK'
  BY <1>6 DEF TypeOK, UpdateStatus, keys
<1> QED BY <1>1, <1>2, <1>3, <1>4, <1>5, <1>6 DEF Handle

\* What comes in from outside, and what is stored or dropped by a connection.
Arrive(p) ==
    \/ LeadsInbox(p)
    \/ \E c \in Credentials : StoreCredential(p, c)
    \/ \E signed \in BOOLEAN : \/ \E b \in Batches : Receive(p, b, signed)
                               \/ \E u \in Persons : RequestDeletion(p, u, signed)

LEMMA ArriveTyped == ASSUME TypeOK, NEW p \in Processes, Arrive(p) PROVE TypeOK'
<1> USE HandlerMoves, IdleHandler DEF Awaits
<1>0. cfg[p].current \in 0..MaxVersion
  BY SecretsAssumption DEF TypeOK, Configurations, Versions
<1>1. ASSUME NEW l \in Leads, Simulate(p, l) \/ FindLead(p, l) PROVE TypeOK'
  BY <1>1 DEF TypeOK, Simulate, FindLead, keys
<1>2. ASSUME NEW c \in Credentials, StoreCredential(p, c) PROVE TypeOK'
  BY <1>0, <1>2 DEF TypeOK, StoreCredential, keys
<1>3. ASSUME NEW b \in Batches, NEW signed \in BOOLEAN, Receive(p, b, signed) PROVE TypeOK'
  <2>1. b \in Seq(Leads)
    BY SecretsAssumption
  <2> QED BY <1>3, <2>1 DEF TypeOK, Receive, keys
<1>4. ASSUME NEW u \in Persons, NEW signed \in BOOLEAN, RequestDeletion(p, u, signed)
      PROVE  TypeOK'
  <2>1. LeadsOf(u) \in SUBSET Leads
    BY DEF LeadsOf
  <2> QED BY <1>4, <2>1 DEF TypeOK, RequestDeletion, keys
<1> QED BY <1>1, <1>2, <1>3, <1>4 DEF Arrive, LeadsInbox

LEMMA NextCases ==
  ASSUME Next
  PROVE  \/ Rotate
         \/ \E c \in Credentials : DropCredential(c)
         \/ \E p \in Processes : Restart(p) \/ Handle(p) \/ Arrive(p)
BY Zenon DEF Next, Rotate, Arrive

LEMMA StepTyped == ASSUME TypeOK, [Next]_vars PROVE TypeOK'
<1>1. CASE Rotate
  BY <1>1, RotateTyped
<1>2. ASSUME NEW c \in Credentials, DropCredential(c) PROVE TypeOK'
  <2>1. {c} \in SUBSET Rows
    BY DEF Rows
  <2> QED BY <1>2, <2>1, DeleteTyped DEF TypeOK, DropCredential
<1>3. ASSUME NEW p \in Processes, Restart(p) PROVE TypeOK'
  BY <1>3, HandlerMoves DEF TypeOK, Restart
<1>4. ASSUME NEW p \in Processes, Handle(p) \/ Arrive(p) PROVE TypeOK'
  BY <1>4, HandleTyped, ArriveTyped
<1>5. CASE UNCHANGED vars
  BY <1>5 DEF vars, TypeOK
<1> QED BY <1>1, <1>2, <1>3, <1>4, <1>5, NextCases

\* Configurations, rows, requests, the script and the handlers keep their types.
THEOREM SecretsTypes == Spec => []TypeOK
<1> QED BY InitTyped, StepTyped, PTL DEF Spec

-----------------------------------------------------------------------------
(* Key rotation, when every process is restarted before the script runs *)

\* Rows that are not sealed with the current key.
Behind == {r \in Rows : Stored(r) /\ sealed[r] # env.current}
AllRestarted == \A p \in Processes : cfg[p].current = env.current

\* Why the retired keys may go: while the script runs every process writes with the
\* current key, so what is behind is still on the script's list.
RotationInvariant ==
    /\ TypeOK
    /\ Readable
    /\ \A p \in Processes : cfg[p].current \in Ring(env)
    /\ script.pc # "idle" => AllRestarted
    /\ script.pc = "credentials" => Behind \cap Credentials \subseteq script.todo
    /\ script.pc = "leads" => Behind \subseteq script.todo
    /\ swept => AllRestarted /\ Behind = {}

LEMMA InitRotation == Init => RotationInvariant
<1> SUFFICES ASSUME Init PROVE RotationInvariant
  OBVIOUS
<1>1. TypeOK
  BY InitTyped
<1>2. env.current = 1
  BY DEF Init
<1>3. \A r \in Rows : sealed[r] \in {0, 1}
  BY DEF Init
<1> QED BY <1>1, <1>2, <1>3
    DEF Init, RotationInvariant, Readable, CanOpen, Stored, Ring, AllRestarted, Behind, NotRunning

\* A row is written with the key of a process, or goes.
LEMMA WriteRotation ==
  ASSUME RotationInvariant, NEW p \in Processes,
         UNCHANGED <<env, cfg, swept>>, TypeOK',
         \A r \in Rows : sealed'[r] \in {sealed[r], cfg[p].current, 0},
         script'.pc = script.pc, script'.todo = script.todo
  PROVE  RotationInvariant'
<1>1. Readable'
  BY DEF RotationInvariant, Readable, CanOpen, Stored, Ring
<1>2. AllRestarted => Behind' \subseteq Behind
  BY DEF AllRestarted, Behind, Stored
<1> QED BY <1>1, <1>2 DEF RotationInvariant, Ring, AllRestarted

LEMMA StillRotation ==
  ASSUME RotationInvariant, TypeOK', UNCHANGED <<env, cfg, sealed, script, swept>>
  PROVE  RotationInvariant'
BY DEF RotationInvariant, Readable, CanOpen, Stored, Ring, AllRestarted, Behind

LEMMA RotateRotation ==
  ASSUME RestartsFirst, RotationInvariant, TypeOK', Rotate
  PROVE  RotationInvariant'
<1> USE DEF RotationInvariant, Readable, CanOpen, Stored, Ring, AllRestarted, Behind
<1>1. CASE InstallKey
  <2>1. script.pc = "idle" /\ script' = script /\ swept' = FALSE
    BY <1>1 DEF InstallKey
  <2>2. env'.retired \cup {env'.current} = {env.current + 1} \cup env.retired \cup {env.current}
    BY <1>1 DEF InstallKey
  <2> QED BY <1>1, <2>1, <2>2 DEF InstallKey
<1>2. CASE RunScript
  BY <1>2 DEF RunScript, OnOtherVersions
<1>3. CASE ScanLeads
  BY <1>3 DEF ScanLeads, OnOtherVersions, Rows
<1>4. CASE ScriptFinishes
  BY <1>4 DEF ScriptFinishes, NotRunning
<1>5. CASE ScriptDies
  BY <1>5 DEF ScriptDies, NotRunning
<1>6. CASE DropRetired
  <2>1. env'.current = env.current /\ env'.retired = {}
    BY <1>6 DEF DropRetired, TypeOK, Configurations
  <2> QED BY <1>6, <2>1 DEF DropRetired
<1>7. ASSUME NEW r \in Rows, ReEncrypt(r) PROVE RotationInvariant'
  <2>1. CASE r \notin script.gone /\ CanOpen(env, r)
    <3>1. \A q \in Rows : sealed'[q] = IF q = r THEN env.current ELSE sealed[q]
      BY <1>7, <2>1 DEF ReEncrypt, TypeOK
    <3>2. script'.pc = script.pc /\ script'.todo = script.todo \ {r}
      BY <1>7, <2>1 DEF ReEncrypt, TypeOK
    <3>3. Behind' \subseteq Behind \ {r}
      BY <1>7, <3>1 DEF ReEncrypt
    <3> QED BY <1>7, <3>1, <3>2, <3>3 DEF ReEncrypt
  <2>2. CASE ~(r \notin script.gone /\ CanOpen(env, r))
    BY <1>7, <2>2 DEF ReEncrypt, NotRunning
  <2> QED BY <2>1, <2>2
<1> QED BY <1>1, <1>2, <1>3, <1>4, <1>5, <1>6, <1>7 DEF Rotate

LEMMA DeleteWrites ==
  ASSUME TypeOK, NEW rows \in SUBSET Rows, Delete(rows)
  PROVE  /\ \A r \in Rows : sealed'[r] = IF r \in rows THEN 0 ELSE sealed[r]
         /\ script'.pc = script.pc /\ script'.todo = script.todo
         /\ \A u \in Persons : /\ request'[u].status = request[u].status
                                /\ request'[u].owed = request[u].owed \ rows
BY DEF TypeOK, Delete

LEMMA HandleRotation ==
  ASSUME RotationInvariant, TypeOK', NEW p \in Processes, Handle(p)
  PROVE  RotationInvariant'
<1>0. TypeOK
  BY DEF RotationInvariant
<1>1. CASE NextLead(p) \/ CompleteRequest(p) \/ \E c \in Credentials : GetLead(p, c)
  BY <1>1, StillRotation DEF NextLead, CompleteRequest, GetLead, keys
<1>2. CASE \E st \in {"NEW", "HANDLED"} : UpdateStatus(p, st)
  BY <1>2, StillRotation DEF UpdateStatus, keys
<1>3. CASE Persist(p)
  <2>1. \A r \in Rows : sealed'[r] \in {sealed[r], cfg[p].current, 0}
    BY <1>0, <1>3 DEF Persist, TypeOK
  <2> QED BY <1>3, <2>1, WriteRotation DEF Persist, keys
<1>4. CASE EraseLeads(p)
  <2>1. LeadsOf(handler[p].person) \in SUBSET Rows
    BY DEF LeadsOf, Rows
  <2>2. /\ \A r \in Rows : sealed'[r] \in {sealed[r], 0}
        /\ script'.pc = script.pc /\ script'.todo = script.todo
    BY <1>0, <1>4, <2>1, DeleteWrites DEF EraseLeads
  <2> QED BY <1>4, <2>2, WriteRotation DEF EraseLeads
<1> QED BY <1>1, <1>2, <1>3, <1>4 DEF Handle

LEMMA ArriveRotation ==
  ASSUME RotationInvariant, TypeOK', NEW p \in Processes, Arrive(p)
  PROVE  RotationInvariant'
<1>0. TypeOK
  BY DEF RotationInvariant
<1>1. ASSUME NEW c \in Credentials, StoreCredential(p, c) PROVE RotationInvariant'
  <2>1. \A r \in Rows : sealed'[r] \in {sealed[r], cfg[p].current, 0}
    BY <1>0, <1>1 DEF StoreCredential, TypeOK
  <2>2. UNCHANGED <<env, cfg, swept, script>>
    BY <1>1 DEF StoreCredential, keys
  <2> QED BY <2>1, <2>2, WriteRotation
<1>2. ASSUME UNCHANGED <<keys, sealed>> PROVE RotationInvariant'
  BY <1>2, StillRotation DEF keys
<1> QED BY <1>1, <1>2 DEF Arrive, LeadsInbox, Simulate, FindLead, Receive, RequestDeletion

LEMMA StepRotation ==
  ASSUME RestartsFirst, RotationInvariant, [Next]_vars
  PROVE  RotationInvariant'
<1>0. TypeOK /\ TypeOK'
  BY StepTyped DEF RotationInvariant
<1>1. CASE Rotate
  BY <1>0, <1>1, RotateRotation
<1>2. ASSUME NEW c \in Credentials, DropCredential(c) PROVE RotationInvariant'
  <2>1. {c} \in SUBSET Rows
    BY DEF Rows
  <2>2. /\ \A r \in Rows : sealed'[r] \in {sealed[r], 0}
        /\ script'.pc = script.pc /\ script'.todo = script.todo
    BY <1>0, <1>2, <2>1, DeleteWrites DEF DropCredential
  <2>3. Readable'
    BY <1>2, <2>2 DEF RotationInvariant, Readable, CanOpen, Stored, Ring, DropCredential
  <2>4. Behind' \subseteq Behind
    BY <1>2, <2>2 DEF Behind, Stored, DropCredential
  <2> QED BY <1>0, <1>2, <2>2, <2>3, <2>4 DEF RotationInvariant, Ring, AllRestarted, DropCredential
<1>3. ASSUME NEW p \in Processes, Restart(p) PROVE RotationInvariant'
  <2>1. \A q \in Processes : cfg'[q] = IF q = p THEN env ELSE cfg[q]
    BY <1>0, <1>3 DEF Restart, TypeOK
  <2> QED BY <1>0, <1>3, <2>1
      DEF Restart, RotationInvariant, Readable, CanOpen, Stored, Ring, AllRestarted, Behind
<1>4. ASSUME NEW p \in Processes, Handle(p) \/ Arrive(p) PROVE RotationInvariant'
  BY <1>0, <1>4, HandleRotation, ArriveRotation
<1>5. CASE UNCHANGED vars
  BY <1>0, <1>5, StillRotation DEF vars
<1> QED BY <1>1, <1>2, <1>3, <1>4, <1>5, NextCases

\* With every process restarted before the script runs, rotating keys loses nothing,
\* whatever writes, deletions and deaths of the script cross it.
THEOREM RotationLosesNothing == RestartsFirst => (Spec => []Readable)
<1> SUFFICES ASSUME RestartsFirst PROVE Spec => []Readable
  OBVIOUS
<1>1. Init => RotationInvariant
  BY InitRotation
<1>2. RotationInvariant /\ [Next]_vars => RotationInvariant'
  BY StepRotation
<1>3. RotationInvariant => Readable
  BY DEF RotationInvariant
<1> QED BY <1>1, <1>2, <1>3, PTL DEF Spec

-----------------------------------------------------------------------------
(* Erasure *)

\* What a request still owes is stored, and nothing is owed once it has been erased.
ErasureInvariant ==
    /\ TypeOK
    /\ ReceiptMeansErased
    /\ \A u \in Persons : request[u].owed \subseteq LeadsOf(u)
    /\ \A p \in Processes, u \in Persons :
          handler[p].pc = "complete" /\ handler[p].person = u => request[u].owed = {}

LEMMA InitErasure == Init => ErasureInvariant
BY InitTyped DEF Init, ErasureInvariant, ReceiptMeansErased, NoRequest, Idle

\* A step that takes no lead away and completes nothing.
LEMMA QuietErasure ==
  ASSUME ErasureInvariant, TypeOK', UNCHANGED request,
         \A l \in Leads : Stored(l) => Stored(l)',
         \A q \in Processes : handler'[q].pc = "complete" => handler'[q] = handler[q]
  PROVE  ErasureInvariant'
BY DEF ErasureInvariant, ReceiptMeansErased, LeadsOf

\* Leads are erased, a credential is dropped.
LEMMA DeleteErasure ==
  ASSUME ErasureInvariant, TypeOK', NEW rows \in SUBSET Rows, Delete(rows),
         \A q \in Processes : handler'[q].pc = "complete" =>
            \/ handler'[q] = handler[q]
            \/ LeadsOf(handler'[q].person) \subseteq rows
  PROVE  ErasureInvariant'
<1>1. TypeOK
  BY DEF ErasureInvariant
<1>2. \A r \in Rows : sealed'[r] = IF r \in rows THEN 0 ELSE sealed[r]
  BY <1>1, DeleteWrites
<1>3. \A u \in Persons : /\ request'[u].status = request[u].status
                         /\ request'[u].owed = request[u].owed \ rows
  BY <1>1, DeleteWrites
<1>4. \A u \in Persons : request'[u].owed \subseteq LeadsOf(u)'
  BY <1>2, <1>3 DEF ErasureInvariant, LeadsOf, Stored, Rows
<1>5. ReceiptMeansErased'
  BY <1>3 DEF ErasureInvariant, ReceiptMeansErased
<1>6. ASSUME NEW q \in Processes, NEW u \in Persons,
             handler'[q].pc = "complete", handler'[q].person = u
      PROVE  request'[u].owed = {}
  <2>1. CASE handler'[q] = handler[q]
    BY <1>3, <1>6, <2>1 DEF ErasureInvariant
  <2>2. CASE LeadsOf(u) \subseteq rows
    BY <1>3, <2>2 DEF ErasureInvariant
  <2> QED BY <1>6, <2>1, <2>2
<1> QED BY <1>4, <1>5, <1>6 DEF ErasureInvariant

LEMMA RotateErasure ==
  ASSUME ErasureInvariant, TypeOK', Rotate
  PROVE  ErasureInvariant'
<1>1. TypeOK
  BY DEF ErasureInvariant
<1>2. CASE InstallKey \/ RunScript \/ ScanLeads \/ ScriptFinishes \/ ScriptDies \/ DropRetired
  BY <1>2, QuietErasure
  DEF InstallKey, RunScript, ScanLeads, ScriptFinishes, ScriptDies, DropRetired, Stored
<1>3. ASSUME NEW r \in Rows, ReEncrypt(r) PROVE ErasureInvariant'
  <2>1. env.current # 0
    BY <1>1 DEF TypeOK, Configurations, Versions
  <2>2. \A l \in Leads : Stored(l) => Stored(l)'
    BY <1>1, <1>3, <2>1 DEF ReEncrypt, Stored, TypeOK, Rows
  <2>3. UNCHANGED <<request, handler>>
    BY <1>3 DEF ReEncrypt
  <2> QED BY <2>2, <2>3, QuietErasure
<1> QED BY <1>2, <1>3 DEF Rotate

LEMMA HandleErasure ==
  ASSUME ErasureInvariant, TypeOK', NEW p \in Processes, Handle(p)
  PROVE  ErasureInvariant'
<1>0. TypeOK /\ handler \in [Processes -> Handlers]
  BY DEF ErasureInvariant, TypeOK
<1>1. CASE NextLead(p)
  <2>1. \/ handler' = [handler EXCEPT ![p] = Idle]
        \/ \E t : handler' = [handler EXCEPT ![p].batch = t]
        \/ \E t, l : handler' = [handler EXCEPT ![p] =
                                  [@ EXCEPT !.pc = "fetch", !.batch = t, !.lead = l]]
    BY <1>1 DEF NextLead, Return
  <2>2. handler[p].pc = "next" /\ handler[p] \in Handlers
    BY <1>0, <1>1 DEF NextLead
  <2>3. handler'[p].pc # "complete"
    <3>1. CASE handler' = [handler EXCEPT ![p] = Idle]
      BY <1>0, <3>1 DEF Idle
    <3>2. ASSUME NEW t, handler' = [handler EXCEPT ![p].batch = t]
          PROVE  handler'[p].pc = "next"
      <4>1. handler'[p] = [handler[p] EXCEPT !.batch = t]
        BY <1>0, <3>2
      <4> QED BY <2>2, <4>1 DEF Handlers
    <3>3. ASSUME NEW t, NEW l, handler' = [handler EXCEPT ![p] =
                                  [@ EXCEPT !.pc = "fetch", !.batch = t, !.lead = l]]
          PROVE  handler'[p].pc = "fetch"
      <4>1. handler'[p] = [handler[p] EXCEPT !.pc = "fetch", !.batch = t, !.lead = l]
        BY <1>0, <3>3
      <4> QED BY <2>2, <4>1 DEF Handlers
    <3> QED BY <2>1, <3>1, <3>2, <3>3
  <2>4. \A q \in Processes \ {p} : handler'[q] = handler[q]
    BY <1>0, <2>1
  <2>5. \A q \in Processes : handler'[q].pc = "complete" => handler'[q] = handler[q]
    BY <2>3, <2>4
  <2> QED BY <1>1, <2>5, QuietErasure DEF NextLead, keys, Stored
<1>2. CASE Persist(p)
  <2>1. \A q \in Processes : handler'[q].pc = "complete" => handler'[q] = handler[q]
    BY <1>0, <1>2 DEF Persist, Handlers
  <2>2. \A l \in Leads : Stored(l) => Stored(l)'
    BY <1>0, <1>2 DEF Persist, Stored, TypeOK, Rows
  <2> QED BY <1>2, <2>1, <2>2, QuietErasure DEF Persist
<1>3. CASE EraseLeads(p)
  <2>1. LeadsOf(handler[p].person) \in SUBSET Rows
    BY DEF LeadsOf, Rows
  <2>2. \A q \in Processes : \/ handler'[q] = handler[q]
                             \/ handler'[q].person = handler[p].person
    BY <1>0, <1>3 DEF EraseLeads, Goto, Handlers
  <2> QED BY <1>3, <2>1, <2>2, DeleteErasure DEF EraseLeads
<1>4. CASE CompleteRequest(p)
  <2>1. \A q \in Processes : handler'[q].pc = "complete" => handler'[q] = handler[q]
    BY <1>0, <1>4 DEF CompleteRequest, Return, Idle
  <2>2. \A u \in Persons :
           /\ request'[u].owed = request[u].owed
           /\ request'[u].status = "COMPLETED" => \/ request[u].status = "COMPLETED"
                                                 \/ handler[p].person = u
    BY <1>0, <1>4 DEF CompleteRequest, TypeOK
  <2>3. handler[p].pc = "complete" /\ sealed' = sealed
    BY <1>4 DEF CompleteRequest
  <2>4. \A u \in Persons : handler[p].person = u => request[u].owed = {}
    BY <2>3 DEF ErasureInvariant
  <2>5. ReceiptMeansErased'
    BY <2>2, <2>4 DEF ErasureInvariant, ReceiptMeansErased
  <2>6. \A u \in Persons : request'[u].owed \subseteq LeadsOf(u)'
    BY <2>2, <2>3 DEF ErasureInvariant, LeadsOf, Stored
  <2>7. ASSUME NEW q \in Processes, NEW u \in Persons,
               handler'[q].pc = "complete", handler'[q].person = u
        PROVE  request'[u].owed = {}
    BY <2>1, <2>2, <2>7 DEF ErasureInvariant
  <2> QED BY <2>5, <2>6, <2>7 DEF ErasureInvariant
<1>5. ASSUME NEW c \in Credentials, GetLead(p, c) PROVE ErasureInvariant'
  <2>1. \A q \in Processes : handler'[q].pc = "complete" => handler'[q] = handler[q]
    BY <1>0, <1>5 DEF GetLead, Return, Goto, Idle, Handlers
  <2> QED BY <1>5, <2>1, QuietErasure DEF GetLead, keys, Stored
<1>6. ASSUME NEW st \in {"NEW", "HANDLED"}, UpdateStatus(p, st) PROVE ErasureInvariant'
  <2>1. \A q \in Processes : handler'[q].pc = "complete" => handler'[q] = handler[q]
    BY <1>0, <1>6 DEF UpdateStatus, Return, Idle
  <2> QED BY <1>6, <2>1, QuietErasure DEF UpdateStatus, keys, Stored
<1> QED BY <1>1, <1>2, <1>3, <1>4, <1>5, <1>6 DEF Handle

\* A handler that begins completes nothing yet.
LEMMA BeginErasure ==
  ASSUME TypeOK, NEW p \in Processes, NEW pc \in Awaits \ {"complete"}, NEW h \in Handlers,
         Begin(p, pc, h)
  PROVE  \A q \in Processes : handler'[q].pc = "complete" => handler'[q] = handler[q]
BY DEF TypeOK, Begin, Handlers

LEMMA ArriveErasure ==
  ASSUME ErasureInvariant, TypeOK', NEW p \in Processes, Arrive(p)
  PROVE  ErasureInvariant'
<1> USE IdleHandler, BeginErasure DEF Awaits
<1>0. TypeOK
  BY DEF ErasureInvariant
<1>1. ASSUME NEW l \in Leads, Simulate(p, l) \/ FindLead(p, l) PROVE ErasureInvariant'
  <2>1. \A q \in Processes : handler'[q].pc = "complete" => handler'[q] = handler[q]
    BY <1>0, <1>1 DEF Simulate, FindLead
  <2> QED BY <1>1, <2>1, QuietErasure DEF Simulate, FindLead, keys, Stored
<1>2. ASSUME NEW c \in Credentials, StoreCredential(p, c) PROVE ErasureInvariant'
  <2>1. \A l \in Leads : Stored(l) => Stored(l)'
    BY <1>0, <1>2, SecretsAssumption DEF StoreCredential, Stored, TypeOK, Rows
  <2> QED BY <1>2, <2>1, QuietErasure DEF StoreCredential
<1>3. ASSUME NEW b \in Batches, NEW signed \in BOOLEAN, Receive(p, b, signed)
      PROVE  ErasureInvariant'
  <2>1. b \in Seq(Leads)
    BY SecretsAssumption
  <2>2. \A q \in Processes : handler'[q].pc = "complete" => handler'[q] = handler[q]
    BY <1>0, <1>3, <2>1 DEF Receive
  <2> QED BY <1>3, <2>2, QuietErasure DEF Receive, keys, Stored
<1>4. ASSUME NEW u \in Persons, NEW signed \in BOOLEAN, RequestDeletion(p, u, signed)
      PROVE  ErasureInvariant'
  <2>1. \A q \in Processes : handler'[q].pc = "complete" => handler'[q] = handler[q]
    BY <1>0, <1>4 DEF RequestDeletion
  <2>2. \A v \in Persons : request'[v] = IF v = u THEN [status |-> "RECEIVED", owed |-> LeadsOf(u)]
                                                 ELSE request[v]
    BY <1>0, <1>4 DEF RequestDeletion, TypeOK
  <2>3. \A q \in Processes : handler[q].person # u
    BY <1>4 DEF RequestDeletion
  <2>4. sealed' = sealed
    BY <1>4 DEF RequestDeletion
  <2>5. ReceiptMeansErased'
    BY <2>2 DEF ErasureInvariant, ReceiptMeansErased
  <2>6. \A v \in Persons : request'[v].owed \subseteq LeadsOf(v)'
    <3>1. \A v \in Persons : LeadsOf(v)' = LeadsOf(v)
      BY <2>4 DEF LeadsOf, Stored
    <3>2. \A v \in Persons : request'[v].owed = LeadsOf(v) \/ request'[v] = request[v]
      BY <2>2
    <3> QED BY <3>1, <3>2 DEF ErasureInvariant
  <2>7. ASSUME NEW q \in Processes, NEW v \in Persons,
               handler'[q].pc = "complete", handler'[q].person = v
        PROVE  request'[v].owed = {}
    <3>1. handler[q].pc = "complete" /\ handler[q].person = v
      BY <2>1, <2>7
    <3>2. v # u
      BY <2>3, <3>1
    <3> QED BY <2>2, <3>1, <3>2 DEF ErasureInvariant
  <2> QED BY <2>5, <2>6, <2>7 DEF ErasureInvariant
<1> QED BY <1>1, <1>2, <1>3, <1>4 DEF Arrive, LeadsInbox

LEMMA StepErasure == ASSUME ErasureInvariant, [Next]_vars PROVE ErasureInvariant'
<1>0. TypeOK /\ TypeOK'
  BY StepTyped DEF ErasureInvariant
<1>1. CASE Rotate
  BY <1>0, <1>1, RotateErasure
<1>2. ASSUME NEW c \in Credentials, DropCredential(c) PROVE ErasureInvariant'
  <2>1. {c} \in SUBSET Rows
    BY DEF Rows
  <2> QED BY <1>0, <1>2, <2>1, DeleteErasure DEF DropCredential
<1>3. ASSUME NEW p \in Processes, Restart(p) PROVE ErasureInvariant'
  <2>1. \A q \in Processes : handler'[q].pc = "complete" => handler'[q] = handler[q]
    BY <1>0, <1>3 DEF Restart, Return, Idle, TypeOK
  <2> QED BY <1>0, <1>3, <2>1, QuietErasure DEF Restart, Stored
<1>4. ASSUME NEW p \in Processes, Handle(p) \/ Arrive(p) PROVE ErasureInvariant'
  BY <1>0, <1>4, HandleErasure, ArriveErasure
<1>5. CASE UNCHANGED vars
  BY <1>0, <1>5, QuietErasure DEF vars, Stored
<1> QED BY <1>1, <1>2, <1>3, <1>4, <1>5, NextCases

\* A deletion request reported as completed has left none of the person's leads that were
\* stored when it came in, whatever ingests, rotations and restarts cross it.
THEOREM ReceiptMeansErasedAlways == Spec => []ReceiptMeansErased
<1>1. ErasureInvariant => ReceiptMeansErased
  BY DEF ErasureInvariant
<1> QED BY <1>1, InitErasure, StepErasure, PTL DEF Spec

-----------------------------------------------------------------------------
(* The status of a lead *)

\* As long as a lead is stored, only the team changes its status: a delivery that comes
\* again, at once or late, leaves it alone.
THEOREM StatusIsTheTeamsAlways == Spec => StatusIsTheTeams
<1> DEFINE TeamsStep ==
      \A l \in Leads : sealed[l] # 0 /\ sealed'[l] # 0 /\ status[l] # status'[l] =>
         \E p \in Processes : handler[p].pc = "status" /\ handler[p].lead = l
<1>1. ASSUME TypeOK, [Next]_vars PROVE [TeamsStep]_vars
  <2>1. ASSUME NEW p \in Processes, Persist(p) PROVE TeamsStep
    BY <1>1, <2>1 DEF Persist, Stored, TypeOK
  <2>2. ASSUME NEW p \in Processes, NEW st \in {"NEW", "HANDLED"}, UpdateStatus(p, st)
        PROVE  TeamsStep
    BY <1>1, <2>2 DEF UpdateStatus, TypeOK
  <2>3. CASE UNCHANGED status
    BY <2>3
  <2>4. \/ UNCHANGED status
        \/ \E p \in Processes : \/ Persist(p)
                                 \/ \E st \in {"NEW", "HANDLED"} : UpdateStatus(p, st)
    <3>1. CASE Rotate
      BY <3>1 DEF Rotate, InstallKey, RunScript, ScanLeads, ScriptFinishes, ScriptDies,
         DropRetired, ReEncrypt
    <3>2. ASSUME NEW c \in Credentials, DropCredential(c) PROVE UNCHANGED status
      BY <3>2 DEF DropCredential
    <3>3. ASSUME NEW p \in Processes, Restart(p) \/ Arrive(p) PROVE UNCHANGED status
      BY <3>3 DEF Restart, Arrive, LeadsInbox, Simulate, FindLead, StoreCredential, Receive,
         RequestDeletion
    <3>4. ASSUME NEW p \in Processes, Handle(p)
          PROVE  \/ UNCHANGED status \/ Persist(p)
                 \/ \E st \in {"NEW", "HANDLED"} : UpdateStatus(p, st)
      BY <3>4 DEF Handle, NextLead, EraseLeads, CompleteRequest, GetLead
    <3>5. CASE UNCHANGED vars
      BY <3>5 DEF vars
    <3> QED BY <1>1, <3>1, <3>2, <3>3, <3>4, <3>5, NextCases
  <2> QED BY <2>1, <2>2, <2>3, <2>4
<1> QED BY <1>1, SecretsTypes, PTL DEF Spec, StatusIsTheTeams
=============================================================================
