--------------------------- MODULE ContentProofs ---------------------------
(***************************************************************************)
(* Theorems about Content, for any number of clients, campaigns, requests, *)
(* runs and variants and whatever a model answers: types, where stored     *)
(* rows come from, the compliance mark, and what a generation that reports *)
(* success has stored.                                                     *)
(***************************************************************************)
EXTENDS ContentInvariants, FiniteSetTheorems, WellFoundedInduction, TLAPS

-----------------------------------------------------------------------------
(* Variants by persona: Grouped arranges what it is given.                 *)

Below == {p \in Nat \X Nat : p[1] < p[2]}

LEMMA LeastElement ==
    ASSUME NEW S \in SUBSET Nat, S # {}
    PROVE  Min(S) \in S /\ \A n \in S : Min(S) <= n
<1>1. IsWellFoundedOn(Below, Nat)
  BY NatLessThanWellFounded DEF OpToRel, Below
<1>2. PICK m \in S : \A n \in S : <<n, m>> \notin Below
  BY <1>1, WFMin
<1>3. \A k, n \in Nat : <<n, k>> \notin Below => k <= n
  BY DEF Below
<1>4. \A n \in S : m <= n
  BY <1>2, <1>3
<1>5. QED
  BY <1>4 DEF Min

LEMMA OpensIsAPlace ==
    ASSUME NEW v, NEW n \in Nat, DOMAIN v = 1..n, NEW i \in 1..n
    PROVE  Opens(v, i) \in 1..n
<1> DEFINE same == {j \in DOMAIN v : v[j].persona = v[i].persona}
<1>1. same \in SUBSET Nat /\ i \in same
  OBVIOUS
<1> HIDE DEF same
<1>2. Min(same) \in same
  BY <1>1, LeastElement
<1>3. QED
  BY <1>2 DEF Opens, same

\* Different variants have different places.
LEMMA PlacesDiffer ==
    ASSUME NEW v, NEW n \in Nat, DOMAIN v = 1..n
    PROVE  /\ \A i \in 1..n : Place(v, i) \in 1..n
           /\ \A i, j \in 1..n : Place(v, i) = Place(v, j) => i = j
<1> DEFINE Upto(i) == {j \in DOMAIN v : \/ Opens(v, j) < Opens(v, i)
                                        \/ Opens(v, j) = Opens(v, i) /\ j <= i}
<1>0. \A i \in 1..n : Opens(v, i) \in 1..n
  BY OpensIsAPlace
<1>1. \A i \in 1..n : Upto(i) \in SUBSET (1..n) /\ i \in Upto(i)
  BY <1>0
<1>2. \A i \in 1..n : Place(v, i) = Cardinality(Upto(i))
  BY DEF Place
<1>3. IsFiniteSet(1..n) /\ Cardinality(1..n) = n
  BY FS_Interval
<1>4. ASSUME NEW i \in 1..n, NEW j \in 1..n, i # j
      PROVE  \/ Upto(i) \subseteq Upto(j) /\ j \notin Upto(i)
             \/ Upto(j) \subseteq Upto(i) /\ i \notin Upto(j)
  <2>1. Opens(v, i) \in 1..n /\ Opens(v, j) \in 1..n
    BY <1>0
  <2>2. \/ Opens(v, i) < Opens(v, j)
        \/ Opens(v, j) < Opens(v, i)
        \/ Opens(v, i) = Opens(v, j) /\ i < j
        \/ Opens(v, i) = Opens(v, j) /\ j < i
    BY <1>4, <2>1
  <2>3. CASE Opens(v, i) < Opens(v, j) \/ (Opens(v, i) = Opens(v, j) /\ i < j)
    <3>1. ASSUME NEW k \in Upto(i)
          PROVE  k \in Upto(j)
      <4>1. k \in 1..n /\ Opens(v, k) \in 1..n
        BY <1>0
      <4>2. \/ Opens(v, k) < Opens(v, i)
            \/ Opens(v, k) = Opens(v, i) /\ k <= i
        OBVIOUS
      <4>3. \/ Opens(v, k) < Opens(v, j)
            \/ Opens(v, k) = Opens(v, j) /\ k <= j
        BY <2>1, <2>3, <4>1, <4>2
      <4>4. QED
        BY <4>1, <4>3
    <3>2. j \notin Upto(i)
      BY <2>1, <2>3
    <3>3. QED
      BY <3>1, <3>2
  <2>4. CASE Opens(v, j) < Opens(v, i) \/ (Opens(v, i) = Opens(v, j) /\ j < i)
    <3>1. ASSUME NEW k \in Upto(j)
          PROVE  k \in Upto(i)
      <4>1. k \in 1..n /\ Opens(v, k) \in 1..n
        BY <1>0
      <4>2. \/ Opens(v, k) < Opens(v, j)
            \/ Opens(v, k) = Opens(v, j) /\ k <= j
        OBVIOUS
      <4>3. \/ Opens(v, k) < Opens(v, i)
            \/ Opens(v, k) = Opens(v, i) /\ k <= i
        BY <2>1, <2>4, <4>1, <4>2
      <4>4. QED
        BY <4>1, <4>3
    <3>2. i \notin Upto(j)
      BY <2>1, <2>4
    <3>3. QED
      BY <3>1, <3>2
  <2>5. QED
    BY <2>2, <2>3, <2>4
<1> HIDE DEF Upto
<1>5. \A i \in 1..n : IsFiniteSet(Upto(i)) /\ Cardinality(Upto(i)) \in Nat
  BY <1>1, <1>3, FS_Subset, FS_CardinalityType
<1>6. ASSUME NEW i \in 1..n
      PROVE  Place(v, i) \in 1..n
  <2>1. Cardinality(Upto(i)) <= n
    BY <1>1, <1>3, FS_Subset
  <2>2. Cardinality(Upto(i)) # 0
    BY <1>1, <1>5, FS_EmptySet
  <2>3. QED
    BY <1>2, <1>5, <2>1, <2>2
<1>7. ASSUME NEW i \in 1..n, NEW j \in 1..n, Place(v, i) = Place(v, j), i # j
      PROVE  FALSE
  <2>1. Cardinality(Upto(i)) = Cardinality(Upto(j))
    BY <1>2, <1>7
  <2>2. CASE Upto(i) \subseteq Upto(j) /\ j \notin Upto(i)
    <3>1. Upto(i) = Upto(j)
      BY <1>5, <2>1, <2>2, FS_Subset
    <3>2. QED
      BY <1>1, <2>2, <3>1
  <2>3. CASE Upto(j) \subseteq Upto(i) /\ i \notin Upto(j)
    <3>1. Upto(i) = Upto(j)
      BY <1>5, <2>1, <2>3, FS_Subset
    <3>2. QED
      BY <1>1, <2>3, <3>1
  <2>4. QED
    BY <1>4, <1>7, <2>2, <2>3
<1>8. QED
  BY <1>6, <1>7

\* Every place is taken: an injection of a finite set into itself is onto.
LEMMA PlacesTaken ==
    ASSUME NEW v, NEW n \in Nat, DOMAIN v = 1..n, NEW p \in 1..n
    PROVE  \E i \in 1..n : Place(v, i) = p
<1> DEFINE f == [i \in 1..n |-> Place(v, i)]
<1>1. f \in [1..n -> 1..n] /\ \A i, j \in 1..n : f[i] = f[j] => i = j
  BY PlacesDiffer
<1> HIDE DEF f
<1>2. f \in Injection(1..n, 1..n)
  BY <1>1 DEF Injection, IsInjective
<1>3. IsFiniteSet(1..n)
  BY FS_Interval
<1>4. f \in Surjection(1..n, 1..n)
  BY <1>2, <1>3, FS_Injection
<1>5. PICK i \in 1..n : f[i] = p
  BY <1>4 DEF Surjection
<1>6. QED
  BY <1>5 DEF f

\* Grouping the variants of an answer keeps their number and invents none: by PlacesTaken
\* every place is that of one of them.
LEMMA GroupedArranges ==
    ASSUME NEW S, NEW v \in Seq(S)
    PROVE  Grouped(v) \in Seq(S) /\ Len(Grouped(v)) = Len(v)
<1>1. Len(v) \in Nat /\ DOMAIN v = 1..Len(v)
  OBVIOUS
<1>2. ASSUME NEW p \in 1..Len(v)
      PROVE  Grouped(v)[p] \in S
  <2>1. \E i \in 1..Len(v) : Place(v, i) = p
    BY <1>1, <1>2, PlacesTaken
  <2>2. (CHOOSE i \in DOMAIN v : Place(v, i) = p) \in DOMAIN v
    BY <1>1, <2>1
  <2>3. QED
    BY <1>1, <2>2 DEF Grouped
<1>3. DOMAIN Grouped(v) = 1..Len(v)
  BY <1>1 DEF Grouped
<1>4. Grouped(v) \in [1..Len(v) -> S]
  BY <1>2, <1>3 DEF Grouped
<1>5. QED
  BY <1>1, <1>4

\* What a request stores of an answer: at most as many variants as it asks for.
LEMMA AnswerType ==
    ASSUME NEW output \in Outputs
    PROVE  /\ Grouped(Requested(output)) \in Seq(Variants)
           /\ Len(Grouped(Requested(output))) = Len(Requested(output))
           /\ Len(Requested(output)) \in 0..VariantCount
<1> DEFINE n == Min({VariantCount, Len(output)})
<1>1. output \in Seq(Range(output)) /\ Range(output) \subseteq Variants
  BY ContentAssumption DEF Variants
<1>2. output \in Seq(Variants)
  BY <1>1
<1>3. VariantCount \in Nat /\ Len(output) \in Nat
  BY <1>2, ContentAssumption
<1>4. n \in 0..VariantCount /\ n <= Len(output)
  <2> DEFINE S == {VariantCount, Len(output)}
  <2>1. S \in SUBSET Nat /\ S # {}
    BY <1>3
  <2>2. Min(S) \in S /\ \A k \in S : Min(S) <= k
    BY <2>1, LeastElement
  <2>3. QED
    BY <1>3, <2>1, <2>2
<1> HIDE DEF n
<1>5. SubSeq(output, 1, n) \in Seq(Variants) /\ Len(SubSeq(output, 1, n)) = n
  BY <1>2, <1>3, <1>4
<1>6. Requested(output) = SubSeq(output, 1, n)
  BY DEF Requested, n
<1>7. QED
  BY <1>4, <1>5, <1>6, GroupedArranges

-----------------------------------------------------------------------------
(* The fields of a request.                                                *)

LEMMA PCNames ==
    PC = {"idle", "upload", "row", "update", "archive", "profile", "activate", "run",
          "model", "record", "refused", "store", "bank", "report", "ad_set", "creative", "ad"}
  BY DEF PC, ClientWrites, InAgent, Generating, InVariant

LEMMA IdleType == Idle \in GoodRequests
<1>1. Idle \in Requesting
  BY PCNames, ContentAssumption DEF Idle, Requesting
<1>2. WellFormed(Idle)
  BY NoneAssumption DEF Idle, WellFormed, ClientWrites, InAgent, WithRun, Generating, InVariant, Copied
<1>3. QED
  BY <1>1, <1>2 DEF GoodRequests

\* The slot a request moves to.
LEMMA Moves ==
    ASSUME req \in [Requests -> GoodRequests], NEW r \in Requests
    PROVE  /\ \A s \in GoodRequests : req' = [req EXCEPT ![r] = s]
                => req' \in [Requests -> GoodRequests] /\ req'[r] = s
           /\ Ends(r) => req' \in [Requests -> GoodRequests] /\ req'[r] = Idle
  BY IdleType DEF Ends

\* Steps whose only effect on the request is the program counter.
Leads(q, to) ==
    \/ q.pc = "profile" /\ to = "activate"
    \/ q.pc \in {"run", "refused", "record"} /\ q.type = "COMPLIANCE" /\ to = "bank"
    \/ q.pc = "model" /\ q.type # "COPY" /\ to = "record"
    \/ q.pc \in {"model", "record"} /\ to = "refused"
    \/ q.pc = "record" /\ q.type \in {"PERSONA", "STRATEGY"} /\ to = "store"
    \/ q.pc = "bank" /\ q.todo = <<>> /\ to = "report"
    \/ q.pc = "bank" /\ q.todo # <<>> /\ to = "ad_set"
    \/ q.pc = "ad_set" /\ to = "creative"
    \/ q.pc = "creative" /\ to = "ad"

LEMMA GoesType ==
    ASSUME req \in [Requests -> GoodRequests], NEW r \in Requests, NEW to,
           Leads(req[r], to), Goes(r, to)
    PROVE  /\ req' \in [Requests -> GoodRequests]
           /\ req'[r] = [req[r] EXCEPT !.pc = to]
<1> DEFINE s == [req[r] EXCEPT !.pc = to]
<1>1. req[r] \in GoodRequests /\ req[r] \in Requesting /\ WellFormed(req[r])
  BY DEF GoodRequests
<1>2. to \in PC
  BY PCNames DEF Leads
<1>3. s \in Requesting
  BY <1>1, <1>2 DEF Requesting
<1>4. /\ s.pc = to /\ s.op = req[r].op /\ s.on = req[r].on /\ s.type = req[r].type
      /\ s.run = req[r].run /\ s.brand = req[r].brand /\ s.copy = req[r].copy
      /\ s.todo = req[r].todo /\ s.count = req[r].count
  BY <1>1 DEF Requesting
<1>5. req[r].todo \in Seq(Variants) /\ req[r].count \in Nat
  BY <1>1 DEF Requesting
<1>6. req[r].todo # <<>> => Len(req[r].todo) >= 1 /\ Len(req[r].todo) \in Nat
  BY <1>5
<1> HIDE DEF s
<1>7. WellFormed(s)
  BY <1>1, <1>4, <1>5, <1>6
  DEF Leads, WellFormed, ClientWrites, InAgent, WithRun, Generating, InVariant, Copied, Awaits
<1>8. req' = [req EXCEPT ![r] = s]
  BY DEF Goes, s
<1>9. QED
  BY <1>3, <1>7, <1>8, Moves DEF GoodRequests, s

\* What a request does, by kind.
Begins(r) ==
    \/ \E k \in Clients, op \in Operations : Begin(r, op, k)
    \/ \E k \in Clients : BeginPersonas(r, k) \/ BeginResearch(r, k)
    \/ \E g \in Campaigns, op \in {"strategy", "ads"} : BeginOnCampaign(r, op, g)
    \/ \E url \in Urls : ExtractBrand(r, url)
Writes(r) == Update(r) \/ Archive(r) \/ UpsertBrandProfile(r) \/ Activate(r)
Asks(r) == StartRun(r) \/ AskModel(r) \/ RecordSuccess(r) \/ RecordFailure(r)
Stores(r) == StorePersonas(r) \/ StoreStrategy(r) \/ StoreCopy(r) \/ StoreAdSet(r)
                \/ StoreCreative(r) \/ StoreAd(r)
Finishes(r) == Report(r) \/ Broken(r) \/ PutFile(r) \/ StoreAsset(r)
Serves(r) == Begins(r) \/ Writes(r) \/ Asks(r) \/ Stores(r) \/ Finishes(r)

\* What happens to the rows without a request that is in progress.
Others ==
    \/ \E k \in Clients : CreateClient(k)
    \/ \E m \in Runs : RemovePersona(m)
    \/ \E g \in Campaigns : RemoveCampaign(g)
    \/ \E s \in Slots : PublishAd(s)
    \/ \E s \in Slots, f \in Files : AttachToCreative(s, f)

LEMMA NextKinds == Next => (\E r \in Requests : Serves(r)) \/ (Others /\ req' = req)
<1>1. Others => req' = req
  BY DEF Others, CreateClient, RemovePersona, RemoveCampaign, PublishAd, AttachToCreative
<1>2. QED
  BY <1>1 DEF Next, Serves, Begins, Writes, Asks, Stores, Finishes, Others

\* The request a step serves is the only one that moves.
LEMMA OneMoves ==
    ASSUME req \in [Requests -> GoodRequests], NEW r \in Requests, Serves(r),
           NEW q \in Requests, q # r
    PROVE  req'[q] = req[q]
<1>1. CASE Begins(r)
  BY <1>1 DEF Begins, Begin, BeginPersonas, BeginResearch, BeginOnCampaign, ExtractBrand
<1>2. CASE Writes(r)
  BY <1>2 DEF Writes, Update, Archive, UpsertBrandProfile, Activate, Goes, Ends
<1>3. CASE StartRun(r)
  BY <1>3 DEF StartRun, WithoutRun, Goes, Ends
<1>4. CASE AskModel(r)
  BY <1>4 DEF AskModel, Answered, Goes
<1>5. CASE RecordSuccess(r)
  <2>1. req[r].type \in Types
    BY <1>5 DEF RecordSuccess, GoodRequests, WellFormed, InAgent, Awaits, Types
  <2>2. CASE AfterRun(r)
    BY <2>1, <2>2 DEF AfterRun, Types, Goes, Ends
  <2>3. QED
    BY <1>5, <2>2 DEF RecordSuccess, Goes
<1>6. CASE RecordFailure(r)
  BY <1>6 DEF RecordFailure, WithoutRun, Goes, Ends
<1>7. CASE Stores(r)
  BY <1>7 DEF Stores, StorePersonas, StoreStrategy, StoreCopy, StoreAdSet, StoreCreative,
     StoreAd, Goes, Ends
<1>8. CASE Finishes(r)
  BY <1>8 DEF Finishes, Report, Broken, PutFile, StoreAsset, Ends
<1>9. QED
  BY <1>1, <1>2, <1>3, <1>4, <1>5, <1>6, <1>7, <1>8 DEF Serves, Asks

LEMMA BeginsType ==
    ASSUME req \in [Requests -> GoodRequests], NEW r \in Requests, Begins(r), TypeOK
    PROVE  /\ req' \in [Requests -> GoodRequests]
           /\ req'[r].pc \in Operations \cup {"run"}
           /\ req'[r].pc \in Operations => client[req'[r].on] # None
           /\ req'[r].pc = "run" => req'[r].type # "COMPLIANCE"
<1> USE PCNames DEF Requesting, GoodRequests
<1>0. /\ Idle.pc = "idle" /\ Idle.op = None /\ Idle.on = None /\ Idle.type = None
      /\ Idle.run = None /\ Idle.attempt = 0 /\ Idle.brand = None /\ Idle.copy = None
      /\ Idle.todo = <<>> /\ Idle.count = 0 /\ Idle \in Requesting
  BY IdleType DEF Idle
<1>1. ASSUME NEW k \in Clients, NEW op \in Operations, Begin(r, op, k)
      PROVE  /\ req' \in [Requests -> GoodRequests]
             /\ req'[r].pc = op /\ req'[r].on = k /\ client[k] # None
  <2> DEFINE s == [Idle EXCEPT !.op = op, !.on = k, !.pc = op]
  <2>0. op \in PC /\ op \notin {"strategy", "ads"}
    BY DEF Operations
  <2>1. /\ s.pc = op /\ s.on = k /\ s.op = op /\ s \in Requesting
    BY <1>0, <2>0
  <2>2. WellFormed(s)
    BY <2>0, <2>1 DEF Operations, WellFormed, ClientWrites, InAgent, WithRun, Generating,
       InVariant, Copied
  <2>3. req' = [req EXCEPT ![r] = s] /\ client[k] # None
    BY <1>1 DEF Begin
  <2> HIDE DEF s
  <2>4. QED
    BY <2>1, <2>2, <2>3, Moves
<1>2. ASSUME NEW s \in Requesting, req' = [req EXCEPT ![r] = s],
             s.pc = "run", <<s.op, s.type>> \in Awaits, s.type # "COMPLIANCE",
             s.op \in {"strategy", "ads"} => s.on \in Campaigns /\ s.brand \in Brand
      PROVE  /\ req' \in [Requests -> GoodRequests]
             /\ req'[r].pc = "run" /\ req'[r].type # "COMPLIANCE"
  <2>1. WellFormed(s)
    BY <1>2 DEF WellFormed, ClientWrites, InAgent, WithRun, Generating, InVariant, Copied
  <2>2. QED
    BY <1>2, <2>1, Moves
<1>3. ASSUME NEW k \in Clients, BeginPersonas(r, k) \/ BeginResearch(r, k)
      PROVE  req' \in [Requests -> GoodRequests] /\ req'[r].pc = "run"
                /\ req'[r].type # "COMPLIANCE"
  <2> DEFINE s(op, type) == [Idle EXCEPT !.op = op, !.on = k, !.type = type, !.pc = "run"]
  <2>1. ASSUME NEW op \in {"personas", "research"}, NEW type \in {"PERSONA", "RESEARCH"}
        PROVE  /\ s(op, type) \in Requesting /\ s(op, type).pc = "run"
               /\ s(op, type).op = op /\ s(op, type).type = type
    <3>1. "run" \in PC /\ type \in Types
      BY DEF Types
    <3>2. QED
      BY <1>0, <2>1, <3>1
  <2>2. ASSUME NEW op, NEW type, req' = [req EXCEPT ![r] = s(op, type)],
               <<op, type>> \in {<<"personas", "PERSONA">>, <<"research", "RESEARCH">>}
        PROVE  req' \in [Requests -> GoodRequests] /\ req'[r].pc = "run"
                 /\ req'[r].type # "COMPLIANCE"
    <3>1. op \in {"personas", "research"} /\ type \in {"PERSONA", "RESEARCH"}
      BY <2>2
    <3> HIDE DEF s
    <3>2. /\ s(op, type) \in Requesting /\ s(op, type).pc = "run"
          /\ s(op, type).op = op /\ s(op, type).type = type
      BY <2>1, <3>1
    <3>3. /\ <<s(op, type).op, s(op, type).type>> \in Awaits
          /\ s(op, type).type # "COMPLIANCE" /\ s(op, type).op \notin {"strategy", "ads"}
      BY <2>2, <3>1, <3>2 DEF Awaits
    <3>4. QED
      BY <1>2, <2>2, <3>2, <3>3
  <2>3. QED
    BY <1>3, <2>2 DEF BeginPersonas, BeginResearch
<1>4. ASSUME NEW g \in Campaigns, NEW op \in {"strategy", "ads"}, BeginOnCampaign(r, op, g)
      PROVE  req' \in [Requests -> GoodRequests] /\ req'[r].pc = "run"
               /\ req'[r].type # "COMPLIANCE"
  <2> DEFINE b == client[ClientOf[g]].brand
             type == IF op = "ads" THEN "COPY" ELSE "STRATEGY"
             s == [Idle EXCEPT !.op = op, !.on = g, !.pc = "run", !.type = type, !.brand = b]
  <2>1. b \in Brand
    <3>1. ClientOf[g] \in Clients /\ client[ClientOf[g]] # None
      BY <1>4, ContentAssumption DEF BeginOnCampaign
    <3>2. client[ClientOf[g]] \in ClientRows
      BY <3>1 DEF TypeOK
    <3>3. QED
      BY <3>2 DEF ClientRows
  <2>2. type \in Types /\ op \in {"strategy", "ads"}
    BY DEF Types
  <2>3. req' = [req EXCEPT ![r] = s]
    BY <1>4 DEF BeginOnCampaign
  <2>4. <<op, type>> \in Awaits /\ type # "COMPLIANCE"
    BY DEF Awaits
  <2> HIDE DEF b, type
  <2>5. /\ s \in Requesting /\ s.pc = "run" /\ s.op = op /\ s.type = type /\ s.on = g
        /\ s.brand = b
    BY <1>0, <2>2, <2>1
  <2> HIDE DEF s
  <2>6. QED
    BY <1>2, <2>1, <2>5, <2>3, <2>4
<1>5. ASSUME NEW url \in Urls, ExtractBrand(r, url)
      PROVE  req' \in [Requests -> GoodRequests] /\ req'[r].pc = "run"
               /\ req'[r].type # "COMPLIANCE"
  <2> DEFINE s == [Idle EXCEPT !.op = "extract", !.type = "RESEARCH", !.pc = "run"]
  <2>1. /\ s \in Requesting /\ s.pc = "run" /\ s.op = "extract" /\ s.type = "RESEARCH"
    BY <1>0 DEF Types
  <2>2. req' = [req EXCEPT ![r] = s]
    BY <1>5 DEF ExtractBrand
  <2> HIDE DEF s
  <2>3. QED
    BY <1>2, <2>1, <2>2 DEF Awaits
<1>6. "run" \notin Operations
  BY DEF Operations
<1>7. QED
  BY <1>1, <1>3, <1>4, <1>5, <1>6 DEF Begins

-----------------------------------------------------------------------------
(* A request and its runs.                                                 *)

\* Only rows that are new or RUNNING are written, each by the request that awaits it.
LEMMA RunWriters ==
    ASSUME Typed, NEW r \in Requests, RunKnown(req[r], runs), Asks(r)
    PROVE  \/ runs' = runs
           \/ \E m \in Runs : /\ runs[m] = None
                              /\ req[r].pc = "run" /\ req'[r].run = m
                              /\ runs' = [runs EXCEPT ![m] = [type |-> req[r].type,
                                                              on |-> req[r].on,
                                                              status |-> "RUNNING"]]
           \/ /\ req[r].pc \in WithRun /\ req[r].run \in Runs
              /\ runs[req[r].run] # None /\ runs[req[r].run].status = "RUNNING"
              /\ \E v \in {"SUCCEEDED", "FAILED"} :
                    runs' = [runs EXCEPT ![req[r].run].status = v]
<1>0. req[r] \in Requesting /\ req \in [Requests -> GoodRequests] /\ WellFormed(req[r])
  BY DEF Typed, GoodRequests
<1>1. req[r].pc \in {"record", "refused"} =>
        /\ req[r].pc \in WithRun /\ req[r].run \in Runs
        /\ runs[req[r].run] # None /\ runs[req[r].run].status = "RUNNING"
  BY <1>0 DEF WithRun, RunKnown, WellFormed
<1>2. CASE StartRun(r)
  <2>1. ASSUME NEW m \in {m \in Runs : runs[m] = None},
               runs' = [runs EXCEPT ![m] = [type |-> req[r].type, on |-> req[r].on,
                                            status |-> "RUNNING"]],
               req' = [req EXCEPT ![r].run = m, ![r].pc = "model", ![r].attempt = 1]
        PROVE  req'[r].run = m
    BY <1>0, <2>1 DEF Requesting
  <2>2. QED
    BY <1>2, <2>1 DEF StartRun
<1>3. CASE AskModel(r)
  BY <1>3 DEF AskModel, rows
<1>4. CASE RecordSuccess(r)
  BY <1>1, <1>4 DEF RecordSuccess
<1>5. CASE RecordFailure(r)
  BY <1>1, <1>5 DEF RecordFailure
<1>6. QED
  BY <1>2, <1>3, <1>4, <1>5 DEF Asks

LEMMA AsksMove ==
    ASSUME Typed, NEW r \in Requests, RunKnown(req[r], runs), Asks(r)
    PROVE  /\ req' \in [Requests -> GoodRequests]
           /\ RunKnown(req'[r], runs')
           /\ req'[r].pc \in InAgent \cup {"bank", "idle"}
<1> DEFINE q == req[r]
<1>0. /\ q \in GoodRequests /\ q \in Requesting /\ WellFormed(q)
      /\ req \in [Requests -> GoodRequests]
      /\ runs \in [Runs -> RunRows \cup {None}]
  BY DEF Typed, TypeOK, GoodRequests
<1>1. \A s : s.pc = "idle" => RunKnown(s, runs')
  BY DEF RunKnown, WithRun, Copied, Generating, InVariant, InAgent
<1>2. ASSUME Ends(r)
      PROVE  /\ req' \in [Requests -> GoodRequests]
             /\ RunKnown(req'[r], runs')
             /\ req'[r].pc \in InAgent \cup {"bank", "idle"}
  BY <1>0, <1>1, <1>2, Moves DEF Idle
\* The next request slot when only the program counter changes.
<1>3. ASSUME NEW to \in InAgent \cup {"bank"}, Leads(q, to), Goes(r, to)
      PROVE  /\ req' \in [Requests -> GoodRequests]
             /\ req'[r].pc = to /\ req'[r].type = q.type /\ req'[r].run = q.run
             /\ req'[r].copy = q.copy /\ req'[r].on = q.on
  <2>1. req' \in [Requests -> GoodRequests] /\ req'[r] = [q EXCEPT !.pc = to]
    BY <1>0, <1>3, GoesType
  <2>2. QED
    BY <1>0, <2>1 DEF Requesting
\* A run that comes to nothing, tolerated or not.
<1>4. ASSUME WithoutRun(r), q.pc \in {"run", "refused"},
             \/ runs' = runs
             \/ runs[q.run].status = "RUNNING" /\ q.run \in Runs
                  /\ \E v : runs' = [runs EXCEPT ![q.run].status = v]
      PROVE  /\ req' \in [Requests -> GoodRequests]
             /\ RunKnown(req'[r], runs')
             /\ req'[r].pc \in InAgent \cup {"bank", "idle"}
  <2>1. CASE q.type = "COMPLIANCE"
    <3>1. Goes(r, "bank") /\ Leads(q, "bank")
      BY <1>4, <2>1 DEF WithoutRun, Tolerated, Leads
    <3>2. q.copy \in Runs /\ Recorded(runs[q.copy], "COPY") /\ runs[q.copy].on = q.on
      BY <1>0, <1>4, <2>1 DEF RunKnown, Copied, InAgent, WellFormed
    <3>3. runs'[q.copy] = runs[q.copy]
      BY <1>0, <1>4, <3>2 DEF Recorded
    <3>4. /\ req' \in [Requests -> GoodRequests] /\ req'[r].pc = "bank"
          /\ req'[r].copy = q.copy /\ req'[r].on = q.on
      BY <1>3, <3>1
    <3>5. QED
      BY <3>2, <3>3, <3>4 DEF RunKnown, WithRun
  <2>2. CASE q.type # "COMPLIANCE"
    BY <1>2, <1>4, <2>2 DEF WithoutRun, Tolerated
  <2>3. QED
    BY <2>1, <2>2
<1>5. CASE StartRun(r)
  <2>1. ASSUME NEW m \in Runs, runs[m] = None,
               runs' = [runs EXCEPT ![m] = [type |-> q.type, on |-> q.on,
                                            status |-> "RUNNING"]],
               req' = [req EXCEPT ![r].run = m, ![r].pc = "model", ![r].attempt = 1]
        PROVE  /\ req' \in [Requests -> GoodRequests]
               /\ RunKnown(req'[r], runs')
               /\ req'[r].pc \in InAgent \cup {"bank", "idle"}
    <3> DEFINE s == [q EXCEPT !.run = m, !.pc = "model", !.attempt = 1]
    <3>1. /\ s \in Requesting /\ s.pc = "model" /\ s.op = q.op /\ s.on = q.on
          /\ s.type = q.type /\ s.run = m /\ s.brand = q.brand /\ s.copy = q.copy
          /\ s.todo = q.todo /\ s.count = q.count
      <4>1. m \in Runs \cup Files \cup {None} /\ "model" \in PC /\ 1 \in 0..2
        BY PCNames
      <4>2. QED
        BY <1>0, <4>1 DEF Requesting
    <3>2. req' = [req EXCEPT ![r] = s]
      BY <1>0, <2>1
    <3>3. q.pc = "run"
      BY <1>5 DEF StartRun
    <3> HIDE DEF s
    <3>4. WellFormed(s)
      BY <1>0, <3>1, <3>3
      DEF WellFormed, ClientWrites, InAgent, WithRun, Generating, InVariant, Copied
    <3>5. req' \in [Requests -> GoodRequests] /\ req'[r] = s
      BY <1>0, <3>1, <3>2, <3>4, Moves DEF GoodRequests
    <3>6. runs'[m] = [type |-> q.type, on |-> q.on, status |-> "RUNNING"]
      BY <1>0, <2>1
    <3>7. runs'[m] # None
      <4>1. q.type \in Types
        BY <1>0, <3>3 DEF WellFormed, InAgent, Awaits, Types
      <4>2. runs'[m] \in RunRows
        BY <1>0, <3>6, <4>1 DEF RunRows, Requesting, Types
      <4>3. QED
        BY <4>2, NoneAssumption
    <3>8. Copied(s) => Recorded(runs'[s.copy], "COPY") /\ runs'[s.copy].on = s.on
      <4>1. Copied(s) => Copied(q)
        BY <3>1, <3>3 DEF Copied, InAgent, Generating, InVariant
      <4>2. Copied(q) => /\ q.copy \in Runs /\ runs[q.copy] # None
                         /\ Recorded(runs[q.copy], "COPY") /\ runs[q.copy].on = q.on
        BY <1>0 DEF RunKnown, WellFormed, Recorded
      <4>3. QED
        BY <1>0, <2>1, <3>1, <4>1, <4>2
    <3>9. RunKnown(s, runs')
      BY <3>1, <3>6, <3>7, <3>8 DEF RunKnown, WithRun
    <3>10. QED
      BY <3>1, <3>5, <3>9 DEF InAgent
  <2>2. CASE WithoutRun(r) /\ UNCHANGED runs
    BY <1>4, <1>5, <2>2 DEF StartRun
  <2>3. QED
    BY <1>5, <2>1, <2>2 DEF StartRun
\* Asking changes neither the runs nor what the request is about.
<1>6. ASSUME runs' = runs, q.pc \in WithRun, NEW s \in GoodRequests,
             req' = [req EXCEPT ![r] = s], s.pc \in WithRun,
             s.type = q.type, s.run = q.run, s.copy = q.copy, s.on = q.on
      PROVE  /\ req' \in [Requests -> GoodRequests]
             /\ RunKnown(req'[r], runs')
             /\ req'[r].pc \in InAgent \cup {"bank", "idle"}
  <2>1. req' \in [Requests -> GoodRequests] /\ req'[r] = s
    BY <1>0, <1>6, Moves
  <2>2. Copied(s) => Copied(q)
    BY <1>6 DEF Copied, WithRun, InAgent, Generating, InVariant
  <2>3. RunKnown(s, runs)
    BY <1>6, <2>2 DEF RunKnown, WithRun
  <2>4. QED
    BY <1>6, <2>1, <2>3 DEF WithRun, InAgent
<1>7. ASSUME runs' = runs, NEW to \in WithRun, q.pc \in WithRun, Leads(q, to), Goes(r, to)
      PROVE  /\ req' \in [Requests -> GoodRequests]
             /\ RunKnown(req'[r], runs')
             /\ req'[r].pc \in InAgent \cup {"bank", "idle"}
  <2>1. /\ req' \in [Requests -> GoodRequests]
        /\ req'[r].pc = to /\ req'[r].type = q.type /\ req'[r].run = q.run
        /\ req'[r].copy = q.copy /\ req'[r].on = q.on
    BY <1>3, <1>7 DEF WithRun, InAgent
  <2>2. req'[r] \in GoodRequests /\ req' = [req EXCEPT ![r] = req'[r]]
    BY <1>0, <1>7, <2>1 DEF Goes
  <2>3. QED
    BY <1>6, <1>7, <2>1, <2>2
<1>8. CASE AskModel(r)
  <2>0. q.pc = "model" /\ runs' = runs /\ q.pc \in WithRun
    BY <1>8 DEF AskModel, rows, WithRun
  <2>1. CASE q.type # "COPY" /\ Answered(r)
    BY <1>7, <2>0, <2>1 DEF Answered, Leads, WithRun
  <2>2. CASE Goes(r, "refused")
    BY <1>7, <2>0, <2>2 DEF Leads, WithRun
  <2>3. CASE q.attempt < 2 /\ req' = [req EXCEPT ![r].attempt = req[r].attempt + 1]
    <3> DEFINE s == [q EXCEPT !.attempt = q.attempt + 1]
    <3>1. /\ s \in Requesting /\ s.pc = q.pc /\ s.op = q.op /\ s.on = q.on
          /\ s.type = q.type /\ s.run = q.run /\ s.brand = q.brand /\ s.copy = q.copy
          /\ s.todo = q.todo /\ s.count = q.count
      BY <1>0, <2>3 DEF Requesting
    <3>2. req' = [req EXCEPT ![r] = s]
      BY <1>0, <2>3
    <3> HIDE DEF s
    <3>3. WellFormed(s)
      BY <1>0, <3>1 DEF WellFormed, Copied
    <3>4. QED
      BY <1>6, <2>0, <3>1, <3>2, <3>3 DEF GoodRequests
  <2>4. CASE q.type = "COPY" /\ Answered(r)
    <3>1. PICK output \in Outputs :
            req' = [req EXCEPT ![r].pc = "record", ![r].todo = Grouped(Requested(output)),
                               ![r].count = Len(Requested(output))]
      BY <2>4 DEF Answered
    <3> DEFINE t == Grouped(Requested(output))
               n == Len(Requested(output))
               s == [q EXCEPT !.pc = "record", !.todo = t, !.count = n]
    <3>2. t \in Seq(Variants) /\ Len(t) = n /\ n \in 0..VariantCount
      BY AnswerType
    <3>3. req' = [req EXCEPT ![r] = s]
      BY <1>0, <3>1
    <3> HIDE DEF t, n
    <3>4. /\ s \in Requesting /\ s.pc = "record" /\ s.op = q.op /\ s.on = q.on
          /\ s.type = q.type /\ s.run = q.run /\ s.brand = q.brand /\ s.copy = q.copy
          /\ s.todo = t /\ s.count = n
      BY <1>0, <3>2, PCNames DEF Requesting
    <3> HIDE DEF s
    <3>5. WellFormed(s)
      BY <1>0, <2>0, <2>4, <3>2, <3>4
      DEF WellFormed, ClientWrites, InAgent, WithRun, Generating, InVariant, Copied
    <3>6. QED
      BY <1>6, <2>0, <3>3, <3>4, <3>5 DEF GoodRequests, WithRun
  <2>5. QED
    BY <1>8, <2>1, <2>2, <2>3, <2>4 DEF AskModel
<1>9. CASE RecordSuccess(r)
  <2>0. /\ q.pc = "record" /\ q.run \in Runs /\ <<q.op, q.type>> \in Awaits
        /\ runs[q.run] # None /\ runs[q.run].status = "RUNNING"
        /\ runs[q.run].type = q.type /\ runs[q.run].on = q.on
    BY <1>0, <1>9 DEF RecordSuccess, WithRun, InAgent, RunKnown, WellFormed
  <2>1. CASE Goes(r, "refused") /\ UNCHANGED runs
    BY <1>7, <2>0, <2>1 DEF Leads, WithRun
  <2>2. CASE runs' = [runs EXCEPT ![q.run].status = "SUCCEEDED"] /\ AfterRun(r)
    <3>1. Recorded(runs'[q.run], q.type) /\ runs'[q.run].on = q.on
      <4>1. runs[q.run] \in RunRows
        BY <1>0, <2>0
      <4>2. runs'[q.run] = [runs[q.run] EXCEPT !.status = "SUCCEEDED"]
        BY <1>0, <2>0, <2>2
      <4>3. /\ runs'[q.run].status = "SUCCEEDED" /\ runs'[q.run].type = q.type
            /\ runs'[q.run].on = q.on /\ runs'[q.run] \in RunRows
        BY <2>0, <4>1, <4>2 DEF RunRows
      <4>4. QED
        BY <4>3, NoneAssumption DEF Recorded
    <3>2. CASE q.type = "COPY"
      <4> DEFINE s == [q EXCEPT !.copy = q.run, !.type = "COMPLIANCE", !.pc = "run"]
      <4>1. req' = [req EXCEPT ![r] = s]
        BY <1>0, <2>2, <3>2 DEF AfterRun
      <4>2. /\ s \in Requesting /\ s.pc = "run" /\ s.op = q.op /\ s.on = q.on
            /\ s.type = "COMPLIANCE" /\ s.brand = q.brand /\ s.copy = q.run
            /\ s.todo = q.todo /\ s.count = q.count
        BY <1>0, <2>0, PCNames DEF Requesting, Types
      <4> HIDE DEF s
      <4>3. q.op = "ads" /\ Len(q.todo) = q.count
        BY <1>0, <2>0, <3>2 DEF WellFormed, Awaits
      <4>4. WellFormed(s)
        BY <1>0, <2>0, <4>2, <4>3
        DEF WellFormed, ClientWrites, InAgent, WithRun, Generating, InVariant, Copied, Awaits
      <4>5. req' \in [Requests -> GoodRequests] /\ req'[r] = s
        BY <1>0, <4>1, <4>2, <4>4, Moves DEF GoodRequests
      <4>6. RunKnown(s, runs')
        BY <3>1, <3>2, <4>2 DEF RunKnown, WithRun
      <4>7. QED
        BY <4>2, <4>5, <4>6 DEF InAgent
    <3>3. CASE q.type = "COMPLIANCE"
      <4>1. Goes(r, "bank") /\ Leads(q, "bank")
        BY <2>0, <2>2, <3>3 DEF AfterRun, Leads
      <4>2. q.copy \in Runs /\ Recorded(runs[q.copy], "COPY") /\ runs[q.copy].on = q.on
        BY <1>0, <2>0, <3>3 DEF RunKnown, Copied, InAgent, WellFormed
      <4>3. runs'[q.copy] = runs[q.copy]
        BY <1>0, <2>0, <2>2, <4>2 DEF Recorded
      <4>4. /\ req' \in [Requests -> GoodRequests] /\ req'[r].pc = "bank"
            /\ req'[r].copy = q.copy /\ req'[r].on = q.on
        BY <1>3, <4>1
      <4>5. QED
        BY <4>2, <4>3, <4>4 DEF RunKnown, WithRun
    <3>4. CASE q.type \in {"PERSONA", "STRATEGY"}
      <4>1. Goes(r, "store") /\ Leads(q, "store")
        BY <2>0, <2>2, <3>4 DEF AfterRun, Leads
      <4>2. /\ req' \in [Requests -> GoodRequests] /\ req'[r].pc = "store"
            /\ req'[r].type = q.type /\ req'[r].run = q.run /\ req'[r].on = q.on
        BY <1>3, <4>1 DEF InAgent
      <4>3. ~Copied(req'[r])
        BY <3>4, <4>2 DEF Copied, Generating, InVariant
      <4>4. QED
        BY <3>1, <4>2, <4>3 DEF RunKnown, WithRun, InAgent
    <3>5. CASE q.type = "RESEARCH"
      BY <1>2, <2>2, <3>5 DEF AfterRun
    <3>6. QED
      BY <2>0, <3>2, <3>3, <3>4, <3>5 DEF Awaits
  <2>3. QED
    BY <1>9, <2>1, <2>2 DEF RecordSuccess
<1>10. CASE RecordFailure(r)
  <2>1. q.pc = "refused" /\ q.run \in Runs /\ runs[q.run].status = "RUNNING"
    BY <1>0, <1>10 DEF RecordFailure, WithRun, RunKnown, WellFormed
  <2>2. \/ runs' = runs
        \/ runs' = [runs EXCEPT ![q.run].status = "FAILED"]
    BY <1>10 DEF RecordFailure
  <2>3. WithoutRun(r)
    BY <1>10 DEF RecordFailure
  <2>4. QED
    BY <1>4, <2>1, <2>2, <2>3
<1>11. QED
  BY <1>5, <1>8, <1>9, <1>10 DEF Asks

-----------------------------------------------------------------------------
(* What a step keeps for the requests it does not serve.                   *)

\* The variants a campaign that is there has in its ads stay stored.
VariantsKept ==
    /\ campaigns' \subseteq campaigns
    /\ \A s \in Slots : creative[s] # None => creative'[s] # None
    /\ \A m \in Runs : runs[m] # None /\ runs[m].on \in campaigns' =>
         /\ \A p \in Personas : <<m, p>> \in adSets => <<m, p>> \in adSets'
         /\ \A i \in 1..VariantCount :
              Stored(m, i, creative, ad, adSets) => Stored(m, i, creative', ad', adSets')

RowsKept ==
    /\ \A k \in Clients : client[k] # None => client'[k] # None
    /\ files \subseteq files' /\ bank \subseteq bank'

\* A row that has succeeded never changes.
RunsKept ==
    \A m \in Runs : runs[m] # None =>
      /\ runs'[m] # None /\ runs'[m].type = runs[m].type /\ runs'[m].on = runs[m].on
      /\ runs[m].status = "SUCCEEDED" => runs'[m].status = "SUCCEEDED"

LEMMA RowsKnownStays ==
    ASSUME NEW q \in GoodRequests, RowsKnown(q, client, files, bank), RowsKept
    PROVE  RowsKnown(q, client', files', bank')
<1>1. WellFormed(q)
  BY DEF GoodRequests
<1>2. QED
  BY <1>1 DEF RowsKnown, RowsKept, WellFormed

LEMMA DoneType ==
    ASSUME NEW q \in GoodRequests, q.pc \in {"bank", "report"} \cup InVariant
    PROVE  Done(q) \in 0..VariantCount /\ Done(q) \in 0..q.count /\ q.count \in 0..VariantCount
<1>1. q.todo \in Seq(Variants) /\ q.count \in 0..VariantCount
  BY DEF GoodRequests, Requesting
<1>2. Len(q.todo) \in 0..q.count
  <2>1. CASE q.pc = "report"
    <3>1. q.todo = <<>>
      BY <2>1 DEF GoodRequests, WellFormed
    <3>2. Len(q.todo) = 0
      BY <3>1
    <3>3. QED
      BY <1>1, <3>2
  <2>2. CASE q.pc = "bank"
    <3>1. Len(q.todo) = q.count
      BY <2>2 DEF GoodRequests, WellFormed
    <3>2. QED
      BY <1>1, <3>1
  <2>3. CASE q.pc \in InVariant
    <3>1. Len(q.todo) \in 1..q.count
      BY <2>3 DEF GoodRequests, WellFormed
    <3>2. QED
      BY <1>1, <3>1
  <2>4. QED
    BY <2>1, <2>2, <2>3
<1>3. VariantCount \in Nat
  BY ContentAssumption
<1>4. QED
  BY <1>1, <1>2, <1>3 DEF Done

\* The persona of the variant that is next.
LEMMA NextVariant ==
    ASSUME NEW q \in GoodRequests, q.pc \in InVariant
    PROVE  /\ q.todo \in Seq(Variants) /\ q.todo # <<>> /\ Len(q.todo) \in 1..q.count
           /\ Head(q.todo) \in Variants /\ Head(q.todo).persona \in Personas
           /\ q.copy \in Runs /\ Done(q) + 1 \in 1..q.count
           /\ <<q.copy, Done(q) + 1>> \in Slots
<1>1. q.todo \in Seq(Variants) /\ q.count \in 0..VariantCount
  BY DEF GoodRequests, Requesting
<1>2. Len(q.todo) \in 1..q.count /\ q.copy \in Runs
  BY DEF GoodRequests, WellFormed, Copied, Generating
<1>3. q.todo # <<>> /\ Head(q.todo) \in Variants
  BY <1>1, <1>2
<1>4. VariantCount \in Nat
  BY ContentAssumption
<1>5. Done(q) + 1 \in 1..q.count /\ Done(q) + 1 \in 1..VariantCount
  BY <1>1, <1>2, <1>4 DEF Done
<1>6. QED
  BY <1>1, <1>2, <1>3, <1>5 DEF Slots, Personas

LEMMA ProgressStays ==
    ASSUME NEW q \in GoodRequests, RunKnown(q, runs), VariantsKept,
           Progress(q, campaigns, creative, ad, adSets)
    PROVE  Progress(q, campaigns', creative', ad', adSets')
<1>1. WellFormed(q)
  BY DEF GoodRequests
<1>2. q.pc \in {"report"} \cup InVariant =>
        q.copy \in Runs /\ runs[q.copy] # None /\ runs[q.copy].on = q.on
  BY <1>1 DEF WellFormed, RunKnown, Copied, Generating, Recorded
<1>3. ASSUME q.pc \in {"report"} \cup InVariant, q.on \in campaigns',
             NEW i \in 1..Done(q)
      PROVE  Stored(q.copy, i, creative', ad', adSets')
  <2>1. Done(q) \in 0..VariantCount
    BY <1>3, DoneType
  <2>2. i \in 1..VariantCount
    BY <2>1, ContentAssumption
  <2>3. Stored(q.copy, i, creative, ad, adSets)
    BY <1>3 DEF Progress, VariantsKept
  <2>4. QED
    BY <1>2, <1>3, <2>2, <2>3 DEF VariantsKept
<1>4. ASSUME q.pc \in {"creative", "ad"}, q.on \in campaigns'
      PROVE  <<q.copy, Head(q.todo).persona>> \in adSets'
  <2>1. q.pc \in InVariant
    BY <1>4 DEF InVariant
  <2>2. Head(q.todo).persona \in Personas
    BY <2>1, NextVariant
  <2>3. <<q.copy, Head(q.todo).persona>> \in adSets
    BY <1>4 DEF Progress, VariantsKept
  <2>4. QED
    BY <1>2, <1>4, <2>1, <2>2, <2>3 DEF VariantsKept
<1>5. q.pc = "ad" => creative'[<<q.copy, Done(q) + 1>>] # None
  BY NextVariant DEF Progress, VariantsKept, InVariant
<1>6. QED
  BY <1>3, <1>4, <1>5 DEF Progress

\* What is stored keeps the run it came from.
LEMMA SucceededStays ==
    ASSUME RunsKept, NEW m, NEW type, Succeeded(m, type)
    PROVE  /\ runs'[m] # None /\ runs'[m].status = "SUCCEEDED" /\ runs'[m].type = type
           /\ runs'[m].on = runs[m].on /\ m \in Runs
  BY DEF RunsKept, Succeeded

\* The runs beside the request that writes one.
LEMMA AsksKeep ==
    ASSUME Typed, NEW r \in Requests, RunKnown(req[r], runs), Asks(r)
    PROVE  /\ RunsKept
           /\ runs' \in [Runs -> RunRows \cup {None}]
           /\ \A q \in Requests : q # r /\ RunsApart /\ RunKnown(req[q], runs)
                => RunKnown(req[q], runs')
<1>0. /\ runs \in [Runs -> RunRows \cup {None}] /\ req[r] \in Requesting /\ WellFormed(req[r])
      /\ \A q \in Requests : WellFormed(req[q])
  BY DEF Typed, TypeOK, GoodRequests
<1>1. CASE runs' = runs
  BY <1>0, <1>1 DEF RunsKept
<1>2. ASSUME NEW m \in Runs, runs[m] = None, req[r].pc = "run",
             runs' = [runs EXCEPT ![m] = [type |-> req[r].type, on |-> req[r].on,
                                          status |-> "RUNNING"]]
      PROVE  /\ RunsKept
             /\ runs' \in [Runs -> RunRows \cup {None}]
             /\ \A q \in Requests : RunKnown(req[q], runs) => RunKnown(req[q], runs')
  <2>1. \A n \in Runs : runs[n] # None => runs'[n] = runs[n]
    BY <1>0, <1>2
  <2>2. req[r].type \in Types
    BY <1>0, <1>2 DEF WellFormed, InAgent, Awaits, Types
  <2>3. [type |-> req[r].type, on |-> req[r].on, status |-> "RUNNING"] \in RunRows
    BY <1>0, <2>2 DEF RunRows, Requesting, Types
  <2>4. ASSUME NEW q \in Requests, RunKnown(req[q], runs)
        PROVE  RunKnown(req[q], runs')
    <3>1. /\ req[q].pc \in WithRun \cup {"store"} =>
               req[q].run \in Runs /\ runs[req[q].run] # None
          /\ Copied(req[q]) => req[q].copy \in Runs /\ runs[req[q].copy] # None
      BY <1>0, <2>4 DEF RunKnown, WellFormed, Recorded
    <3>2. /\ req[q].pc \in WithRun \cup {"store"} => runs'[req[q].run] = runs[req[q].run]
          /\ Copied(req[q]) => runs'[req[q].copy] = runs[req[q].copy]
      BY <2>1, <3>1
    <3>3. QED
      BY <2>4, <3>2 DEF RunKnown, Recorded
  <2>5. runs' \in [Runs -> RunRows \cup {None}]
    BY <1>0, <1>2, <2>3
  <2>6. QED
    BY <2>1, <2>4, <2>5 DEF RunsKept
<1>3. ASSUME req[r].pc \in WithRun, req[r].run \in Runs, runs[req[r].run] # None,
             runs[req[r].run].status = "RUNNING", NEW v \in {"SUCCEEDED", "FAILED"},
             runs' = [runs EXCEPT ![req[r].run].status = v]
      PROVE  /\ RunsKept
             /\ runs' \in [Runs -> RunRows \cup {None}]
             /\ \A q \in Requests : q # r /\ RunsApart /\ RunKnown(req[q], runs)
                  => RunKnown(req[q], runs')
  <2> DEFINE m == req[r].run
  <2>0. m \in Runs /\ runs[m] \in RunRows /\ runs[m].status = "RUNNING"
    BY <1>0, <1>3
  <2>1. \A n \in Runs : n # m => runs'[n] = runs[n]
    BY <1>0, <1>3
  <2>2. /\ runs'[m] \in RunRows /\ runs'[m].type = runs[m].type /\ runs'[m].on = runs[m].on
        /\ runs'[m] # None
    <3>1. runs'[m] = [runs[m] EXCEPT !.status = v]
      BY <1>0, <1>3
    <3>2. QED
      BY <2>0, <3>1, NoneAssumption DEF RunRows
  <2>3. RunsKept
    BY <2>0, <2>1, <2>2 DEF RunsKept
  <2>4. ASSUME NEW q \in Requests, q # r, RunsApart, RunKnown(req[q], runs)
        PROVE  RunKnown(req[q], runs')
    <3>1. /\ req[q].pc \in WithRun => req[q].run \in Runs /\ req[q].run # m
          /\ req[q].pc = "store" => req[q].run \in Runs /\ req[q].run # m
          /\ Copied(req[q]) => req[q].copy \in Runs /\ req[q].copy # m
      BY <1>0, <1>3, <2>0, <2>4 DEF RunKnown, WellFormed, Recorded, RunsApart
    <3>2. /\ req[q].pc \in WithRun \cup {"store"} => runs'[req[q].run] = runs[req[q].run]
          /\ Copied(req[q]) => runs'[req[q].copy] = runs[req[q].copy]
      BY <2>1, <3>1
    <3>3. QED
      BY <2>4, <3>2 DEF RunKnown, Recorded
  <2>5. runs' \in [Runs -> RunRows \cup {None}]
    BY <1>0, <1>3, <2>1, <2>2
  <2>6. QED
    BY <2>3, <2>4, <2>5
<1>4. QED
  BY <1>1, <1>2, <1>3, RunWriters

\* A request goes on with its own run, or takes one that nobody has.
LEMMA AsksApart ==
    ASSUME Typed, NEW r \in Requests, RunKnown(req[r], runs), Asks(r),
           req'[r].pc \in WithRun
    PROVE  \/ req[r].pc \in WithRun /\ req'[r].run = req[r].run
           \/ req'[r].run \in Runs /\ runs[req'[r].run] = None
<1> DEFINE q == req[r]
<1>0. /\ q \in Requesting /\ q \in GoodRequests /\ WellFormed(q)
      /\ req \in [Requests -> GoodRequests]
  BY DEF Typed, GoodRequests
<1>1. ~Ends(r)
  BY <1>0, Moves DEF Idle, WithRun
<1>2. ~Goes(r, "bank") /\ ~Goes(r, "store")
  BY <1>0 DEF Goes, WithRun, Requesting
<1>3. CASE StartRun(r)
  <2>1. PICK m \in Runs :
          /\ runs[m] = None
          /\ req' = [req EXCEPT ![r].run = m, ![r].pc = "model", ![r].attempt = 1]
    BY <1>1, <1>2, <1>3 DEF StartRun, WithoutRun
  <2>2. req'[r].run = m
    BY <1>0, <2>1 DEF Requesting
  <2>3. QED
    BY <2>1, <2>2
<1>4. CASE AskModel(r)
  <2>1. q.pc \in WithRun
    BY <1>4 DEF AskModel, WithRun
  <2>2. \A to : Goes(r, to) => req'[r].run = q.run
    BY <1>0 DEF Goes, Requesting
  <2>3. req' = [req EXCEPT ![r].attempt = req[r].attempt + 1] => req'[r].run = q.run
    BY <1>0 DEF Requesting
  <2>4. \A t, n : req' = [req EXCEPT ![r].pc = "record", ![r].todo = t, ![r].count = n]
                    => req'[r].run = q.run
    BY <1>0 DEF Requesting
  <2>5. Answered(r) => req'[r].run = q.run
    BY <2>2, <2>4 DEF Answered
  <2>6. QED
    BY <1>4, <2>1, <2>2, <2>3, <2>5 DEF AskModel
<1>5. CASE RecordSuccess(r)
  <2>1. q.pc \in WithRun /\ <<q.op, q.type>> \in Awaits
    BY <1>0, <1>5 DEF RecordSuccess, WithRun, WellFormed, InAgent
  <2>2. ~AfterRun(r)
    <3>1. SUFFICES ASSUME AfterRun(r) PROVE FALSE
      OBVIOUS
    <3>2. q.type = "COPY" =>
            req' = [req EXCEPT ![r].copy = req[r].run, ![r].type = "COMPLIANCE", ![r].pc = "run"]
      BY <3>1 DEF AfterRun
    <3>3. q.type # "COPY"
      <4>1. ASSUME q.type = "COPY" PROVE req'[r].pc = "run"
        BY <1>0, <3>2, <4>1 DEF Requesting
      <4>2. QED
        BY <4>1 DEF WithRun
    <3>4. QED
      BY <1>1, <1>2, <2>1, <3>1, <3>3 DEF AfterRun, Awaits
  <2>3. Goes(r, "refused")
    BY <1>5, <2>2 DEF RecordSuccess
  <2>4. req'[r].run = q.run
    BY <1>0, <2>3 DEF Goes, Requesting
  <2>5. QED
    BY <2>1, <2>4
<1>6. CASE RecordFailure(r)
  BY <1>1, <1>2, <1>6 DEF RecordFailure, WithoutRun
<1>7. QED
  BY <1>3, <1>4, <1>5, <1>6 DEF Asks

-----------------------------------------------------------------------------
(* The rows of the clients.                                                *)

Unarchived(k) == client[k] # None /\ client[k].status = "ARCHIVED" =>
                   client'[k].status = "ARCHIVED"

\* A client row that keeps its status, or that an update moves.
LEMMA WritesMove ==
    ASSUME Typed, NEW r \in Requests, RowsKnown(req[r], client, files, bank), Writes(r)
    PROVE  /\ req' \in [Requests -> GoodRequests]
           /\ client' \in [Clients -> ClientRows \cup {None}]
           /\ \A k \in Clients : (client[k] # None => client'[k] # None) /\ Unarchived(k)
           /\ req'[r].pc \in {"idle", "activate"}
           /\ req'[r].pc = "activate" => req'[r].on = req[r].on /\ req[r].on \in Clients
                                           /\ client[req[r].on] # None
<1> DEFINE q == req[r]
           k == q.on
<1>0. /\ q \in Requesting /\ q \in GoodRequests /\ WellFormed(q)
      /\ req \in [Requests -> GoodRequests]
      /\ client \in [Clients -> ClientRows \cup {None}]
  BY DEF Typed, TypeOK, GoodRequests
<1>1. /\ q.pc \in ClientWrites /\ k \in Clients /\ client[k] # None
      /\ client[k] \in ClientRows
  <2>1. q.pc \in ClientWrites
    BY DEF Writes, Update, Archive, UpsertBrandProfile, Activate, ClientWrites
  <2>2. QED
    BY <1>0, <2>1 DEF WellFormed, RowsKnown
<1>2. None \notin ClientRows
  BY NoneAssumption
<1> HIDE DEF q, k
<1>3. ASSUME NEW row \in ClientRows, client' = [client EXCEPT ![k] = row],
             client[k].status = "ARCHIVED" => row.status = "ARCHIVED"
      PROVE  /\ client' \in [Clients -> ClientRows \cup {None}]
             /\ \A c \in Clients : (client[c] # None => client'[c] # None) /\ Unarchived(c)
  BY <1>0, <1>1, <1>2, <1>3 DEF Unarchived
<1>4. Ends(r) => req' \in [Requests -> GoodRequests] /\ req'[r].pc = "idle"
  BY <1>0, Moves DEF Idle
<1>5. CASE Update(r)
  <2>1. PICK industry \in Industries :
          client' = [client EXCEPT ![k].brand.industry = industry]
    BY <1>5 DEF Update, k, q
  <2> DEFINE row == [client[k] EXCEPT !.brand.industry = industry]
  <2>2. row \in ClientRows /\ row.status = client[k].status
    BY <1>1 DEF ClientRows, Brand
  <2>3. client' = [client EXCEPT ![k] = row]
    BY <1>0, <1>1, <2>1
  <2> HIDE DEF row
  <2>4. QED
    BY <1>3, <1>4, <1>5, <2>2, <2>3 DEF Update
<1>6. CASE Archive(r)
  <2> DEFINE row == [client[k] EXCEPT !.status = "ARCHIVED"]
  <2>2. row \in ClientRows /\ row.status = "ARCHIVED"
    BY <1>1 DEF ClientRows
  <2>3. client' = [client EXCEPT ![k] = row]
    BY <1>0, <1>1, <1>6 DEF Archive, k, q
  <2> HIDE DEF row
  <2>4. QED
    BY <1>3, <1>4, <1>6, <2>2, <2>3 DEF Archive
<1>7. CASE UpsertBrandProfile(r)
  <2>1. PICK words \in Restrictions : client' = [client EXCEPT ![k].brand.words = words]
    BY <1>7 DEF UpsertBrandProfile, k, q
  <2> DEFINE row == [client[k] EXCEPT !.brand.words = words]
  <2>2. row \in ClientRows /\ row.status = client[k].status
    BY <1>1 DEF ClientRows, Brand
  <2>3. client' = [client EXCEPT ![k] = row]
    BY <1>0, <1>1, <2>1
  <2>4. Goes(r, "activate") /\ Leads(req[r], "activate")
    BY <1>7 DEF UpsertBrandProfile, Leads
  <2>5. req' \in [Requests -> GoodRequests] /\ req'[r] = [q EXCEPT !.pc = "activate"]
    BY <1>0, <2>4, GoesType DEF q
  <2>6. req'[r].pc = "activate" /\ req'[r].on = k
    BY <1>0, <2>5 DEF Requesting, k
  <2> HIDE DEF row
  <2>7. QED
    BY <1>1, <1>3, <2>2, <2>3, <2>5, <2>6 DEF k, q
<1>8. CASE Activate(r)
  <2>1. Ends(r)
    BY <1>8 DEF Activate
  <2>2. CASE client[k].status = "ONBOARDING"
    <3> DEFINE row == [client[k] EXCEPT !.status = "ACTIVE"]
    <3>1. row \in ClientRows
      BY <1>1 DEF ClientRows
    <3>2. client' = [client EXCEPT ![k] = row]
      BY <1>0, <1>1, <1>8, <2>2 DEF Activate, k, q
    <3> HIDE DEF row
    <3>3. QED
      BY <1>3, <1>4, <2>1, <2>2, <3>1, <3>2
  <2>3. CASE client[k].status # "ONBOARDING"
    <3>1. client' = client
      BY <1>8, <2>3 DEF Activate, k, q
    <3>2. QED
      BY <1>0, <1>4, <2>1, <3>1 DEF Unarchived
  <2>4. QED
    BY <2>2, <2>3
<1>9. QED
  BY <1>5, <1>6, <1>7, <1>8 DEF Writes

\* What a request that has begun, or is done, leaves.
LEMMA FinishesMove ==
    ASSUME Typed, NEW r \in Requests, RowsKnown(req[r], client, files, bank), Finishes(r)
    PROVE  /\ req' \in [Requests -> GoodRequests]
           /\ UNCHANGED rows
           /\ files \subseteq files' /\ assets \subseteq assets'
           /\ assets' \subseteq files' /\ files' \subseteq Files
           /\ req'[r].pc \in {"idle", "row"}
           /\ req'[r].pc = "row" => req'[r].run \in files'
<1> DEFINE q == req[r]
<1>0. /\ q \in Requesting /\ q \in GoodRequests /\ WellFormed(q)
      /\ req \in [Requests -> GoodRequests]
      /\ assets \subseteq files /\ files \subseteq Files
  BY DEF Typed, TypeOK, GoodRequests, AssetRows
<1>1. Ends(r) => req' \in [Requests -> GoodRequests] /\ req'[r].pc = "idle"
  BY <1>0, Moves DEF Idle
<1>2. CASE Report(r) \/ Broken(r)
  BY <1>0, <1>1, <1>2 DEF Report, Broken
<1>3. CASE PutFile(r)
  <2>1. PICK f \in Files :
          files' = files \cup {f} /\ req' = [req EXCEPT ![r].pc = "row", ![r].run = f]
    BY <1>3 DEF PutFile
  <2> DEFINE s == [q EXCEPT !.pc = "row", !.run = f]
  <2>2. "row" \in PC /\ f \in Runs \cup Files \cup {None} /\ q.pc = "upload"
    BY <1>3, PCNames DEF PutFile
  <2>3. /\ s \in Requesting /\ s.pc = "row" /\ s.run = f /\ s.op = q.op
        /\ s.on = q.on /\ s.type = q.type /\ s.brand = q.brand
    BY <1>0, <2>2 DEF Requesting
  <2>4. req' = [req EXCEPT ![r] = s]
    BY <1>0, <2>1
  <2> HIDE DEF s
  <2>5. WellFormed(s)
    BY <1>0, <2>2, <2>3
    DEF WellFormed, ClientWrites, InAgent, WithRun, Generating, InVariant, Copied
  <2>6. req' \in [Requests -> GoodRequests] /\ req'[r] = s
    BY <1>0, <2>3, <2>4, <2>5, Moves DEF GoodRequests
  <2>7. QED
    BY <1>0, <1>3, <2>1, <2>3, <2>6 DEF PutFile
<1>4. CASE StoreAsset(r)
  <2>1. q.run \in files
    BY <1>4 DEF StoreAsset, RowsKnown
  <2>2. QED
    BY <1>0, <1>1, <1>4, <2>1 DEF StoreAsset
<1>5. QED
  BY <1>2, <1>3, <1>4 DEF Finishes

-----------------------------------------------------------------------------
(* What requests store.                                                    *)

RowsTyped ==
    /\ client \in [Clients -> ClientRows \cup {None}]
    /\ campaigns \subseteq Campaigns
    /\ runs \in [Runs -> RunRows \cup {None}]
    /\ persona \in [Runs -> PersonaRows \cup {None}]
    /\ strategy \in [Campaigns -> Runs \cup {None}]
    /\ bank \subseteq BankRows /\ adSets \subseteq AdSetRows
    /\ creative \in [Slots -> CreativeRows \cup {None}]
    /\ \A s \in Slots : creative[s] # None => creative[s].asset \in assets \cup {None}
    /\ ad \in [Slots -> AdRows \cup {None}]
    /\ assets \subseteq files /\ files \subseteq AssetRows

LEMMA TypesSplit ==
    /\ TypeOK => RowsTyped
    /\ RowsTyped /\ req \in [Requests -> GoodRequests] => TypeOK
<1>1. \A r \in Requests : req \in [Requests -> GoodRequests] => req[r].attempt \in 0..2
  BY DEF GoodRequests, Requesting
<1>2. QED
  BY <1>1 DEF TypeOK, RowsTyped

\* A request that holds no copy and writes no rows of its own relies on nothing.
LEMMA IdleKnows ==
    ASSUME NEW s, s.pc = "idle", NEW rs, NEW cl, NEW fs, NEW bk, NEW cs, NEW cr, NEW ads, NEW sets
    PROVE  RunKnown(s, rs) /\ RowsKnown(s, cl, fs, bk) /\ Progress(s, cs, cr, ads, sets)
  BY DEF RunKnown, RowsKnown, Progress, WithRun, Copied, Generating, InVariant, InAgent, ClientWrites

\* What every step that stores something guarantees.
Sound(r) ==
    /\ req' \in [Requests -> GoodRequests]
    /\ RowsTyped'
    /\ RowsKept /\ VariantsKept
    /\ RunKnown(req'[r], runs') /\ RowsKnown(req'[r], client', files', bank')
    /\ Progress(req'[r], campaigns', creative', ad', adSets')
    /\ FromSuccessfulRuns' /\ ForbiddenIsMarked'

LEMMA StorePersonasSound ==
    ASSUME ContentInvariant, NEW r \in Requests, StorePersonas(r)
    PROVE  Sound(r)
<1> DEFINE q == req[r]
<1>0. /\ RowsTyped /\ WellFormed(q) /\ req \in [Requests -> GoodRequests]
  BY TypesSplit DEF ContentInvariant, Typed, GoodRequests
<1>1. q.run \in Runs /\ q.type = "PERSONA" /\ Recorded(runs[q.run], "PERSONA")
  BY <1>0 DEF StorePersonas, WellFormed, InAgent, Awaits, ContentInvariant, RunKnown
<1>2. req' \in [Requests -> GoodRequests] /\ req'[r].pc = "idle"
  BY <1>0, Moves DEF StorePersonas, Idle
<1>3. RowsTyped'
  BY <1>0, <1>1 DEF StorePersonas, RowsTyped, PersonaRows
<1>4. FromSuccessfulRuns'
  <2>1. Succeeded(q.run, "PERSONA")
    BY <1>1 DEF Succeeded, Recorded
  <2>2. \A m \in Runs : persona'[m] # None => m = q.run \/ persona[m] # None
    BY <1>0 DEF StorePersonas, RowsTyped
  <2>3. QED
    BY <2>1, <2>2 DEF StorePersonas, FromSuccessfulRuns, ContentInvariant, Succeeded
<1>5. ForbiddenIsMarked'
  BY DEF StorePersonas, ForbiddenIsMarked, ContentInvariant
<1>6. RowsKept /\ VariantsKept
  BY DEF StorePersonas, RowsKept, VariantsKept
<1>7. QED
  BY <1>2, <1>3, <1>4, <1>5, <1>6, IdleKnows DEF Sound

LEMMA StoreStrategySound ==
    ASSUME ContentInvariant, NEW r \in Requests, StoreStrategy(r)
    PROVE  Sound(r)
<1> DEFINE q == req[r]
<1>0. /\ RowsTyped /\ WellFormed(q) /\ req \in [Requests -> GoodRequests]
  BY TypesSplit DEF ContentInvariant, Typed, GoodRequests
<1>1. /\ q.run \in Runs /\ q.type = "STRATEGY" /\ Recorded(runs[q.run], "STRATEGY")
      /\ runs[q.run].on = q.on /\ q.on \in Campaigns
  BY <1>0 DEF StoreStrategy, WellFormed, InAgent, Awaits, ContentInvariant, RunKnown
<1>2. req' \in [Requests -> GoodRequests] /\ req'[r].pc = "idle"
  BY <1>0, Moves DEF StoreStrategy, Idle
<1>3. RowsTyped'
  BY <1>0, <1>1 DEF StoreStrategy, RowsTyped
<1>4. FromSuccessfulRuns'
  <2>1. Succeeded(q.run, "STRATEGY")
    BY <1>1 DEF Succeeded, Recorded
  <2>2. \A g \in Campaigns : strategy'[g] = strategy[g] \/ (g = q.on /\ strategy'[g] = q.run)
    BY <1>0 DEF StoreStrategy, RowsTyped
  <2>3. QED
    BY <1>1, <2>1, <2>2 DEF StoreStrategy, FromSuccessfulRuns, ContentInvariant, Succeeded
<1>5. ForbiddenIsMarked'
  BY DEF StoreStrategy, ForbiddenIsMarked, ContentInvariant
<1>6. RowsKept /\ VariantsKept
  BY DEF StoreStrategy, RowsKept, VariantsKept
<1>7. QED
  BY <1>2, <1>3, <1>4, <1>5, <1>6, IdleKnows DEF Sound

\* A step of the generation that only moves the program counter of its request.
LEMMA GenerationMoves ==
    ASSUME ContentInvariant, NEW r \in Requests, NEW to, Leads(req[r], to), Goes(r, to),
           req[r].pc \in Generating, to \in Generating \ {"bank"}, UNCHANGED runs
    PROVE  /\ req' \in [Requests -> GoodRequests]
           /\ RunKnown(req'[r], runs')
           /\ req'[r].pc = to /\ req'[r].copy = req[r].copy /\ req'[r].on = req[r].on
           /\ req'[r].todo = req[r].todo /\ req'[r].count = req[r].count
           /\ Done(req'[r]) = Done(req[r])
<1> DEFINE q == req[r]
<1>0. /\ q \in Requesting /\ WellFormed(q) /\ req \in [Requests -> GoodRequests]
      /\ RunKnown(q, runs)
  BY DEF ContentInvariant, Typed, GoodRequests
<1>1. req' \in [Requests -> GoodRequests] /\ req'[r] = [q EXCEPT !.pc = to]
  BY <1>0, GoesType
<1>2. /\ req'[r].pc = to /\ req'[r].copy = q.copy /\ req'[r].on = q.on
      /\ req'[r].todo = q.todo /\ req'[r].count = q.count
  BY <1>0, <1>1 DEF Requesting
<1>3. Copied(q) /\ to \notin WithRun /\ to # "store"
  BY DEF Copied, Generating, InVariant, WithRun
<1>4. RunKnown(req'[r], runs')
  BY <1>0, <1>2, <1>3 DEF RunKnown
<1>5. QED
  BY <1>1, <1>2, <1>4 DEF Done

LEMMA StoreCopySound ==
    ASSUME ContentInvariant, NEW r \in Requests, StoreCopy(r)
    PROVE  Sound(r)
<1> DEFINE q == req[r]
           to == IF q.todo = <<>> THEN "report" ELSE "ad_set"
<1>0. /\ RowsTyped /\ WellFormed(q) /\ req \in [Requests -> GoodRequests]
      /\ q \in GoodRequests /\ q \in Requesting
  BY TypesSplit DEF ContentInvariant, Typed, GoodRequests
<1>1. q.pc = "bank" /\ q.copy \in Runs /\ Recorded(runs[q.copy], "COPY")
  BY <1>0 DEF StoreCopy, WellFormed, Copied, Generating, ContentInvariant, RunKnown
<1>2. Leads(q, to) /\ Goes(r, to) /\ to \in Generating \ {"bank"} /\ to \in {"report", "ad_set"}
  BY DEF StoreCopy, Leads, Generating, InVariant
<1> HIDE DEF to
<1>3. /\ req' \in [Requests -> GoodRequests] /\ RunKnown(req'[r], runs')
      /\ req'[r].pc = to /\ req'[r].copy = q.copy /\ Done(req'[r]) = Done(q)
  BY <1>1, <1>2, GenerationMoves DEF StoreCopy, Generating
<1>4. Done(q) = 0
  <2>1. Len(q.todo) = q.count /\ q.count \in Nat
    BY <1>0, <1>1 DEF WellFormed, Requesting
  <2>2. QED
    BY <2>1 DEF Done
<1>5. RowsTyped'
  BY <1>0, <1>1 DEF StoreCopy, RowsTyped, BankRows
<1>6. FromSuccessfulRuns'
  <2>1. Succeeded(q.copy, "COPY")
    BY <1>1 DEF Succeeded, Recorded
  <2>2. bank' = bank \cup {q.copy}
    BY DEF StoreCopy
  <2>3. QED
    BY <2>1, <2>2 DEF StoreCopy, FromSuccessfulRuns, ContentInvariant, Succeeded
<1>7. ForbiddenIsMarked'
  BY DEF StoreCopy, ForbiddenIsMarked, ContentInvariant
<1>8. RowsKept /\ VariantsKept
  BY DEF StoreCopy, RowsKept, VariantsKept
<1>9. RowsKnown(req'[r], client', files', bank')
  BY <1>2, <1>3 DEF StoreCopy, RowsKnown, ClientWrites
<1>10. Progress(req'[r], campaigns', creative', ad', adSets')
  BY <1>2, <1>3, <1>4 DEF Progress
<1>11. QED
  BY <1>3, <1>5, <1>6, <1>7, <1>8, <1>9, <1>10 DEF Sound

LEMMA StoreAdSetSound ==
    ASSUME ContentInvariant, NEW r \in Requests, StoreAdSet(r)
    PROVE  Sound(r)
<1> DEFINE q == req[r]
<1>0. /\ RowsTyped /\ req \in [Requests -> GoodRequests] /\ q \in GoodRequests
      /\ Progress(q, campaigns, creative, ad, adSets) /\ RowsKnown(q, client, files, bank)
      /\ RunKnown(q, runs)
  BY TypesSplit DEF ContentInvariant, Typed
<1>1. /\ q.pc = "ad_set" /\ q.pc \in InVariant /\ Leads(q, "creative") /\ Goes(r, "creative")
      /\ q.pc \in Generating
  BY DEF StoreAdSet, Leads, InVariant, Generating
<1>2. /\ req' \in [Requests -> GoodRequests] /\ RunKnown(req'[r], runs')
      /\ req'[r].pc = "creative" /\ req'[r].copy = q.copy /\ req'[r].on = q.on
      /\ req'[r].todo = q.todo /\ Done(req'[r]) = Done(q)
  BY <1>1, GenerationMoves DEF StoreAdSet, Generating, InVariant
<1>3. q.copy \in Runs /\ Head(q.todo).persona \in Personas
  BY <1>0, <1>1, NextVariant
<1>4. adSets' = adSets \cup {<<q.copy, Head(q.todo).persona>>}
  BY DEF StoreAdSet
<1>5. RowsTyped'
  BY <1>0, <1>3, <1>4 DEF StoreAdSet, RowsTyped, AdSetRows
<1>6. FromSuccessfulRuns' /\ ForbiddenIsMarked'
  BY DEF StoreAdSet, FromSuccessfulRuns, ForbiddenIsMarked, ContentInvariant, Succeeded
<1>7. RowsKept /\ VariantsKept
  BY <1>4 DEF StoreAdSet, RowsKept, VariantsKept, Stored
<1>8. RowsKnown(req'[r], client', files', bank')
  BY <1>0, <1>1, <1>2 DEF StoreAdSet, RowsKnown, ClientWrites, InVariant
<1>9. Progress(req'[r], campaigns', creative', ad', adSets')
  <2>1. Progress(q, campaigns', creative', ad', adSets')
    BY <1>0, <1>7, ProgressStays
  <2>2. QED
    BY <1>1, <1>2, <1>4, <2>1 DEF Progress, InVariant
<1>10. QED
  BY <1>2, <1>5, <1>6, <1>7, <1>8, <1>9 DEF Sound

LEMMA StoreCreativeSound ==
    ASSUME ContentInvariant, NEW r \in Requests, StoreCreative(r)
    PROVE  Sound(r)
<1> DEFINE q == req[r]
           slot == <<q.copy, Done(q) + 1>>
<1>0. /\ RowsTyped /\ req \in [Requests -> GoodRequests] /\ q \in GoodRequests
      /\ Progress(q, campaigns, creative, ad, adSets) /\ RowsKnown(q, client, files, bank)
      /\ RunKnown(q, runs)
  BY TypesSplit DEF ContentInvariant, Typed
<1>1. /\ q.pc = "creative" /\ q.pc \in InVariant /\ Leads(q, "ad") /\ Goes(r, "ad")
      /\ q.pc \in Generating
  BY DEF StoreCreative, Leads, InVariant, Generating
<1>2. /\ req' \in [Requests -> GoodRequests] /\ RunKnown(req'[r], runs')
      /\ req'[r].pc = "ad" /\ req'[r].copy = q.copy /\ req'[r].on = q.on
      /\ req'[r].todo = q.todo /\ Done(req'[r]) = Done(q)
  BY <1>1, GenerationMoves DEF StoreCreative, Generating, InVariant
<1>3. slot \in Slots /\ q.copy \in bank /\ q.copy \in Runs
  BY <1>0, <1>1, NextVariant DEF RowsKnown
<1>4. creative' = [creative EXCEPT ![slot] = [asset |-> None]]
  BY DEF StoreCreative, Slot, Done
<1>5. [asset |-> None] \in CreativeRows /\ [asset |-> None] # None
  BY NoneAssumption DEF CreativeRows
<1>6. /\ creative' \in [Slots -> CreativeRows \cup {None}] /\ creative'[slot] # None
      /\ \A s \in Slots : creative'[s] = creative[s] \/ (s = slot /\ creative'[s] = [asset |-> None])
      /\ slot[1] = q.copy
  BY <1>0, <1>3, <1>4, <1>5 DEF RowsTyped
<1>7. RowsTyped'
  BY <1>0, <1>6 DEF StoreCreative, RowsTyped
<1>8. FromSuccessfulRuns'
  BY <1>3, <1>6 DEF StoreCreative, FromSuccessfulRuns, ContentInvariant, Succeeded
<1>9. ForbiddenIsMarked'
  BY DEF StoreCreative, ForbiddenIsMarked, ContentInvariant
<1>10. RowsKept /\ VariantsKept
  <2>1. \A s \in Slots : creative[s] # None => creative'[s] # None
    BY <1>5, <1>6
  <2>2. \A m \in Runs, i \in 1..VariantCount : <<m, i>> \in Slots
    BY DEF Slots
  <2>3. QED
    BY <2>1, <2>2 DEF StoreCreative, RowsKept, VariantsKept, Stored
<1>11. RowsKnown(req'[r], client', files', bank')
  BY <1>0, <1>1, <1>2 DEF StoreCreative, RowsKnown, ClientWrites, InVariant
<1>12. Progress(req'[r], campaigns', creative', ad', adSets')
  <2>1. Progress(q, campaigns', creative', ad', adSets')
    BY <1>0, <1>10, ProgressStays
  <2>2. QED
    BY <1>1, <1>2, <1>6, <2>1 DEF Progress, InVariant
<1>13. QED
  BY <1>2, <1>7, <1>8, <1>9, <1>10, <1>11, <1>12 DEF Sound

\* What is left of the variants decides where the request goes.
LEMMA AfterAdLeads ==
    ASSUME NEW S, NEW todo \in Seq(S), NEW n \in Nat, Len(todo) \in 1..n
    PROVE  /\ Tail(todo) \in Seq(S) /\ Len(Tail(todo)) = Len(todo) - 1
           /\ AfterAd(todo) \in {"report", "creative", "ad_set"}
           /\ AfterAd(todo) = "report" => Tail(todo) = <<>>
           /\ AfterAd(todo) # "report" => Len(Tail(todo)) \in 1..n
           /\ AfterAd(todo) = "creative" => Head(Tail(todo)).persona = Head(todo).persona
<1>1. Tail(todo) \in Seq(S) /\ Len(Tail(todo)) = Len(todo) - 1 /\ Head(todo) = todo[1]
  OBVIOUS
<1>2. CASE Len(todo) = 1
  <2>1. AfterAd(todo) = "report"
    BY <1>2 DEF AfterAd
  <2>2. Len(Tail(todo)) = 0
    BY <1>1, <1>2
  <2>3. \A seq \in Seq(S) : Len(seq) = 0 => seq = <<>>
    OBVIOUS
  <2>4. Tail(todo) = <<>>
    BY <1>1, <2>2, <2>3
  <2>5. QED
    BY <1>1, <2>1, <2>4
<1>3. CASE Len(todo) # 1
  <2>1. /\ AfterAd(todo) \in {"creative", "ad_set"}
        /\ AfterAd(todo) = "creative" => todo[2].persona = todo[1].persona
    BY <1>3 DEF AfterAd
  <2>2. Len(Tail(todo)) \in 1..n
    BY <1>1, <1>3
  <2>3. Tail(todo)[1] = todo[2] /\ Head(Tail(todo)) = Tail(todo)[1]
    BY <1>3
  <2>4. QED
    BY <1>1, <2>1, <2>2, <2>3
<1>4. QED
  BY <1>2, <1>3

\* The rest of what is to be stored, and where the request goes with it.
LEMMA AfterAdType ==
    ASSUME req \in [Requests -> GoodRequests], NEW r \in Requests, req[r].pc = "ad",
           req' = [req EXCEPT ![r].todo = Tail(req[r].todo), ![r].pc = AfterAd(req[r].todo)]
    PROVE  /\ req' \in [Requests -> GoodRequests]
           /\ req'[r].pc \in {"report", "creative", "ad_set"}
           /\ req'[r].copy = req[r].copy /\ req'[r].on = req[r].on
           /\ Done(req'[r]) = Done(req[r]) + 1
           /\ req'[r].pc = "creative" => Head(req'[r].todo).persona = Head(req[r].todo).persona
<1> DEFINE q == req[r]
           to == AfterAd(q.todo)
           rest == Tail(q.todo)
           s == [q EXCEPT !.todo = rest, !.pc = to]
<1>0. /\ q \in GoodRequests /\ q \in Requesting /\ WellFormed(q) /\ q.pc \in InVariant
      /\ q.op = "ads" /\ q.copy \in Runs
  BY DEF GoodRequests, InVariant, WellFormed, Generating, Copied
<1>1. q.todo \in Seq(Variants) /\ Len(q.todo) \in 1..q.count /\ q.count \in 0..VariantCount
  BY <1>0, NextVariant DEF Requesting
<1>2. VariantCount \in Nat
  BY ContentAssumption
<1>3. q.count \in Nat
  BY <1>1, <1>2
<1>4. /\ rest \in Seq(Variants) /\ Len(rest) = Len(q.todo) - 1
      /\ to \in {"report", "creative", "ad_set"}
      /\ to = "report" => rest = <<>>
      /\ to # "report" => Len(rest) \in 1..q.count
      /\ to = "creative" => Head(rest).persona = Head(q.todo).persona
  BY <1>1, <1>3, AfterAdLeads
<1>5. to \in PC
  BY <1>4, PCNames
<1>6. req' = [req EXCEPT ![r] = s]
  BY <1>0
<1> HIDE DEF to, rest
<1>7. /\ s \in Requesting /\ s.pc = to /\ s.op = q.op /\ s.on = q.on /\ s.type = q.type
      /\ s.run = q.run /\ s.brand = q.brand /\ s.copy = q.copy /\ s.todo = rest
      /\ s.count = q.count
  BY <1>0, <1>4, <1>5 DEF Requesting
<1> HIDE DEF s, q
<1>8. WellFormed(s)
  BY <1>0, <1>4, <1>7
  DEF WellFormed, ClientWrites, InAgent, WithRun, Generating, InVariant, Copied
<1>9. req' \in [Requests -> GoodRequests] /\ req'[r] = s
  BY <1>6, <1>7, <1>8, Moves DEF GoodRequests
<1>10. Done(s) = Done(q) + 1
  <2>1. Len(q.todo) \in Nat
    BY <1>1, <1>3
  <2>2. s.count - Len(s.todo) = q.count - (Len(q.todo) - 1)
    BY <1>4, <1>7
  <2>3. q.count - (Len(q.todo) - 1) = (q.count - Len(q.todo)) + 1
    BY <1>3, <2>1
  <2>4. QED
    BY <2>2, <2>3 DEF Done
<1>11. QED
  BY <1>4, <1>7, <1>9, <1>10 DEF q

LEMMA StoreAdSound ==
    ASSUME ContentInvariant, NEW r \in Requests, StoreAd(r)
    PROVE  Sound(r)
<1> DEFINE q == req[r]
           variant == Head(q.todo)
           slot == <<q.copy, Done(q) + 1>>
           status == IF CheckCompliance(variant.text, q.brand) = "BLOCK" THEN "ERROR" ELSE "DRAFT"
           row == [status |-> status, adSet |-> variant.persona,
                   text |-> variant.text, knew |-> q.brand]
<1>0. /\ RowsTyped /\ req \in [Requests -> GoodRequests] /\ q \in GoodRequests
      /\ WellFormed(q) /\ RowsKnown(q, client, files, bank)
      /\ Progress(q, campaigns, creative, ad, adSets) /\ RunKnown(q, runs)
  BY TypesSplit DEF ContentInvariant, Typed, GoodRequests
<1>1. q.pc = "ad" /\ q.pc \in InVariant /\ q.on \in campaigns
  BY DEF StoreAd, InVariant
<1>2. variant \in Variants /\ variant.persona \in Personas /\ slot \in Slots /\ q.copy \in Runs
  BY <1>0, <1>1, NextVariant
<1>3. q.brand \in Brand
  BY <1>0, <1>1 DEF WellFormed, Generating, InVariant
<1>4. row \in AdRows
  BY <1>2, <1>3 DEF AdRows
<1>5. ad' = [ad EXCEPT ![slot] = row]
  BY DEF StoreAd, Slot, Done
<1>6. req' = [req EXCEPT ![r].todo = Tail(req[r].todo), ![r].pc = AfterAd(req[r].todo)]
  BY DEF StoreAd
<1>7. status = "DRAFT" => variant.text \cap Blocking(q.brand) = {}
  BY DEF CheckCompliance
<1>8. /\ <<q.copy, variant.persona>> \in adSets
      /\ creative[slot] # None
  BY <1>0, <1>1 DEF Progress
<1>9. row.adSet = variant.persona /\ row.text = variant.text /\ row.knew = q.brand
      /\ row.status = status
  OBVIOUS
<1>10. /\ req' \in [Requests -> GoodRequests]
       /\ req'[r].pc \in {"report", "creative", "ad_set"}
       /\ req'[r].copy = q.copy /\ req'[r].on = q.on
       /\ Done(req'[r]) = Done(q) + 1
       /\ req'[r].pc = "creative" => Head(req'[r].todo).persona = variant.persona
  BY <1>0, <1>1, <1>6, AfterAdType
<1>11. UNCHANGED <<client, campaigns, runs, persona, strategy, bank, adSets, creative,
                   files, assets>>
  BY DEF StoreAd
<1> HIDE DEF row, status, slot, variant
<1>12. row # None
  BY <1>4, NoneAssumption
<1>13. /\ ad' \in [Slots -> AdRows \cup {None}] /\ ad'[slot] = row
       /\ \A s \in Slots : s # slot => ad'[s] = ad[s]
  BY <1>0, <1>2, <1>4, <1>5 DEF RowsTyped
<1>14. RowsTyped'
  BY <1>0, <1>11, <1>13 DEF RowsTyped
<1>15. FromSuccessfulRuns'
  BY <1>11 DEF FromSuccessfulRuns, ContentInvariant, Succeeded
<1>16. ForbiddenIsMarked'
  <2>1. ASSUME NEW s \in Slots, ad'[s] # None, ad'[s].status = "DRAFT"
        PROVE  /\ ad'[s].text \cap ad'[s].knew.words = {}
               /\ "before_after" \in ad'[s].text => ~Sensitive(ad'[s].knew)
    <3>1. CASE s # slot
      BY <1>13, <2>1, <3>1 DEF ForbiddenIsMarked, ContentInvariant
    <3>2. CASE s = slot
      <4>1. variant.text \cap Blocking(q.brand) = {}
        BY <1>7, <1>9, <1>13, <2>1, <3>2
      <4>2. q.brand.words \subseteq Blocking(q.brand)
        BY DEF Blocking
      <4>3. Sensitive(q.brand) => "before_after" \in Blocking(q.brand)
        BY DEF Blocking
      <4>4. QED
        BY <1>9, <1>13, <3>2, <4>1, <4>2, <4>3
    <3>3. QED
      BY <3>1, <3>2
  <2>2. QED
    BY <2>1 DEF ForbiddenIsMarked
<1>17. RowsKept
  BY <1>11 DEF RowsKept
<1>18. VariantsKept
  <2>1. ASSUME NEW m \in Runs, NEW i \in 1..VariantCount, Stored(m, i, creative, ad, adSets)
        PROVE  Stored(m, i, creative', ad', adSets')
    <3>1. <<m, i>> \in Slots
      BY DEF Slots
    <3>2. CASE <<m, i>> # slot
      BY <1>11, <1>13, <2>1, <3>1, <3>2 DEF Stored
    <3>3. CASE <<m, i>> = slot
      <4>1. m = q.copy
        BY <3>3 DEF slot
      <4>2. QED
        BY <1>8, <1>9, <1>11, <1>12, <1>13, <3>3, <4>1 DEF Stored
    <3>4. QED
      BY <3>2, <3>3
  <2>2. QED
    BY <1>11, <2>1 DEF VariantsKept
<1>19. RunKnown(req'[r], runs')
  BY <1>0, <1>1, <1>10, <1>11 DEF RunKnown, WithRun, Copied, Generating, InVariant
<1>20. RowsKnown(req'[r], client', files', bank')
  BY <1>0, <1>1, <1>10, <1>11 DEF RowsKnown, ClientWrites
<1>21. Progress(req'[r], campaigns', creative', ad', adSets')
  <2>1. Progress(q, campaigns', creative', ad', adSets')
    BY <1>0, <1>18, ProgressStays
  <2>2. Done(q) \in Nat
    <3>1. Done(q) \in 0..VariantCount
      BY <1>0, <1>1, DoneType
    <3>2. QED
      BY <3>1, ContentAssumption
  <2>3. ASSUME NEW i \in 1..Done(req'[r])
        PROVE  Stored(q.copy, i, creative', ad', adSets')
    <3>1. i \in 1..Done(q) \/ i = Done(q) + 1
      BY <1>10, <2>2
    <3>2. CASE i \in 1..Done(q)
      BY <1>1, <1>11, <2>1, <3>2 DEF Progress
    <3>3. CASE i = Done(q) + 1
      BY <1>8, <1>9, <1>11, <1>12, <1>13, <3>3 DEF Stored, slot
    <3>4. QED
      BY <3>1, <3>2, <3>3
  <2>4. req'[r].pc = "creative" => <<q.copy, Head(req'[r].todo).persona>> \in adSets'
    BY <1>8, <1>10, <1>11
  <2>5. QED
    BY <1>10, <2>3, <2>4 DEF Progress
<1>22. QED
  BY <1>10, <1>14, <1>15, <1>16, <1>17, <1>18, <1>19, <1>20, <1>21 DEF Sound

LEMMA StoresSound ==
    ASSUME ContentInvariant, NEW r \in Requests, Stores(r)
    PROVE  Sound(r)
  BY StorePersonasSound, StoreStrategySound, StoreCopySound, StoreAdSetSound,
     StoreCreativeSound, StoreAdSound DEF Stores

-----------------------------------------------------------------------------
(* Steps that serve no request in progress.                                *)

SoundBeside ==
    /\ RowsTyped' /\ RowsKept /\ VariantsKept /\ UNCHANGED runs
    /\ FromSuccessfulRuns' /\ ForbiddenIsMarked'

LEMMA OthersSound ==
    ASSUME ContentInvariant, Others
    PROVE  SoundBeside
<1>0. RowsTyped
  BY TypesSplit DEF ContentInvariant, Typed
<1> USE DEF SoundBeside
<1>1. ASSUME NEW k \in Clients, CreateClient(k)
      PROVE  SoundBeside
  <2>1. PICK industry \in Industries, words \in Restrictions :
          client' = [client EXCEPT ![k] = [status |-> "ONBOARDING",
                        brand |-> [industry |-> industry, words |-> words]]]
    BY <1>1 DEF CreateClient
  <2>2. [status |-> "ONBOARDING", brand |-> [industry |-> industry, words |-> words]]
          \in ClientRows
    BY DEF ClientRows, Brand
  <2>3. /\ client' \in [Clients -> ClientRows \cup {None}]
        /\ \A c \in Clients : client[c] # None => client'[c] # None
    BY <1>0, <2>1, <2>2, NoneAssumption DEF RowsTyped
  <2>4. UNCHANGED <<campaigns, runs, persona, strategy, bank, adSets, creative, ad, files, assets>>
    BY <1>1 DEF CreateClient
  <2>5. RowsTyped'
    BY <1>0, <2>3, <2>4 DEF RowsTyped
  <2>6. RowsKept /\ VariantsKept
    BY <2>3, <2>4 DEF RowsKept, VariantsKept
  <2>7. FromSuccessfulRuns' /\ ForbiddenIsMarked'
    BY <2>4 DEF FromSuccessfulRuns, ForbiddenIsMarked, ContentInvariant, Succeeded
  <2>8. QED
    BY <2>4, <2>5, <2>6, <2>7
<1>2. ASSUME NEW m \in Runs, RemovePersona(m)
      PROVE  SoundBeside
  <2>1. /\ persona' \in [Runs -> PersonaRows \cup {None}]
        /\ \A n \in Runs : persona'[n] # None => persona[n] # None
    <3>1. persona[m] # None
      BY <1>0, <1>2, NoneAssumption DEF RemovePersona, PersonaRows
    <3>2. QED
      BY <1>0, <1>2, <3>1 DEF RemovePersona, RowsTyped, PersonaRows
  <2>2. UNCHANGED <<client, campaigns, runs, strategy, bank, adSets, creative, ad, files, assets>>
    BY <1>2 DEF RemovePersona
  <2>3. RowsTyped'
    BY <1>0, <2>1, <2>2 DEF RowsTyped
  <2>4. RowsKept /\ VariantsKept
    BY <2>2 DEF RowsKept, VariantsKept
  <2>5. FromSuccessfulRuns' /\ ForbiddenIsMarked'
    BY <2>1, <2>2 DEF FromSuccessfulRuns, ForbiddenIsMarked, ContentInvariant, Succeeded
  <2>6. QED
    BY <2>2, <2>3, <2>4, <2>5
<1>3. ASSUME NEW g \in Campaigns, RemoveCampaign(g)
      PROVE  SoundBeside
  <2>1. /\ campaigns' = campaigns \ {g} /\ strategy' = [strategy EXCEPT ![g] = None]
        /\ adSets' = {s \in adSets : s[1] \notin OfCampaign(g)}
        /\ ad' = [s \in Slots |-> IF s[1] \in OfCampaign(g) THEN None ELSE ad[s]]
        /\ UNCHANGED <<client, runs, persona, bank, creative, files, assets>>
    BY <1>3 DEF RemoveCampaign
  <2>2. RowsTyped'
    BY <1>0, <2>1 DEF RowsTyped
  <2>3. RowsKept
    BY <2>1 DEF RowsKept
  <2>4. VariantsKept
    <3>1. ASSUME NEW m \in Runs, runs[m] # None, runs[m].on \in campaigns'
          PROVE  m \notin OfCampaign(g)
      BY <2>1, <3>1 DEF OfCampaign
    <3>2. ASSUME NEW m \in Runs, m \notin OfCampaign(g), NEW i \in 1..VariantCount
          PROVE  ad'[<<m, i>>] = ad[<<m, i>>]
      <4>1. <<m, i>> \in Slots
        BY DEF Slots
      <4>2. QED
        BY <2>1, <3>2, <4>1
    <3>3. ASSUME NEW m \in Runs, m \notin OfCampaign(g), NEW p, <<m, p>> \in adSets
          PROVE  <<m, p>> \in adSets'
      BY <2>1, <3>3
    <3>4. QED
      BY <2>1, <3>1, <3>2, <3>3 DEF VariantsKept, Stored
  <2>5. FromSuccessfulRuns'
    <3>1. \A c \in Campaigns : strategy'[c] # None => strategy'[c] = strategy[c]
      BY <1>0, <2>1 DEF RowsTyped
    <3>2. QED
      BY <2>1, <3>1 DEF FromSuccessfulRuns, ContentInvariant, Succeeded
  <2>6. ForbiddenIsMarked'
    <3>1. \A s \in Slots : ad'[s] # None => ad'[s] = ad[s]
      BY <2>1
    <3>2. QED
      BY <3>1 DEF ForbiddenIsMarked, ContentInvariant
  <2>7. QED
    BY <2>1, <2>2, <2>3, <2>4, <2>5, <2>6
<1>4. ASSUME NEW s \in Slots, PublishAd(s)
      PROVE  SoundBeside
  <2>1. /\ ad[s] # None /\ ad' = [ad EXCEPT ![s].status = "PUBLISHED"]
        /\ UNCHANGED <<client, campaigns, runs, persona, strategy, bank, adSets, creative,
                       files, assets>>
    BY <1>4 DEF PublishAd
  <2> DEFINE row == [ad[s] EXCEPT !.status = "PUBLISHED"]
  <2>2. ad[s] \in AdRows
    BY <1>0, <2>1 DEF RowsTyped
  <2>3. row \in AdRows /\ row.status = "PUBLISHED" /\ row.adSet = ad[s].adSet
    BY <2>2 DEF AdRows
  <2>4. ad' = [ad EXCEPT ![s] = row]
    BY <1>0, <2>1 DEF RowsTyped
  <2> HIDE DEF row
  <2>5. /\ ad' \in [Slots -> AdRows \cup {None}] /\ ad'[s] = row /\ row # None
        /\ \A t \in Slots : t # s => ad'[t] = ad[t]
    BY <1>0, <2>3, <2>4, NoneAssumption DEF RowsTyped
  <2>6. RowsTyped'
    BY <1>0, <2>1, <2>5 DEF RowsTyped
  <2>7. RowsKept
    BY <2>1 DEF RowsKept
  <2>8. VariantsKept
    <3>1. ASSUME NEW t \in Slots, ad[t] # None
          PROVE  ad'[t] # None /\ ad'[t].adSet = ad[t].adSet
      BY <2>3, <2>5, <3>1
    <3>2. \A m \in Runs, i \in 1..VariantCount : <<m, i>> \in Slots
      BY DEF Slots
    <3>3. QED
      BY <2>1, <3>1, <3>2 DEF VariantsKept, Stored
  <2>9. FromSuccessfulRuns'
    BY <2>1 DEF FromSuccessfulRuns, ContentInvariant, Succeeded
  <2>10. ForbiddenIsMarked'
    BY <2>3, <2>5 DEF ForbiddenIsMarked, ContentInvariant
  <2>11. QED
    BY <2>1, <2>6, <2>7, <2>8, <2>9, <2>10
<1>5. ASSUME NEW s \in Slots, NEW f \in Files, AttachToCreative(s, f)
      PROVE  SoundBeside
  <2>1. /\ creative[s] # None /\ f \in assets /\ creative' = [creative EXCEPT ![s].asset = f]
        /\ UNCHANGED <<client, campaigns, runs, persona, strategy, bank, adSets, ad, files, assets>>
    BY <1>5 DEF AttachToCreative
  <2> DEFINE row == [creative[s] EXCEPT !.asset = f]
  <2>2. creative[s] \in CreativeRows
    BY <1>0, <2>1 DEF RowsTyped
  <2>3. row \in CreativeRows /\ row.asset = f
    BY <2>2 DEF CreativeRows
  <2>4. creative' = [creative EXCEPT ![s] = row]
    BY <1>0, <2>1 DEF RowsTyped
  <2> HIDE DEF row
  <2>5. /\ creative' \in [Slots -> CreativeRows \cup {None}] /\ creative'[s] = row /\ row # None
        /\ \A t \in Slots : t # s => creative'[t] = creative[t]
    BY <1>0, <2>3, <2>4, NoneAssumption DEF RowsTyped
  <2>6. RowsTyped'
    BY <1>0, <2>1, <2>3, <2>5 DEF RowsTyped
  <2>7. \A t \in Slots : creative'[t] # None <=> creative[t] # None
    BY <2>1, <2>5
  <2>8. RowsKept
    BY <2>1 DEF RowsKept
  <2>9. VariantsKept
    <3>1. \A m \in Runs, i \in 1..VariantCount : <<m, i>> \in Slots
      BY DEF Slots
    <3>2. QED
      BY <2>1, <2>7, <3>1 DEF VariantsKept, Stored
  <2>10. FromSuccessfulRuns' /\ ForbiddenIsMarked'
    BY <2>1, <2>7 DEF FromSuccessfulRuns, ForbiddenIsMarked, ContentInvariant, Succeeded
  <2>11. QED
    BY <2>1, <2>6, <2>8, <2>9, <2>10
<1>6. QED
  BY <1>1, <1>2, <1>3, <1>4, <1>5 DEF Others

-----------------------------------------------------------------------------
(* The invariant is inductive.                                             *)

\* Steps that leave the ads, and what they came from, as they are.
LEMMA AdsStay ==
    ASSUME ContentInvariant,
           UNCHANGED <<campaigns, persona, strategy, bank, adSets, creative, ad>>
    PROVE  /\ VariantsKept /\ ForbiddenIsMarked'
           /\ RunsKept => FromSuccessfulRuns'
<1>1. VariantsKept
  BY DEF VariantsKept
<1>2. ForbiddenIsMarked'
  BY DEF ForbiddenIsMarked, ContentInvariant
<1>3. ASSUME RunsKept
      PROVE  FromSuccessfulRuns'
  <2>1. \A m, type : Succeeded(m, type) =>
          Succeeded(m, type)' /\ runs'[m].on = runs[m].on
    BY <1>3, SucceededStays DEF Succeeded
  <2>2. QED
    BY <2>1 DEF FromSuccessfulRuns, ContentInvariant
<1>4. QED
  BY <1>1, <1>2, <1>3

LEMMA TypesNext ==
    ASSUME RowsTyped', req' \in [Requests -> GoodRequests]
    PROVE  TypeOK'
<1>1. \A r \in Requests : req'[r].attempt \in 0..2
  BY DEF GoodRequests, Requesting
<1>2. QED
  BY <1>1 DEF TypeOK, RowsTyped

LEMMA ServesSound ==
    ASSUME ContentInvariant, NEW r \in Requests, Serves(r)
    PROVE  /\ Sound(r)
           /\ \A q \in Requests : q # r => RunKnown(req[q], runs')
           /\ req'[r].pc \in WithRun =>
                \/ req[r].pc \in WithRun /\ req'[r].run = req[r].run
                \/ req'[r].run \in Runs /\ runs[req'[r].run] = None
<1>0. /\ Typed /\ TypeOK /\ RowsTyped /\ req \in [Requests -> GoodRequests]
      /\ RunsApart
      /\ \A q \in Requests : RunKnown(req[q], runs) /\ RowsKnown(req[q], client, files, bank)
  BY TypesSplit DEF ContentInvariant, Typed
\* What remains to be shown of a step that leaves the ads alone.
<1>1. ASSUME req' \in [Requests -> GoodRequests], RowsTyped', RowsKept, RunsKept,
             UNCHANGED <<campaigns, persona, strategy, bank, adSets, creative, ad>>,
             RunKnown(req'[r], runs'), RowsKnown(req'[r], client', files', bank'),
             req'[r].pc \notin {"report"} \cup InVariant
      PROVE  Sound(r)
  <2>1. Progress(req'[r], campaigns', creative', ad', adSets')
    BY <1>1 DEF Progress, InVariant
  <2>2. QED
    BY <1>1, <2>1, AdsStay DEF Sound
<1>2. UNCHANGED runs => RunsKept /\ \A q \in Requests : RunKnown(req[q], runs')
  BY <1>0 DEF RunsKept
<1>3. CASE Begins(r)
  <2>1. UNCHANGED <<rows, files, assets>>
    BY <1>3 DEF Begins, Begin, BeginPersonas, BeginResearch, BeginOnCampaign, ExtractBrand
  <2>2. /\ req' \in [Requests -> GoodRequests]
        /\ req'[r].pc \in Operations \cup {"run"}
        /\ req'[r].pc \in Operations => client[req'[r].on] # None
        /\ req'[r].pc = "run" => req'[r].type # "COMPLIANCE"
    BY <1>0, <1>3, BeginsType
  <2>3. UNCHANGED <<client, campaigns, runs, persona, strategy, bank, adSets, creative, ad>>
    BY <2>1 DEF rows
  <2>4. RowsTyped' /\ RowsKept
    BY <1>0, <2>1, <2>3 DEF RowsTyped, RowsKept
  <2>5. RunKnown(req'[r], runs') /\ req'[r].pc \notin WithRun
    BY <2>2 DEF RunKnown, WithRun, Copied, Operations, Generating, InVariant, InAgent
  <2>6. /\ RowsKnown(req'[r], client', files', bank')
        /\ req'[r].pc \notin {"report"} \cup InVariant
    BY <2>2, <2>3 DEF RowsKnown, ClientWrites, Operations, InVariant
  <2>7. QED
    BY <1>1, <1>2, <2>2, <2>3, <2>4, <2>5, <2>6
<1>4. CASE Writes(r)
  <2>1. UNCHANGED <<campaigns, runs, persona, strategy, bank, adSets, creative, ad, files, assets>>
    BY <1>4 DEF Writes, Update, Archive, UpsertBrandProfile, Activate
  <2>2. /\ req' \in [Requests -> GoodRequests]
        /\ client' \in [Clients -> ClientRows \cup {None}]
        /\ \A k \in Clients : client[k] # None => client'[k] # None
        /\ req'[r].pc \in {"idle", "activate"}
        /\ req'[r].pc = "activate" => req'[r].on \in Clients /\ client[req'[r].on] # None
    BY <1>0, <1>4, WritesMove
  <2>3. RowsTyped' /\ RowsKept
    BY <1>0, <2>1, <2>2 DEF RowsTyped, RowsKept
  <2>4. RunKnown(req'[r], runs') /\ req'[r].pc \notin WithRun
    BY <2>2 DEF RunKnown, WithRun, Copied, Generating, InVariant, InAgent
  <2>5. /\ RowsKnown(req'[r], client', files', bank')
        /\ req'[r].pc \notin {"report"} \cup InVariant
    BY <2>2 DEF RowsKnown, InVariant, ClientWrites
  <2>6. QED
    BY <1>1, <1>2, <2>1, <2>2, <2>3, <2>4, <2>5
<1>5. CASE Asks(r)
  <2>1. UNCHANGED <<client, campaigns, persona, strategy, bank, adSets, creative, ad, files, assets>>
    BY <1>5 DEF Asks, StartRun, AskModel, RecordSuccess, RecordFailure, rows
  <2>2. /\ req' \in [Requests -> GoodRequests] /\ RunKnown(req'[r], runs')
        /\ req'[r].pc \in InAgent \cup {"bank", "idle"}
    BY <1>0, <1>5, AsksMove
  <2>3. /\ RunsKept /\ runs' \in [Runs -> RunRows \cup {None}]
        /\ \A q \in Requests : q # r => RunKnown(req[q], runs')
    BY <1>0, <1>5, AsksKeep
  <2>4. RowsTyped' /\ RowsKept
    BY <1>0, <2>1, <2>3 DEF RowsTyped, RowsKept
  <2>5. /\ RowsKnown(req'[r], client', files', bank')
        /\ req'[r].pc \notin {"report"} \cup InVariant
    BY <2>2 DEF RowsKnown, InVariant, InAgent, ClientWrites
  <2>6. req'[r].pc \in WithRun =>
          \/ req[r].pc \in WithRun /\ req'[r].run = req[r].run
          \/ req'[r].run \in Runs /\ runs[req'[r].run] = None
    BY <1>0, <1>5, AsksApart
  <2>7. QED
    BY <1>1, <2>1, <2>2, <2>3, <2>4, <2>5, <2>6
<1>6. CASE Stores(r)
  <2>1. UNCHANGED runs
    BY <1>6 DEF Stores, StorePersonas, StoreStrategy, StoreCopy, StoreAdSet, StoreCreative, StoreAd
  <2>2. Sound(r)
    BY <1>6, StoresSound
  <2>3. req'[r].pc \notin WithRun
    <3>0. req[r] \in Requesting /\ req[r] \in GoodRequests
      BY <1>0 DEF GoodRequests
    <3>1. CASE StorePersonas(r) \/ StoreStrategy(r)
      BY <1>0, <3>1, Moves DEF StorePersonas, StoreStrategy, Idle, WithRun
    <3>2. CASE StoreCopy(r) \/ StoreAdSet(r) \/ StoreCreative(r)
      BY <1>0, <3>0, <3>2 DEF StoreCopy, StoreAdSet, StoreCreative, Goes, Requesting, WithRun
    <3>3. CASE StoreAd(r)
      <4>1. req'[r].pc \in {"report", "creative", "ad_set"}
        BY <1>0, <3>3, AfterAdType DEF StoreAd
      <4>2. QED
        BY <4>1 DEF WithRun
    <3>4. QED
      BY <1>6, <3>1, <3>2, <3>3 DEF Stores
  <2>4. QED
    BY <1>2, <2>1, <2>2, <2>3
<1>7. CASE Finishes(r)
  <2>1. /\ req' \in [Requests -> GoodRequests]
        /\ UNCHANGED rows
        /\ files \subseteq files' /\ assets \subseteq assets'
        /\ assets' \subseteq files' /\ files' \subseteq Files
        /\ req'[r].pc \in {"idle", "row"}
        /\ req'[r].pc = "row" => req'[r].run \in files'
    BY <1>0, <1>7, FinishesMove
  <2>2. UNCHANGED <<client, campaigns, runs, persona, strategy, bank, adSets, creative, ad>>
    BY <2>1 DEF rows
  <2>3. RowsTyped' /\ RowsKept
    BY <1>0, <2>1, <2>2 DEF RowsTyped, RowsKept, AssetRows
  <2>4. RunKnown(req'[r], runs') /\ req'[r].pc \notin WithRun
    BY <2>1 DEF RunKnown, WithRun, Copied, Generating, InVariant, InAgent
  <2>5. /\ RowsKnown(req'[r], client', files', bank')
        /\ req'[r].pc \notin {"report"} \cup InVariant
    BY <2>1 DEF RowsKnown, InVariant, ClientWrites
  <2>6. QED
    BY <1>1, <1>2, <2>1, <2>2, <2>3, <2>4, <2>5
<1>8. QED
  BY <1>3, <1>4, <1>5, <1>6, <1>7 DEF Serves

LEMMA ContentInit == Init => ContentInvariant
<1> SUFFICES ASSUME Init PROVE ContentInvariant
  OBVIOUS
<1>1. req \in [Requests -> GoodRequests] /\ \A r \in Requests : req[r].pc = "idle"
  BY IdleType DEF Init, Idle
<1>2. RowsTyped
  BY DEF Init, RowsTyped
<1>3. Typed
  BY <1>1, <1>2, TypesSplit DEF Typed
<1>4. FromSuccessfulRuns /\ ForbiddenIsMarked
  BY DEF Init, FromSuccessfulRuns, ForbiddenIsMarked
<1>5. RunsApart
  BY <1>1 DEF RunsApart, WithRun
<1>6. QED
  BY <1>1, <1>3, <1>4, <1>5, IdleKnows DEF ContentInvariant

LEMMA ContentStep ==
    ASSUME ContentInvariant, [Next]_vars
    PROVE  ContentInvariant'
<1>0. /\ Typed /\ req \in [Requests -> GoodRequests] /\ RunsApart
      /\ \A q \in Requests : /\ RunKnown(req[q], runs)
                             /\ RowsKnown(req[q], client, files, bank)
                             /\ Progress(req[q], campaigns, creative, ad, adSets)
  BY DEF ContentInvariant, Typed
<1>1. ASSUME NEW r \in Requests, Serves(r)
      PROVE  ContentInvariant'
  <2>1. /\ req' \in [Requests -> GoodRequests] /\ RowsTyped' /\ RowsKept /\ VariantsKept
        /\ RunKnown(req'[r], runs') /\ RowsKnown(req'[r], client', files', bank')
        /\ Progress(req'[r], campaigns', creative', ad', adSets')
        /\ FromSuccessfulRuns' /\ ForbiddenIsMarked'
    BY <1>1, ServesSound DEF Sound
  <2>2. \A q \in Requests : q # r => req'[q] = req[q] /\ RunKnown(req[q], runs')
    BY <1>0, <1>1, ServesSound, OneMoves
  <2>3. Typed'
    BY <2>1, TypesNext DEF Typed
  <2>4. ASSUME NEW q \in Requests, q # r
        PROVE  /\ RunKnown(req'[q], runs') /\ RowsKnown(req'[q], client', files', bank')
               /\ Progress(req'[q], campaigns', creative', ad', adSets')
    <3>1. req'[q] = req[q] /\ RunKnown(req[q], runs') /\ req[q] \in GoodRequests
      BY <1>0, <2>2, <2>4
    <3>2. RowsKnown(req[q], client', files', bank')
      BY <1>0, <2>1, <3>1, RowsKnownStays
    <3>3. Progress(req[q], campaigns', creative', ad', adSets')
      BY <1>0, <2>1, <3>1, ProgressStays
    <3>4. QED
      BY <3>1, <3>2, <3>3
  <2>5. RunsApart'
    <3>1. ASSUME NEW q \in Requests, q # r, req'[q].pc \in WithRun, req'[r].pc \in WithRun
          PROVE  req'[q].run # req'[r].run
      <4>1. req'[q] = req[q] /\ req[q].pc \in WithRun /\ runs[req[q].run] # None
        BY <1>0, <2>2, <3>1 DEF RunKnown
      <4>2. \/ req[r].pc \in WithRun /\ req'[r].run = req[r].run
            \/ runs[req'[r].run] = None
        BY <1>1, <3>1, ServesSound
      <4>3. QED
        BY <1>0, <3>1, <4>1, <4>2 DEF RunsApart
    <3>2. ASSUME NEW p \in Requests, NEW q \in Requests, p # q, p # r, q # r,
                 req'[p].pc \in WithRun, req'[q].pc \in WithRun
          PROVE  req'[p].run # req'[q].run
      BY <1>0, <2>2, <3>2 DEF RunsApart
    <3>3. QED
      BY <3>1, <3>2 DEF RunsApart
  <2>6. QED
    BY <2>1, <2>3, <2>4, <2>5 DEF ContentInvariant
<1>2. ASSUME Others, UNCHANGED req
      PROVE  ContentInvariant'
  <2>1. /\ RowsTyped' /\ RowsKept /\ VariantsKept /\ UNCHANGED runs
        /\ FromSuccessfulRuns' /\ ForbiddenIsMarked'
    BY <1>2, OthersSound DEF SoundBeside
  <2>2. req' \in [Requests -> GoodRequests]
    BY <1>0, <1>2
  <2>3. Typed'
    BY <2>1, <2>2, TypesNext DEF Typed
  <2>4. ASSUME NEW q \in Requests
        PROVE  /\ RunKnown(req'[q], runs') /\ RowsKnown(req'[q], client', files', bank')
               /\ Progress(req'[q], campaigns', creative', ad', adSets')
    <3>1. req'[q] = req[q] /\ RunKnown(req[q], runs') /\ req[q] \in GoodRequests
      BY <1>0, <1>2, <2>1
    <3>2. RowsKnown(req[q], client', files', bank')
      BY <1>0, <2>1, <3>1, RowsKnownStays
    <3>3. Progress(req[q], campaigns', creative', ad', adSets')
      BY <1>0, <2>1, <3>1, ProgressStays
    <3>4. QED
      BY <3>1, <3>2, <3>3
  <2>5. RunsApart'
    BY <1>0, <1>2 DEF RunsApart
  <2>6. QED
    BY <2>1, <2>3, <2>4, <2>5 DEF ContentInvariant
<1>3. CASE UNCHANGED vars
  BY <1>3 DEF vars, rows, ContentInvariant, Typed, TypeOK, RunsApart, FromSuccessfulRuns,
     ForbiddenIsMarked, Succeeded
<1>4. QED
  BY <1>1, <1>2, <1>3, NextKinds

LEMMA ContentAlways == Spec => []ContentInvariant
  BY ContentInit, ContentStep, PTL DEF Spec

-----------------------------------------------------------------------------
(* What follows.                                                           *)

\* Every row has its type, a run asks the model at most twice, and every asset of the
\* library has its file (AnthropicProvider.complete, AssetsService.upload).
THEOREM ContentTypes == Spec => []TypeOK
<1>1. ContentInvariant => TypeOK
  BY DEF ContentInvariant, Typed
<1>2. QED
  BY <1>1, ContentAlways, PTL

\* Personas, strategies, copy and creatives come from a run of the right agent that is
\* recorded as succeeded (AgentEngine.run and the callers of it).
THEOREM FromSuccessfulRunsAlways == Spec => []FromSuccessfulRuns
<1>1. ContentInvariant => FromSuccessfulRuns
  BY DEF ContentInvariant
<1>2. QED
  BY <1>1, ContentAlways, PTL

\* No draft says what its client had forbidden when the generation began, nor shows before
\* and after in a vertical recognised as sensitive (checkCompliance, persistGeneration).
THEOREM ForbiddenIsMarkedAlways == Spec => []ForbiddenIsMarked
<1>1. ContentInvariant => ForbiddenIsMarked
  BY DEF ContentInvariant
<1>2. QED
  BY <1>1, ContentAlways, PTL

\* A generation that reports success has stored every variant under its persona's ad
\* set, for any number of variants and personas (GenerationService.generateAds).
THEOREM CompleteWhenReportedAlways == Spec => []CompleteWhenReported
<1>1. ASSUME ContentInvariant
      PROVE  CompleteWhenReported
  <2>1. ASSUME NEW r \in Requests, req[r].pc = "report", req[r].on \in campaigns,
               NEW i \in 1..req[r].count
        PROVE  Stored(req[r].copy, i, creative, ad, adSets)
    <3>1. /\ req[r] \in GoodRequests
          /\ Progress(req[r], campaigns, creative, ad, adSets)
      BY <1>1 DEF ContentInvariant, Typed
    <3>2. req[r].todo = <<>> /\ req[r].count \in Nat
      BY <2>1, <3>1, ContentAssumption DEF GoodRequests, WellFormed, Requesting
    <3>3. Done(req[r]) = req[r].count
      <4>1. Len(req[r].todo) = 0
        BY <3>2
      <4>2. QED
        BY <3>2, <4>1 DEF Done
    <3>4. QED
      BY <2>1, <3>1, <3>3 DEF Progress
  <2>2. QED
    BY <2>1 DEF CompleteWhenReported, Stored
<1>2. QED
  BY <1>1, ContentAlways, PTL

\* Saving the brand profile of a client while it is archived does not bring it back
\* (ClientsService.upsertBrandProfile beside archive).
THEOREM ArchivedStaysAlways == Spec => ArchivedStays
<1>1. ASSUME ContentInvariant, [Next]_vars, NEW k \in Clients
      PROVE  Unarchived(k)
  <2>1. ASSUME NEW r \in Requests, Writes(r)
        PROVE  Unarchived(k)
    BY <1>1, <2>1, WritesMove DEF ContentInvariant
  <2>2. ASSUME NEW r \in Requests, Serves(r), ~Writes(r)
        PROVE  client' = client
    BY <2>2 DEF Serves, Begins, Begin, BeginPersonas, BeginResearch, BeginOnCampaign,
       ExtractBrand, Asks, StartRun, AskModel, RecordSuccess, RecordFailure, Stores,
       StorePersonas, StoreStrategy, StoreCopy, StoreAdSet, StoreCreative, StoreAd,
       Finishes, Report, Broken, PutFile, StoreAsset, rows
  <2>3. ASSUME NEW c \in Clients, CreateClient(c)
        PROVE  Unarchived(k)
    <3>1. client \in [Clients -> ClientRows \cup {None}] /\ client[c] = None
      BY <1>1, <2>3 DEF CreateClient, ContentInvariant, Typed, TypeOK
    <3>2. k # c => client'[k] = client[k]
      BY <2>3, <3>1 DEF CreateClient
    <3>3. QED
      BY <3>1, <3>2 DEF Unarchived
  <2>4. Others => client' = client \/ \E c \in Clients : CreateClient(c)
    BY DEF Others, RemovePersona, RemoveCampaign, PublishAd, AttachToCreative
  <2>5. UNCHANGED vars => client' = client
    BY DEF vars, rows
  <2>6. client' = client => Unarchived(k)
    BY DEF Unarchived
  <2>7. QED
    BY <1>1, <2>1, <2>2, <2>3, <2>4, <2>5, <2>6, NextKinds
<1>2. ContentInvariant /\ [Next]_vars =>
        [\A k \in Clients : client[k] # None /\ client[k].status = "ARCHIVED" =>
           client'[k].status = "ARCHIVED"]_vars
  BY <1>1 DEF Unarchived
<1>3. QED
  BY <1>2, ContentAlways, PTL DEF Spec, ArchivedStays
=============================================================================
