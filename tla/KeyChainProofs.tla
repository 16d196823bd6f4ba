--------------------------- MODULE KeyChainProofs ---------------------------
(***************************************************************************)
(* No key is disclosed while a kernel program can tag with it, nothing     *)
(* counts as stored that is not on the dispatcher's record, and no chain   *)
(* is left before its keys are delivered, for any length of the chain and  *)
(* delay of disclosure and any number of runs, handlers, generations and   *)
(* failures.  KeysArrive is liveness and stays with TLC.                   *)
(***************************************************************************)
EXTENDS KeyChain, TLAPS, SequenceTheorems, WellFoundedInduction

USE ChainAssumption

-----------------------------------------------------------------------------
(* Types, in parts. *)
Tagger == [upd : {"none", "idle", "read", "put", "remove", "stuck"}, rd : 0..ChainLength,
           hold : BOOLEAN, epoch : Epochs, slot : Epochs]
Request == [st : {"free", "check", "save", "cache", "answer"}, todo : Seq(Keys), got : SUBSET Keys]

ChainTypes ==
  /\ gen \in 0..MaxGenerations /\ age \in [Generations -> 0..Lapsed]
  /\ cur \in 0..gen /\ next \in 0..gen /\ retired \in 0..gen /\ ready \in BOOLEAN
SignTypes ==
  /\ signed \in Epochs /\ run \in [Runs -> {"none", "accepted", "tagging"}]
  /\ tag \in [Runs -> Tagger] /\ stale \subseteq Keys /\ tagged \in Epochs
LoopTypes ==
  /\ stored \in Epochs /\ waits \in Slots \cup {0} /\ out \in [Generations -> Epochs]
  /\ live \in BOOLEAN /\ renewing \in BOOLEAN /\ faults \in 0..MaxFaults
StoreTypes ==
  /\ reqs \in [Slots -> Request] /\ known \subseteq Generations
  /\ record \in [Generations -> Epochs] /\ cache \in [Generations -> Epochs]
TypeParts == ChainTypes /\ SignTypes /\ LoopTypes /\ StoreTypes

-----------------------------------------------------------------------------
(* The inductive invariant.  *)

\* Nothing is disclosed of a chain that is not in use yet, and of any chain only what
\* is DisclosureDelay epochs old.
FreshInv ==
  \A g \in Generations : g > gen \/ (cur # 0 /\ g > cur) => out[g] = 0
DueInv == \A g \in Generations : out[g] = 0 \/ out[g] + DisclosureDelay <= age[g]

\* Chains follow one another: the prepared one is later than the one in use, the retired
\* one and those of leftover filters earlier, and a chain is retired only without filters.
OrderInv ==
  /\ next # 0 => cur # 0 /\ cur < next
  /\ retired # 0 => retired < cur /\ stale = {}
  /\ \A k \in stale : k[1] <= gen /\ (cur # 0 => k[1] < cur)

\* A process that is down keeps nothing.
DownInv ==
  cur = 0 => ~live /\ stored = 0 /\ \A r \in Runs : run[r] = "none" /\ tag[r] = NoTagger

\* Nobody waits for a heartbeat without a session.
QuietInv == ~live => waits = 0

\* A chain is prepared only when every key obtained by a signer is covered, and nothing
\* signs between that and the next session.
NextInv == next # 0 => ~live /\ NoOwners /\ signed <= stored

\* Only a run that tags has a refresh under way.
RunInv == \A r \in Runs : run[r] # "tagging" => tag[r].upd \in {"none", "stuck"}

\* What a tagger holds.  The hold is on the older of the key in the slot and the one
\* being written, which is never below it; before a first hold the key just read is too
\* young to be disclosed.
TaggerAt(r) ==
  /\ tag[r].slot # 0 => tag[r].hold /\ tag[r].epoch <= tag[r].slot
  /\ tag[r].hold => 0 < tag[r].epoch /\ (tag[r].upd = "stuck" \/ tag[r].epoch <= signed)
  /\ tag[r].upd = "none" => ~tag[r].hold
  /\ tag[r].upd = "read" /\ tag[r].hold => tag[r].epoch <= tag[r].rd
  /\ tag[r].upd \in {"read", "put"} => 0 < tag[r].rd /\ tag[r].rd <= signed
  /\ tag[r].upd = "put" => tag[r].hold /\ tag[r].epoch <= tag[r].rd
HoldInv == \A r \in Runs : TaggerAt(r)
SecretAt(r) ==
  /\ tag[r].hold => out[cur] < tag[r].epoch
  /\ tag[r].upd = "read" /\ ~tag[r].hold => age[cur] < tag[r].rd + DisclosureDelay
SecretInv == \A r \in Runs : SecretAt(r)
TaggedInv == tagged <= signed

\* Filters left by an earlier process hold undisclosed keys.
StaleInv == \A k \in stale : out[k[1]] < k[2]

\* A request being handled has something to do, and what is to be cached is recorded.
RequestAt(q) ==
  /\ Len(q.todo) <= 2
  /\ q.st \in {"check", "save", "cache"} => q.todo # <<>>
  /\ q.st = "cache" => Head(q.todo)[2] <= record[Head(q.todo)[1]]
  /\ \A k \in q.got : k[2] <= record[k[1]]
ReqInv == \A s \in Slots : RequestAt(reqs[s])
CacheInv == \A g \in Generations : cache[g] <= record[g]
StoredInv == cur # 0 => stored <= record[cur]

IInv ==
  /\ TypeParts /\ FreshInv /\ DueInv /\ OrderInv /\ DownInv /\ QuietInv /\ NextInv /\ RunInv
  /\ HoldInv /\ SecretInv /\ TaggedInv /\ StaleInv /\ ReqInv /\ CacheInv /\ StoredInv

-----------------------------------------------------------------------------
(* A step that leaves the variables of a conjunct alone keeps it.  *)

\* ChainTypes rests on these variables alone.
LEMMA ChainTypesUnchanged ==
  ASSUME ChainTypes, UNCHANGED <<gen, age, cur, next, retired, ready>>
  PROVE  ChainTypes'
  BY DEF ChainTypes

\* SignTypes rests on these variables alone.
LEMMA SignTypesUnchanged ==
  ASSUME SignTypes, UNCHANGED <<signed, run, tag, stale, tagged>>
  PROVE  SignTypes'
  BY DEF SignTypes

\* LoopTypes rests on these variables alone.
LEMMA LoopTypesUnchanged ==
  ASSUME LoopTypes, UNCHANGED <<stored, waits, out, live, renewing, faults>>
  PROVE  LoopTypes'
  BY DEF LoopTypes

\* StoreTypes rests on these variables alone.
LEMMA StoreTypesUnchanged ==
  ASSUME StoreTypes, UNCHANGED <<reqs, known, record, cache>>
  PROVE  StoreTypes'
  BY DEF StoreTypes

\* FreshInv rests on these variables alone.
LEMMA FreshInvUnchanged ==
  ASSUME FreshInv, UNCHANGED <<gen, cur, out>>
  PROVE  FreshInv'
  BY DEF FreshInv

\* DueInv rests on these variables alone.
LEMMA DueInvUnchanged ==
  ASSUME DueInv, UNCHANGED <<out, age>>
  PROVE  DueInv'
  BY DEF DueInv

\* OrderInv rests on these variables alone.
LEMMA OrderInvUnchanged ==
  ASSUME OrderInv, UNCHANGED <<gen, cur, next, retired, stale>>
  PROVE  OrderInv'
  BY DEF OrderInv

\* DownInv rests on these variables alone.
LEMMA DownInvUnchanged ==
  ASSUME DownInv, UNCHANGED <<cur, live, stored, run, tag>>
  PROVE  DownInv'
  BY DEF DownInv

\* QuietInv rests on these variables alone.
LEMMA QuietInvUnchanged ==
  ASSUME QuietInv, UNCHANGED <<live, waits>>
  PROVE  QuietInv'
  BY DEF QuietInv

\* NextInv rests on these variables alone.
LEMMA NextInvUnchanged ==
  ASSUME NextInv, UNCHANGED <<next, live, run, signed, stored>>
  PROVE  NextInv'
  BY DEF NextInv, NoOwners

\* RunInv rests on these variables alone.
LEMMA RunInvUnchanged ==
  ASSUME RunInv, UNCHANGED <<run, tag>>
  PROVE  RunInv'
  BY DEF RunInv

\* HoldInv rests on these variables alone.
LEMMA HoldInvUnchanged ==
  ASSUME HoldInv, UNCHANGED <<tag, signed>>
  PROVE  HoldInv'
  BY DEF HoldInv, TaggerAt

\* SecretInv rests on these variables alone.
LEMMA SecretInvUnchanged ==
  ASSUME SecretInv, UNCHANGED <<tag, out, cur, age>>
  PROVE  SecretInv'
  BY DEF SecretInv, SecretAt

\* TaggedInv rests on these variables alone.
LEMMA TaggedInvUnchanged ==
  ASSUME TaggedInv, UNCHANGED <<tagged, signed>>
  PROVE  TaggedInv'
  BY DEF TaggedInv

\* StaleInv rests on these variables alone.
LEMMA StaleInvUnchanged ==
  ASSUME StaleInv, UNCHANGED <<stale, out>>
  PROVE  StaleInv'
  BY DEF StaleInv

\* ReqInv rests on these variables alone.
LEMMA ReqInvUnchanged ==
  ASSUME ReqInv, UNCHANGED <<reqs, record>>
  PROVE  ReqInv'
  BY DEF ReqInv, RequestAt

\* CacheInv rests on these variables alone.
LEMMA CacheInvUnchanged ==
  ASSUME CacheInv, UNCHANGED <<cache, record>>
  PROVE  CacheInv'
  BY DEF CacheInv

\* StoredInv rests on these variables alone.
LEMMA StoredInvUnchanged ==
  ASSUME StoredInv, UNCHANGED <<cur, stored, record>>
  PROVE  StoredInv'
  BY DEF StoredInv

-----------------------------------------------------------------------------
(* What the operators of the key schedule and of the handlers return. *)

\* A nonempty set of numbers has a least element.
LEMMA LeastExists ==
  ASSUME NEW S, S \subseteq Nat, S # {}
  PROVE  \E x \in S : \A y \in S : x <= y
  <1>1. PICK x \in S : \A y \in S : ~ (<<y, x>> \in OpToRel(<, Nat))
    BY NatLessThanWellFounded, WFMin
  <1>2. \A y \in S : ~ (y < x)
    BY <1>1 DEF OpToRel
  <1> QED
    BY <1>2

\* A nonempty set of numbers up to n has a greatest element.
LEMMA GreatestExists ==
  ASSUME NEW n \in Int, NEW S, S \subseteq 1..n, S # {}
  PROVE  \E x \in S : \A y \in S : y <= x
  <1> DEFINE T == {n - y : y \in S}
  <1>1. T \subseteq Nat /\ T # {}
    <2>1. \A y \in S : n - y \in Nat
      OBVIOUS
    <2>2. PICK y \in S : TRUE
      OBVIOUS
    <2>3. n - y \in T
      BY <2>2
    <2> QED
      BY <2>1, <2>3
  <1>2. PICK t \in T : \A u \in T : t <= u
    BY <1>1, LeastExists
  <1>3. PICK x \in S : t = n - x
    BY <1>2
  <1>4. \A y \in S : n - x <= n - y
    BY <1>2, <1>3
  <1> QED
    BY <1>4

\* A disclosed key is old enough and below every key held by a tagger.
LEMMA DisclosedIsDue ==
  ASSUME TypeParts, NEW g \in Generations
  PROVE  /\ DisclosedKey(g) \in Epochs
         /\ DisclosedKey(g) # 0 => DisclosedKey(g) + DisclosureDelay <= age[g]
         /\ DisclosedKey(g) # 0 /\ g = cur => Capped(DisclosedKey(g))
  <1> DEFINE due == Least(age[g] - DisclosureDelay, ChainLength - 1)
             ok  == {d \in 1..due : g = cur => Capped(d)}
  <1>1. age[g] \in Int
    BY DEF TypeParts, ChainTypes
  <1>2. due \in Int /\ due <= age[g] - DisclosureDelay /\ due <= ChainLength - 1
    BY <1>1 DEF Least
  <1>3. DisclosedKey(g) = IF ok = {} THEN 0 ELSE CHOOSE d \in ok : \A x \in ok : x <= d
    BY DEF DisclosedKey
  <1> HIDE DEF due
  <1>4. CASE ok = {}
    BY <1>3, <1>4 DEF Epochs
  <1>5. CASE ok # {}
    <2>1. \E d \in ok : \A x \in ok : x <= d
      BY <1>2, <1>5, GreatestExists
    <2>2. DisclosedKey(g) \in ok
      BY <1>3, <1>5, <2>1
    <2> QED
      BY <1>1, <1>2, <2>2 DEF Epochs
  <1> QED
    BY <1>4, <1>5

\* A heartbeat discloses at most one key each of the chain in use and the retired one.
LEMMA DisclosuresShape ==
  ASSUME TypeParts, cur # 0
  PROVE  /\ Disclosures \in Seq(Keys) /\ Len(Disclosures) <= 2
         /\ \A i \in DOMAIN Disclosures : Disclosures[i][1] \in {cur, retired} \ {0}
  <1>1. cur \in Generations /\ (Offered # 0 => Offered \in Generations /\ Offered = retired)
    BY DEF TypeParts, ChainTypes, Generations, Offered
  <1>2. <<cur, DisclosedKey(cur)>> \in Keys /\ (Offered # 0 => <<Offered, DisclosedKey(Offered)>> \in Keys)
    BY <1>1, DisclosedIsDue DEF Keys
  <1> DEFINE a == <<cur, DisclosedKey(cur)>>
             b == <<Offered, DisclosedKey(Offered)>>
  <1>3. a[1] = cur /\ b[1] = Offered /\ a \in Keys /\ (Offered # 0 => b \in Keys)
    BY <1>2
  <1> HIDE DEF a, b
  <1>4. PICK p \in {<<>>, <<a>>}, q \in {<<>>, <<b>>} :
          Disclosures = p \o q /\ (Offered = 0 => q = <<>>)
    BY Zenon DEF Disclosures, a, b
  <1>5. p \in Seq(Keys) /\ Len(p) <= 1 /\ \A i \in 1..Len(p) : p[i] = a
    <2>1. CASE p = <<>>
      BY <2>1, EmptySeq
    <2>2. CASE p = <<a>>
      BY <1>3, <2>2
    <2> QED
      BY <1>4, <2>1, <2>2
  <1>6. q \in Seq(Keys) /\ Len(q) <= 1 /\ \A i \in 1..Len(q) : q[i] = b /\ Offered # 0
    <2>1. CASE q = <<>>
      BY <2>1, EmptySeq
    <2>2. CASE q = <<b>> /\ Offered # 0
      BY <1>3, <2>2
    <2> QED
      BY <1>4, <2>1, <2>2
  <1>7. /\ p \o q \in Seq(Keys) /\ Len(p \o q) = Len(p) + Len(q) /\ Len(p) \in Nat /\ Len(q) \in Nat
        /\ \A i \in 1..(Len(p) + Len(q)) : (p \o q)[i] = IF i <= Len(p) THEN p[i] ELSE q[i - Len(p)]
    BY <1>5, <1>6, ConcatProperties
  <1>8. \A i \in 1..(Len(p) + Len(q)) : (p \o q)[i] = a \/ ((p \o q)[i] = b /\ Offered # 0)
    BY <1>5, <1>6, <1>7
  <1>9. DOMAIN (p \o q) = 1..(Len(p) + Len(q))
    BY <1>7
  <1>10. \A i \in 1..(Len(p) + Len(q)) : (p \o q)[i][1] \in {cur, retired} \ {0}
    BY <1>1, <1>3, <1>8
  <1> QED
    BY <1>4, <1>5, <1>6, <1>7, <1>9, <1>10

\* The handler of a heartbeat is a free slot.
LEMMA HandlerIsFree ==
  ASSUME \E s \in Slots : reqs[s] = NoRequest
  PROVE  Handler \in Slots /\ reqs[Handler] = NoRequest /\ Handler # 0
  <1> DEFINE F == {s \in Slots : reqs[s] = NoRequest}
  <1>1. PICK s \in F : \A x \in F : s <= x
    BY LeastExists
  <1> QED
    BY <1>1 DEF Handler

\* A sequence of two or more elements has a tail.
LEMMA TailOfLong ==
  ASSUME NEW S, NEW x \in Seq(S), Len(x) > 1, Len(x) <= 2
  PROVE  Tail(x) \in Seq(S) /\ Len(Tail(x)) <= 2 /\ Tail(x) # <<>>
  <1>1. x # <<>> /\ Len(x) = 2
    BY SMTT(30)
  <1>2. Tail(x) \in Seq(S) /\ Len(Tail(x)) = Len(x) - 1
    BY <1>1, HeadTailProperties
  <1> DEFINE y == Tail(x)
  <1>3. y \in Seq(S) /\ Len(y) = 1
    BY <1>1, <1>2
  <1> HIDE DEF y
  <1>4. y # <<>> /\ Len(y) <= 2
    BY <1>3
  <1> QED
    BY <1>3, <1>4 DEF y

\* Passing on to the next disclosure adds the receipt and leaves a well-formed request.
LEMMA SkipIsRight ==
  ASSUME StoreTypes, NEW s \in Slots, RequestAt(reqs[s]), NEW got \in SUBSET Keys,
         reqs[s].st # "answer"
  PROVE  /\ Skip(s, got) \in Request /\ Skip(s, got).st # "cache"
         /\ Len(Skip(s, got).todo) <= 2
         /\ Skip(s, got).st \in {"check", "save", "cache"} => Skip(s, got).todo # <<>>
         /\ \A k \in Skip(s, got).got : k \in reqs[s].got \cup got
  <1>1. reqs[s].todo \in Seq(Keys) /\ reqs[s].got \in SUBSET Keys /\ Len(reqs[s].todo) <= 2
    BY DEF StoreTypes, Request, RequestAt
  <1>2. NoRequest \in Request /\ NoRequest.st = "free" /\ NoRequest.todo = <<>> /\ NoRequest.got = {}
    BY DEF NoRequest, Request
  <1>3. CASE Len(reqs[s].todo) > 1
    <2> DEFINE q == [st |-> "check", todo |-> Tail(reqs[s].todo), got |-> reqs[s].got \cup got]
    <2>1. Skip(s, got) = q
      BY <1>1, <1>3 DEF Skip
    <2>2. /\ Tail(reqs[s].todo) \in Seq(Keys) /\ Len(Tail(reqs[s].todo)) <= 2
          /\ Tail(reqs[s].todo) # <<>>
      BY <1>1, <1>3, TailOfLong
    <2>3. q \in Request /\ q.st = "check" /\ q.todo = Tail(reqs[s].todo) /\ q.got = reqs[s].got \cup got
      BY <1>1, <2>2 DEF Request
    <2> QED
      BY <2>1, <2>2, <2>3
  <1>4. CASE ~(Len(reqs[s].todo) > 1) /\ s = waits /\ Len(reqs[s].todo) = 1
    <2> DEFINE q == [st |-> "answer", todo |-> <<>>, got |-> reqs[s].got \cup got]
    <2>1. Skip(s, got) = q
      BY <1>4 DEF Skip
    <2>2. q \in Request /\ q.st = "answer" /\ q.todo = <<>> /\ q.got = reqs[s].got \cup got
      BY <1>1 DEF Request
    <2> QED
      BY <2>1, <2>2
  <1>5. CASE ~(Len(reqs[s].todo) > 1) /\ ~(s = waits /\ Len(reqs[s].todo) = 1)
    <2>1. Skip(s, got) = NoRequest
      BY <1>5 DEF Skip
    <2> QED
      BY <1>2, <2>1
  <1> QED
    BY <1>3, <1>4, <1>5

\* Requests that are dropped or kept as they were stay well-formed.
LEMMA DroppedIsRight ==
  ASSUME StoreTypes, ReqInv, record' = record, reqs' = [s \in Slots |-> reqs'[s]],
         \A s \in Slots : reqs'[s] = reqs[s] \/ reqs'[s] = NoRequest
  PROVE  reqs' \in [Slots -> Request] /\ ReqInv'
  <1>1. NoRequest \in Request /\ NoRequest.st = "free" /\ NoRequest.todo = <<>> /\ NoRequest.got = {}
    BY DEF NoRequest, Request
  <1>2. \A s \in Slots : reqs'[s] \in Request
    BY <1>1 DEF StoreTypes
  <1>3. ASSUME NEW s \in Slots PROVE RequestAt(reqs[s])'
    BY <1>1 DEF ReqInv, RequestAt
  <1> QED
    BY <1>2, <1>3 DEF ReqInv

-----------------------------------------------------------------------------
(* What each step does to the conjuncts it disturbs.  *)

\* An epoch passes: nothing disclosed becomes younger, and a key read but not yet
\* claimed is still too young.
LEMMA TickKeeps ==
  ASSUME IInv, Tick
  PROVE  IInv'
  <1> USE DEF IInv, TypeParts
  <1>1. UNCHANGED <<gen, cur, next, retired, ready, signed, run, tag, stale, tagged, stored, waits, out,
            live, renewing, faults, reqs, known, record, cache>>
    BY DEF Tick, PromptClaims, chains, signing, delivery, session, dispatcher
  <1>2. /\ age \in [Generations -> 0..Lapsed]
        /\ gen \in 0..MaxGenerations
        /\ cur \in 0..gen
        /\ out \in [Generations -> Epochs]
        /\ tag \in [Runs -> Tagger]
    BY DEF ChainTypes, LoopTypes, SignTypes
  <1>3. /\ \A g \in Generations : g <= gen => age[g] <= age'[g] /\ age'[g] <= age[g] + 1
        /\ age' \in [Generations -> 0..Lapsed]
    BY <1>2 DEF Tick, Least, Lapsed, FinalDisclosure, Generations
  <1>4. ChainTypes'
    BY <1>1, <1>3 DEF ChainTypes
  <1>5. DueInv'
    BY <1>1, <1>2, <1>3 DEF DueInv, FreshInv, Generations, Epochs
  <1>6. SecretInv'
    <2>1. ASSUME NEW r \in Runs PROVE SecretAt(r)'
      <3>1. tag[r] \in Tagger /\ SecretAt(r)
        BY <1>2 DEF SecretInv
      <3>2. ASSUME tag[r].upd = "read", ~tag[r].hold PROVE age'[cur] < tag[r].rd + DisclosureDelay
        <4>1. cur \in Generations /\ cur <= gen
          BY <1>2, <3>2 DEF DownInv, NoTagger, Generations
        <4>2. age[cur] + 1 < tag[r].rd + DisclosureDelay
          BY <3>2 DEF Tick, PromptClaims
        <4> QED
          BY <1>2, <1>3, <3>1, <4>1, <4>2 DEF Tagger
      <3> QED
        BY <1>1, <3>1, <3>2 DEF SecretAt
    <2> QED
      BY <2>1 DEF SecretInv
  <1> QED
    BY <1>1, <1>4, <1>5, <1>6, SignTypesUnchanged, LoopTypesUnchanged, StoreTypesUnchanged,
      FreshInvUnchanged, OrderInvUnchanged, DownInvUnchanged, QuietInvUnchanged, NextInvUnchanged,
      RunInvUnchanged, HoldInvUnchanged, TaggedInvUnchanged, StaleInvUnchanged, ReqInvUnchanged,
      CacheInvUnchanged, StoredInvUnchanged

\* A run is accepted by a live session only.
LEMMA AcceptKeeps ==
  ASSUME IInv, NEW r \in Runs, Accept(r)
  PROVE  IInv'
  <1> USE DEF IInv, TypeParts
  <1>1. UNCHANGED <<gen, age, cur, next, retired, ready, signed, tag, stale, tagged, stored, waits, out,
            live, renewing, faults, reqs, known, record, cache>>
    BY DEF Accept, chains, signing, delivery, session, dispatcher
  <1>2. /\ run \in [Runs -> {"none", "accepted", "tagging"}]
        /\ signed \in Epochs
        /\ cur \in 0..gen
        /\ gen \in 0..MaxGenerations
        /\ age \in [Generations -> 0..Lapsed]
        /\ out \in [Generations -> Epochs]
        /\ live \in BOOLEAN
        /\ stored \in Epochs
    BY DEF SignTypes, ChainTypes, LoopTypes
  <1>3. live /\ cur # 0 /\ tag[r].upd = "none"
    BY DEF Accept, DownInv, NoTagger
  <1>4. SignTypes'
    BY <1>1, <1>2, <1>3 DEF Accept, SignTypes
  <1>5. DownInv'
    BY <1>1, <1>2, <1>3 DEF Accept, DownInv
  <1>6. NextInv'
    BY <1>1, <1>2, <1>3 DEF Accept, NextInv, NoOwners
  <1>7. RunInv'
    BY <1>1, <1>2, <1>3 DEF Accept, RunInv
  <1> QED
    BY <1>1, <1>4, <1>5, <1>6, <1>7, ChainTypesUnchanged, LoopTypesUnchanged, StoreTypesUnchanged,
      FreshInvUnchanged, DueInvUnchanged, OrderInvUnchanged, QuietInvUnchanged, HoldInvUnchanged,
      SecretInvUnchanged, TaggedInvUnchanged, StaleInvUnchanged, ReqInvUnchanged,
      CacheInvUnchanged, StoredInvUnchanged

\* A new tagger holds nothing.
LEMMA OpenKeeps ==
  ASSUME IInv, NEW r \in Runs, Open(r)
  PROVE  IInv'
  <1> USE DEF IInv, TypeParts
  <1>1. UNCHANGED <<gen, age, cur, next, retired, ready, signed, stale, tagged, stored, waits, out, live,
            renewing, faults, reqs, known, record, cache>>
    BY DEF Open, chains, signing, delivery, session, dispatcher
  <1>2. /\ run \in [Runs -> {"none", "accepted", "tagging"}]
        /\ tag \in [Runs -> Tagger]
        /\ signed \in Epochs
        /\ cur \in 0..gen
        /\ gen \in 0..MaxGenerations
        /\ age \in [Generations -> 0..Lapsed]
        /\ out \in [Generations -> Epochs]
        /\ live \in BOOLEAN
        /\ stored \in Epochs
    BY DEF SignTypes, ChainTypes, LoopTypes
  <1>3. live /\ run[r] = "accepted" /\ cur # 0
    BY DEF Open, DownInv
  <1>4. NoTagger \in Tagger /\ NoTagger.hold = FALSE /\ NoTagger.slot = 0
    BY DEF NoTagger, Tagger, Epochs
  <1> DEFINE t == [NoTagger EXCEPT !.upd = "idle", !.rd = ChainLength]
  <1>5. t \in Tagger /\ t.upd = "idle" /\ t.hold = FALSE /\ t.slot = 0
    <2>1. ChainLength \in 0..ChainLength
      OBVIOUS
    <2> QED
      BY <1>4, <2>1 DEF Tagger
  <1> HIDE DEF t
  <1>6. tag' = [tag EXCEPT ![r] = t]
    BY DEF Open, t
  <1>7. SignTypes'
    BY <1>1, <1>2, <1>5, <1>6 DEF SignTypes, Open
  <1>8. DownInv'
    BY <1>1, <1>2, <1>3, <1>4, <1>5, <1>6 DEF Open, DownInv, NoTagger
  <1>9. NextInv'
    BY <1>1, <1>2, <1>3, <1>4, <1>5, <1>6 DEF Open, NextInv, NoOwners, NoTagger
  <1>10. RunInv'
    BY <1>1, <1>2, <1>5, <1>6 DEF RunInv, Open
  <1>11. HoldInv'
    BY <1>1, <1>2, <1>5, <1>6 DEF HoldInv, TaggerAt
  <1>12. SecretInv'
    BY <1>1, <1>2, <1>5, <1>6 DEF SecretInv, SecretAt
  <1> QED
    BY <1>1, <1>7, <1>8, <1>9, <1>10, <1>11, <1>12, ChainTypesUnchanged, LoopTypesUnchanged,
      StoreTypesUnchanged, FreshInvUnchanged, DueInvUnchanged, OrderInvUnchanged,
      QuietInvUnchanged, TaggedInvUnchanged, StaleInvUnchanged, ReqInvUnchanged,
      CacheInvUnchanged, StoredInvUnchanged

\* The key read is that of the current epoch, which is not due for DisclosureDelay
\* epochs.
LEMMA RefreshReadKeeps ==
  ASSUME IInv, NEW r \in Runs, RefreshRead(r)
  PROVE  IInv'
  <1> USE DEF IInv, TypeParts
  <1>1. UNCHANGED <<gen, age, cur, next, retired, ready, run, stale, tagged, stored, waits, out, live,
            renewing, reqs, known, record, cache>>
    BY DEF RefreshRead, Fails, Fault, chains, signing, delivery, session, dispatcher
  <1>2. /\ signed \in Epochs
        /\ tag \in [Runs -> Tagger]
        /\ faults \in 0..MaxFaults
        /\ cur \in 0..gen
        /\ gen \in 0..MaxGenerations
        /\ age \in [Generations -> 0..Lapsed]
        /\ run \in [Runs -> {"none", "accepted", "tagging"}]
        /\ out \in [Generations -> Epochs]
        /\ live \in BOOLEAN
        /\ stored \in Epochs
    BY DEF SignTypes, LoopTypes, ChainTypes
  <1>3. tag[r] \in Tagger /\ run[r] = "tagging" /\ cur \in Generations
    BY <1>2 DEF RefreshRead, RunInv, DownInv, Generations
  <1>4. /\ CurrentKey \in Epochs
        /\ CurrentKey # 0 => CurrentKey = age[cur] /\ signed <= CurrentKey
    BY <1>2, <1>3 DEF CurrentKey, Epochs, Lapsed, FinalDisclosure
  <1>5. PICK e \in {0, CurrentKey} :
          /\ Fails(e # CurrentKey) /\ signed' = Greatest(signed, e)
          /\ tag' = [tag EXCEPT ![r].rd = e, ![r].upd = IF e = 0 THEN "remove" ELSE "read"]
    BY DEF RefreshRead
  <1> DEFINE u == IF e = 0 THEN "remove" ELSE "read"
             t == [tag[r] EXCEPT !.rd = e, !.upd = u]
  <1>6. tag' = [tag EXCEPT ![r] = t]
    BY <1>2, <1>5
  <1>7. /\ t \in Tagger /\ t.rd = e /\ t.upd = u /\ u = (IF e = 0 THEN "remove" ELSE "read")
        /\ t.hold = tag[r].hold /\ t.epoch = tag[r].epoch /\ t.slot = tag[r].slot
    <2>1. u \in {"remove", "read"} /\ e \in 0..ChainLength
      BY <1>4 DEF Epochs
    <2>2. u = (IF e = 0 THEN "remove" ELSE "read")
      OBVIOUS
    <2> HIDE DEF u
    <2> QED
      BY <1>3, <2>1, <2>2 DEF Tagger
  <1>8. signed' \in Epochs /\ signed <= signed' /\ e <= signed' /\ e \in Epochs
    BY <1>2, <1>4, <1>5 DEF Greatest, Epochs
  <1> HIDE DEF t, u
  <1>9. SignTypes'
    BY <1>1, <1>2, <1>6, <1>7, <1>8 DEF SignTypes
  <1>10. LoopTypes'
    BY <1>1, <1>2, <1>5 DEF LoopTypes, Fails, Fault
  <1>11. DownInv'
    BY <1>1, <1>3 DEF DownInv, Generations
  <1>12. NextInv'
    BY <1>1, <1>3 DEF NextInv, NoOwners
  <1>13. RunInv'
    BY <1>1, <1>2, <1>3, <1>6 DEF RunInv
  <1>14. HoldInv'
    <2>1. ASSUME NEW q \in Runs, q # r PROVE TaggerAt(q)'
      <3>1. tag'[q] = tag[q] /\ tag[q] \in Tagger
        BY <1>2, <2>1, <1>6
      <3> QED
        BY <1>1, <1>2, <1>4, <1>5, <1>7, <1>8, <3>1 DEF HoldInv, TaggerAt, Tagger, Epochs
    <2>2. TaggerAt(r)'
      <3>1. TaggerAt(r) /\ SecretAt(r)
        BY DEF HoldInv, SecretInv
      <3> QED
        BY <1>1, <1>2, <1>3, <1>6, <1>4, <1>5, <1>7, <1>8, <3>1 DEF TaggerAt, Tagger, Epochs
    <2> QED
      BY <2>1, <2>2 DEF HoldInv
  <1>15. SecretInv'
    BY <1>1, <1>2, <1>3, <1>4, <1>5, <1>6, <1>7 DEF SecretInv, SecretAt, Epochs, Lapsed,
      FinalDisclosure
  <1>16. TaggedInv'
    BY <1>1, <1>2, <1>8 DEF TaggedInv, SignTypes, Epochs
  <1> QED
    BY <1>1, <1>9, <1>10, <1>11, <1>12, <1>13, <1>14, <1>15, <1>16, ChainTypesUnchanged,
      StoreTypesUnchanged, FreshInvUnchanged, DueInvUnchanged, OrderInvUnchanged,
      QuietInvUnchanged, StaleInvUnchanged, ReqInvUnchanged, CacheInvUnchanged, StoredInvUnchanged

\* From here on the hold caps disclosure: at the key read, or at the older one still
\* installed.
LEMMA RefreshClaimKeeps ==
  ASSUME IInv, NEW r \in Runs, RefreshClaim(r)
  PROVE  IInv'
  <1> USE DEF IInv, TypeParts
  <1>1. UNCHANGED <<gen, age, cur, next, retired, ready, signed, run, stale, tagged, stored, waits, out,
            live, renewing, faults, reqs, known, record, cache>>
    BY DEF RefreshClaim, chains, signing, delivery, session, dispatcher
  <1>2. /\ tag \in [Runs -> Tagger]
        /\ signed \in Epochs
        /\ cur \in 0..gen
        /\ gen \in 0..MaxGenerations
        /\ age \in [Generations -> 0..Lapsed]
        /\ run \in [Runs -> {"none", "accepted", "tagging"}]
        /\ out \in [Generations -> Epochs]
        /\ live \in BOOLEAN
        /\ stored \in Epochs
    BY DEF SignTypes, ChainTypes, LoopTypes
  <1>3. tag[r] \in Tagger /\ run[r] = "tagging" /\ cur \in Generations
    BY <1>2 DEF RefreshClaim, RunInv, DownInv, Generations
  <1>4. 0 < tag[r].rd /\ tag[r].rd <= signed /\ tag[r].rd \in Epochs /\ tag[r].epoch \in Epochs
    BY <1>2, <1>3 DEF RefreshClaim, HoldInv, TaggerAt, Tagger, Epochs
  <1>5. /\ tag' \in [Runs -> Tagger] /\ \A q \in Runs \ {r} : tag'[q] = tag[q]
        /\ tag'[r].upd = "put"
        /\ tag'[r].rd = tag[r].rd
        /\ tag'[r].hold = TRUE
        /\ tag'[r].epoch = (IF ~tag[r].hold \/ tag[r].rd < tag[r].epoch THEN tag[r].rd ELSE tag[r].epoch)
        /\ tag'[r].slot = tag[r].slot
    BY <1>2, <1>3, <1>4 DEF RefreshClaim, Claimed, Tagger
  <1>6. tag[r].upd = "read"
    BY DEF RefreshClaim
  <1>7. SignTypes'
    BY <1>1, <1>2, <1>5 DEF SignTypes
  <1>8. DownInv'
    BY <1>1, <1>3 DEF DownInv, Generations
  <1>9. RunInv'
    BY <1>1, <1>2, <1>3, <1>4, <1>5, <1>6 DEF RunInv
  <1>10. HoldInv'
    BY <1>1, <1>2, <1>3, <1>4, <1>5, <1>6 DEF HoldInv, TaggerAt, Tagger, Epochs
  <1>11. SecretInv'
    <2>1. ASSUME NEW q \in Runs, q # r PROVE SecretAt(q)'
      <3>1. tag'[q] = tag[q] /\ tag[q] \in Tagger
        BY <1>2, <2>1, <1>5
      <3> QED
        BY <1>1, <1>2, <1>4, <1>6, <3>1 DEF SecretInv, SecretAt, Tagger, Epochs
    <2>2. SecretAt(r)'
      <3>1. TaggerAt(r) /\ SecretAt(r)
        BY DEF HoldInv, SecretInv
      <3>2. out[cur] \in Nat /\ age[cur] \in Nat
        BY <1>2, <1>3 DEF Epochs
      <3>3. CASE tag[r].hold = FALSE
        <4>1. tag'[r].epoch = tag[r].rd /\ age[cur] < tag[r].rd + DisclosureDelay
          BY <1>5, <1>6, <3>1, <3>3 DEF SecretAt
        <4>2. out[cur] = 0 \/ out[cur] + DisclosureDelay <= age[cur]
          BY <1>3 DEF DueInv
        <4>3. out[cur] < tag[r].rd
          BY <1>4, <3>2, <4>1, <4>2 DEF Epochs
        <4> QED
          BY <1>1, <1>5, <4>1, <4>3 DEF SecretAt
      <3>4. CASE tag[r].hold = TRUE
        <4>1. tag[r].epoch <= tag[r].rd
          BY <1>6, <3>1, <3>4 DEF TaggerAt
        <4>2. tag'[r].epoch = tag[r].epoch
          BY <1>4, <1>5, <3>4, <4>1 DEF Epochs
        <4> QED
          BY <1>1, <1>5, <3>1, <3>4, <4>2 DEF SecretAt
      <3> QED
        BY <1>3, <3>3, <3>4 DEF Tagger
    <2> QED
      BY <2>1, <2>2 DEF SecretInv
  <1> QED
    BY <1>1, <1>7, <1>8, <1>9, <1>10, <1>11, ChainTypesUnchanged, LoopTypesUnchanged,
      StoreTypesUnchanged, FreshInvUnchanged, DueInvUnchanged, OrderInvUnchanged,
      QuietInvUnchanged, NextInvUnchanged, TaggedInvUnchanged, StaleInvUnchanged, ReqInvUnchanged,
      CacheInvUnchanged, StoredInvUnchanged

\* The slot holds the key read, which is no older than the one held until now.
LEMMA RefreshInstallKeeps ==
  ASSUME IInv, NEW r \in Runs, RefreshInstall(r)
  PROVE  IInv'
  <1> USE DEF IInv, TypeParts
  <1>1. UNCHANGED <<gen, age, cur, next, retired, ready, signed, run, stale, stored, waits, out, live,
            renewing, reqs, known, record, cache>>
    BY DEF RefreshInstall, Fault, chains, signing, delivery, session, dispatcher
  <1>2. /\ tag \in [Runs -> Tagger]
        /\ tagged \in Epochs
        /\ faults \in 0..MaxFaults
        /\ signed \in Epochs
        /\ cur \in 0..gen
        /\ gen \in 0..MaxGenerations
        /\ age \in [Generations -> 0..Lapsed]
        /\ run \in [Runs -> {"none", "accepted", "tagging"}]
        /\ out \in [Generations -> Epochs]
        /\ live \in BOOLEAN
        /\ stored \in Epochs
    BY DEF SignTypes, LoopTypes, ChainTypes
  <1>3. tag[r] \in Tagger /\ run[r] = "tagging" /\ cur \in Generations
    BY <1>2 DEF RefreshInstall, RunInv, DownInv, Generations
  <1>4. /\ 0 < tag[r].rd /\ tag[r].rd <= signed /\ tag[r].rd \in Epochs /\ tag[r].epoch \in Epochs
        /\ tag[r].hold /\ tag[r].epoch <= tag[r].rd
    BY <1>2, <1>3 DEF RefreshInstall, HoldInv, TaggerAt, Tagger, Epochs
  <1> DEFINE t == [tag[r] EXCEPT !.upd = "idle", !.slot = tag[r].rd, !.epoch = tag[r].rd]
             u == [tag[r] EXCEPT !.upd = "remove"]
  <1>5. /\ t \in Tagger /\ t.upd = "idle" /\ t.rd = tag[r].rd /\ t.hold = tag[r].hold
        /\ t.slot = tag[r].rd /\ t.epoch = tag[r].rd
    BY <1>3, <1>4 DEF Tagger
  <1>6. /\ u \in Tagger /\ u.upd = "remove" /\ u.rd = tag[r].rd /\ u.hold = tag[r].hold
        /\ u.slot = tag[r].slot /\ u.epoch = tag[r].epoch
    BY <1>3 DEF Tagger
  <1>7. \/ tag' = [tag EXCEPT ![r] = t] /\ tagged' = Greatest(tagged, tag[r].rd)
        \/ tag' = [tag EXCEPT ![r] = u] /\ tagged' = tagged
    BY <1>2 DEF RefreshInstall
  <1> HIDE DEF t, u
  <1>8. tagged' \in Epochs /\ (tagged' = tagged \/ tagged' <= tag[r].rd)
    BY <1>2, <1>4, <1>7 DEF Greatest, Epochs
  <1>9. SignTypes'
    BY <1>1, <1>2, <1>5, <1>6, <1>7, <1>8 DEF SignTypes
  <1>10. LoopTypes'
    BY <1>1, <1>2, <1>3, <1>4, <1>5, <1>6, <1>7, <1>8 DEF RefreshInstall, Fault, LoopTypes
  <1>11. DownInv'
    BY <1>1, <1>3 DEF DownInv, Generations
  <1>12. RunInv'
    BY <1>1, <1>2, <1>3, <1>4, <1>5, <1>6, <1>7 DEF RunInv
  <1>13. HoldInv'
    <2>1. ASSUME NEW q \in Runs, q # r PROVE TaggerAt(q)'
      <3>1. tag'[q] = tag[q] /\ tag[q] \in Tagger
        BY <1>2, <2>1, <1>7
      <3> QED
        BY <1>1, <1>2, <1>4, <1>5, <1>6, <3>1 DEF HoldInv, TaggerAt, Tagger, Epochs
    <2>2. TaggerAt(r)'
      <3>1. TaggerAt(r) /\ SecretAt(r)
        BY DEF HoldInv, SecretInv
      <3>2. CASE tag' = [tag EXCEPT ![r] = t]
        <4>1. tag'[r] = t
          BY <1>2, <3>2
        <4>2. t.hold /\ t.upd = "idle"
          BY <1>4, <1>5
        <4>3. 0 < t.epoch /\ t.epoch <= t.slot /\ t.epoch <= signed'
          BY <1>1, <1>4, <1>5 DEF Epochs
        <4> QED
          BY <4>1, <4>2, <4>3 DEF TaggerAt
      <3>3. CASE tag' = [tag EXCEPT ![r] = u]
        <4>1. tag'[r] = u
          BY <1>2, <3>3
        <4> QED
          BY <1>1, <1>4, <1>6, <3>1, <4>1 DEF TaggerAt, RefreshInstall
      <3> QED
        BY <1>7, <3>2, <3>3
    <2> QED
      BY <2>1, <2>2 DEF HoldInv
  <1>14. SecretInv'
    <2>1. CASE tag' = [tag EXCEPT ![r] = t]
      BY <1>1, <1>2, <1>3, <1>4, <1>5, <2>1 DEF SecretInv, SecretAt, HoldInv, TaggerAt, Tagger, Epochs
    <2>2. CASE tag' = [tag EXCEPT ![r] = u]
      BY <1>1, <1>2, <1>3, <1>4, <1>6, <2>2 DEF SecretInv, SecretAt, HoldInv, TaggerAt, Tagger, Epochs
    <2> QED
      BY <1>7, <2>1, <2>2
  <1>15. TaggedInv'
    BY <1>1, <1>2, <1>4, <1>8 DEF TaggedInv, Epochs
  <1> QED
    BY <1>1, <1>9, <1>10, <1>11, <1>12, <1>13, <1>14, <1>15, ChainTypesUnchanged,
      StoreTypesUnchanged, FreshInvUnchanged, DueInvUnchanged, OrderInvUnchanged,
      QuietInvUnchanged, NextInvUnchanged, StaleInvUnchanged, ReqInvUnchanged, CacheInvUnchanged,
      StoredInvUnchanged

\* A hold goes only with its slot.
LEMMA RefreshRemoveKeeps ==
  ASSUME IInv, NEW r \in Runs, RefreshRemove(r)
  PROVE  IInv'
  <1> USE DEF IInv, TypeParts
  <1>1. UNCHANGED <<gen, age, cur, next, retired, ready, signed, run, stale, tagged, stored, waits, out,
            live, renewing, reqs, known, record, cache>>
    BY DEF RefreshRemove, Fails, Fault, chains, signing, delivery, session, dispatcher
  <1>2. /\ tag \in [Runs -> Tagger]
        /\ faults \in 0..MaxFaults
        /\ signed \in Epochs
        /\ cur \in 0..gen
        /\ gen \in 0..MaxGenerations
        /\ age \in [Generations -> 0..Lapsed]
        /\ run \in [Runs -> {"none", "accepted", "tagging"}]
        /\ out \in [Generations -> Epochs]
        /\ live \in BOOLEAN
        /\ stored \in Epochs
    BY DEF SignTypes, LoopTypes, ChainTypes
  <1>3. tag[r] \in Tagger /\ run[r] = "tagging" /\ cur \in Generations
    <2>1. tag[r].upd = "remove"
      BY DEF RefreshRemove
    <2>2. run[r] = "tagging"
      BY <2>1 DEF RunInv
    <2>3. cur # 0
      BY <2>2 DEF DownInv
    <2> HIDE DEF IInv, TypeParts
    <2> QED
      BY <1>2, <2>2, <2>3 DEF Generations
  <1>4. ASSUME NEW b \in BOOLEAN
        PROVE  /\ Released(tag[r], b) \in Tagger /\ Released(tag[r], b).upd = "idle"
               /\ b => Released(tag[r], b).hold = FALSE /\ Released(tag[r], b).slot = 0
               /\ ~b => /\ Released(tag[r], b).hold = tag[r].hold
                        /\ Released(tag[r], b).slot = tag[r].slot
                        /\ Released(tag[r], b).epoch = tag[r].epoch
    <2>1. NoTagger \in Tagger /\ NoTagger.hold = FALSE /\ NoTagger.slot = 0
      BY DEF NoTagger, Tagger, Epochs
    <2>2. CASE b
      <3> DEFINE u == [NoTagger EXCEPT !.upd = "idle", !.rd = tag[r].rd]
      <3>1. u \in Tagger /\ u.upd = "idle" /\ u.hold = FALSE /\ u.slot = 0
        BY <1>3, <2>1 DEF Tagger
      <3>2. Released(tag[r], b) = u
        BY <2>2 DEF Released
      <3> QED
        BY <2>2, <3>1, <3>2
    <2>3. CASE ~b
      <3> DEFINE u == [tag[r] EXCEPT !.upd = "idle"]
      <3>1. /\ u \in Tagger /\ u.upd = "idle" /\ u.hold = tag[r].hold /\ u.slot = tag[r].slot
            /\ u.epoch = tag[r].epoch
        BY <1>3 DEF Tagger
      <3>2. Released(tag[r], b) = u
        BY <2>3 DEF Released
      <3> QED
        BY <2>3, <3>1, <3>2
    <2> QED
      BY <2>2, <2>3
  <1>5. PICK b \in BOOLEAN : tag' = [tag EXCEPT ![r] = Released(tag[r], b)]
    BY <1>2 DEF RefreshRemove
  <1> DEFINE t == Released(tag[r], b)
  <1>6. tag' = [tag EXCEPT ![r] = t] /\ t \in Tagger /\ t.upd = "idle"
    BY <1>4, <1>5
  <1>7. \/ t.hold = FALSE /\ t.slot = 0
        \/ t.hold = tag[r].hold /\ t.slot = tag[r].slot /\ t.epoch = tag[r].epoch
    BY <1>4
  <1> HIDE DEF t
  <1>8. SignTypes'
    BY <1>1, <1>2, <1>6 DEF SignTypes
  <1>9. LoopTypes'
    BY <1>1, <1>2, <1>3, <1>4, <1>5, <1>6, <1>7 DEF RefreshRemove, Fails, Fault, LoopTypes
  <1>10. DownInv'
    BY <1>1, <1>3 DEF DownInv, Generations
  <1>11. RunInv'
    BY <1>1, <1>2, <1>3, <1>6, <1>7 DEF RunInv
  <1>12. HoldInv'
    <2>1. ASSUME NEW q \in Runs, q # r PROVE TaggerAt(q)'
      <3>1. tag'[q] = tag[q] /\ tag[q] \in Tagger
        BY <1>2, <2>1, <1>6
      <3> QED
        BY <1>1, <1>2, <1>7, <3>1 DEF HoldInv, TaggerAt, Tagger, Epochs
    <2>2. TaggerAt(r)'
      <3>1. TaggerAt(r) /\ SecretAt(r)
        BY DEF HoldInv, SecretInv
      <3>2. tag'[r] = t
        BY <1>2, <1>6
      <3>3. CASE t.hold = FALSE /\ t.slot = 0
        BY <1>6, <3>2, <3>3 DEF TaggerAt
      <3>4. CASE t.hold = tag[r].hold /\ t.slot = tag[r].slot /\ t.epoch = tag[r].epoch
        <4>1. tag[r].upd = "remove"
          BY DEF RefreshRemove
        <4> QED
          BY <1>1, <1>6, <3>1, <3>2, <3>4, <4>1 DEF TaggerAt
      <3> QED
        BY <1>7, <3>3, <3>4
    <2> QED
      BY <2>1, <2>2 DEF HoldInv
  <1>13. SecretInv'
    BY <1>1, <1>2, <1>3, <1>6, <1>7 DEF SecretInv, SecretAt, HoldInv, TaggerAt, DueInv, Tagger,
      Epochs, Generations
  <1> QED
    BY <1>1, <1>8, <1>9, <1>10, <1>11, <1>12, <1>13, ChainTypesUnchanged, StoreTypesUnchanged,
      FreshInvUnchanged, DueInvUnchanged, OrderInvUnchanged, QuietInvUnchanged, NextInvUnchanged,
      TaggedInvUnchanged, StaleInvUnchanged, ReqInvUnchanged, CacheInvUnchanged,
      StoredInvUnchanged

\* A run that ends leaves nothing, or a key that is held for good.
LEMMA RunEndsKeeps ==
  ASSUME IInv, NEW r \in Runs, RunEnds(r)
  PROVE  IInv'
  <1> USE DEF IInv, TypeParts
  <1>1. UNCHANGED <<gen, age, cur, next, retired, ready, signed, stale, tagged, stored, waits, out, live,
            renewing, reqs, known, record, cache>>
    BY DEF RunEnds, Fault, chains, signing, delivery, session, dispatcher
  <1>2. /\ run \in [Runs -> {"none", "accepted", "tagging"}]
        /\ tag \in [Runs -> Tagger]
        /\ faults \in 0..MaxFaults
        /\ signed \in Epochs
        /\ cur \in 0..gen
        /\ gen \in 0..MaxGenerations
        /\ age \in [Generations -> 0..Lapsed]
        /\ out \in [Generations -> Epochs]
        /\ live \in BOOLEAN
        /\ stored \in Epochs
    BY DEF SignTypes, LoopTypes, ChainTypes
  <1>3. tag[r] \in Tagger /\ cur \in Generations
    BY <1>2 DEF RunEnds, DownInv, Generations
  <1> DEFINE t == [tag[r] EXCEPT !.upd = "stuck"]
  <1>4. NoTagger \in Tagger /\ NoTagger.upd = "none" /\ NoTagger.hold = FALSE /\ NoTagger.slot = 0
    BY DEF NoTagger, Tagger, Epochs
  <1>5. /\ t \in Tagger /\ t.upd = "stuck" /\ t.hold = tag[r].hold /\ t.slot = tag[r].slot
        /\ t.epoch = tag[r].epoch
    BY <1>3 DEF Tagger
  <1>6. tag' = [tag EXCEPT ![r] = NoTagger] \/ tag' = [tag EXCEPT ![r] = t]
    BY <1>2 DEF RunEnds
  <1> HIDE DEF t
  <1>7. SignTypes'
    BY <1>1, <1>2, <1>4, <1>5, <1>6 DEF SignTypes, RunEnds
  <1>8. LoopTypes'
    BY <1>1, <1>2, <1>3, <1>4, <1>5, <1>6 DEF RunEnds, Fault, LoopTypes
  <1>9. DownInv'
    BY <1>1, <1>3 DEF DownInv, Generations
  <1>10. NextInv'
    BY <1>1, <1>2, <1>3, <1>4, <1>5, <1>6 DEF RunEnds, Fault, NextInv, NoOwners
  <1>11. RunInv'
    BY <1>1, <1>2, <1>4, <1>5, <1>6 DEF RunInv, RunEnds
  <1>12. HoldInv'
    BY <1>1, <1>2, <1>3, <1>4, <1>5, <1>6 DEF HoldInv, TaggerAt, Tagger, Epochs
  <1>13. SecretInv'
    BY ZenonT(60), <1>1, <1>2, <1>3, <1>4, <1>5, <1>6 DEF SecretInv, SecretAt, HoldInv, TaggerAt, DueInv,
      Tagger, Epochs, Generations
  <1> QED
    BY <1>1, <1>7, <1>8, <1>9, <1>10, <1>11, <1>12, <1>13, ChainTypesUnchanged, StoreTypesUnchanged,
      FreshInvUnchanged, DueInvUnchanged, OrderInvUnchanged, QuietInvUnchanged,
      TaggedInvUnchanged, StaleInvUnchanged, ReqInvUnchanged, CacheInvUnchanged,
      StoredInvUnchanged

\* What a heartbeat discloses is below every hold, of a chain that no leftover filter
\* tags with.
LEMMA HeartbeatKeeps ==
  ASSUME IInv, Heartbeat
  PROVE  IInv'
  <1> USE DEF IInv, TypeParts
  <1>1. UNCHANGED <<gen, age, cur, next, ready, signed, run, tag, stale, tagged, stored, live, faults,
            known, record, cache>>
    BY DEF Heartbeat, chains, signing, delivery, session, dispatcher
  <1>2. /\ renewing \in BOOLEAN
        /\ retired \in 0..gen
        /\ reqs \in [Slots -> Request]
        /\ out \in [Generations -> Epochs]
        /\ waits \in Slots \cup {0}
        /\ gen \in 0..MaxGenerations
        /\ age \in [Generations -> 0..Lapsed]
        /\ cur \in 0..gen
        /\ tag \in [Runs -> Tagger]
        /\ stale \subseteq Keys
    BY DEF LoopTypes, ChainTypes, StoreTypes, SignTypes
  <1>3. live /\ cur # 0 /\ cur \in Generations /\ next = 0
    BY <1>2 DEF Heartbeat, DownInv, NextInv, Generations
  <1>4. Handler \in Slots /\ Handler # 0 /\ waits' = Handler
    BY HandlerIsFree DEF Heartbeat
  <1>5. /\ Disclosures \in Seq(Keys) /\ Len(Disclosures) <= 2
        /\ \A i \in DOMAIN Disclosures : Disclosures[i][1] \in {cur, retired} \ {0}
    BY <1>3, DisclosuresShape
  <1> DEFINE q == [st |-> IF Disclosures = <<>> THEN "answer" ELSE "check", todo |-> Disclosures, got |-> {}]
  <1>6. /\ q \in Request /\ q.todo = Disclosures /\ q.got = {} /\ q.st \in {"answer", "check"}
        /\ q.st = "check" => Disclosures # <<>>
    BY <1>5 DEF Request
  <1> HIDE DEF q
  <1>7. reqs' = [reqs EXCEPT ![Handler] = q]
    BY DEF Heartbeat, q
  <1>8. /\ out' \in [Generations -> Epochs]
        /\ \A g \in Generations :
             \/ out'[g] = out[g]
             \/ g \in {cur, retired} /\ out'[g] = DisclosedKey(g) /\ out'[g] # 0
    <2>1. \A g \in Generations : DisclosedKey(g) \in Epochs /\ out[g] \in Epochs
      BY <1>2, DisclosedIsDue
    <2> QED
      BY <1>5, <2>1 DEF Heartbeat, Greatest, Epochs
  <1>9. retired' = retired \/ retired' = 0
    BY DEF Heartbeat, Offered
  <1>10. ChainTypes'
    BY <1>1, <1>2, <1>9 DEF ChainTypes
  <1>11. LoopTypes'
    BY <1>1, <1>2, <1>4, <1>8 DEF LoopTypes, Heartbeat, beginChainRenewal
  <1>12. StoreTypes'
    BY <1>1, <1>2, <1>4, <1>6, <1>7 DEF StoreTypes
  <1>13. FreshInv'
    BY <1>1, <1>2, <1>3, <1>8 DEF FreshInv, OrderInv, Generations
  <1>14. DueInv'
    BY <1>1, <1>2, <1>8, DisclosedIsDue DEF DueInv
  <1>15. OrderInv'
    BY <1>1, <1>2, <1>9 DEF OrderInv
  <1>16. QuietInv'
    BY <1>1, <1>3 DEF QuietInv
  <1>17. SecretInv'
    <2>1. out'[cur] = out[cur] \/ (out'[cur] = DisclosedKey(cur) /\ DisclosedKey(cur) # 0)
      BY <1>3, <1>8
    <2>2. ASSUME NEW r \in Runs PROVE SecretAt(r)'
      <3>1. tag[r] \in Tagger /\ age[cur] \in 0..Lapsed /\ SecretAt(r)
        BY <1>2, <1>3 DEF SecretInv
      <3>2. tag[r].hold => out'[cur] < tag[r].epoch
        BY <1>3, <2>1, <3>1, DisclosedIsDue DEF SecretAt, Capped, Holders
      <3> QED
        BY <1>1, <3>1, <3>2 DEF SecretAt
    <2> QED
      BY <2>2 DEF SecretInv
  <1>18. StaleInv'
    BY <1>1, <1>2, <1>3, <1>8 DEF StaleInv, OrderInv, Keys, Generations
  <1>19. ReqInv'
    <2>1. ASSUME NEW s \in Slots PROVE RequestAt(reqs[s])'
      <3>1. CASE s = Handler
        BY <1>2, <1>4, <1>5, <1>6, <1>7, <3>1 DEF RequestAt
      <3>2. CASE s # Handler
        BY <1>1, <1>2, <1>7, <3>2 DEF ReqInv, RequestAt
      <3> QED
        BY <3>1, <3>2
    <2> QED
      BY <2>1 DEF ReqInv
  <1> QED
    BY <1>1, <1>10, <1>11, <1>12, <1>13, <1>14, <1>15, <1>16, <1>17, <1>18, <1>19,
      SignTypesUnchanged, DownInvUnchanged, NextInvUnchanged, RunInvUnchanged, HoldInvUnchanged,
      TaggedInvUnchanged, CacheInvUnchanged, StoredInvUnchanged

\* A failed call drops its request or leaves it to its handler.
LEMMA HeartbeatFailsKeeps ==
  ASSUME IInv, HeartbeatFails
  PROVE  IInv'
  <1> USE DEF IInv, TypeParts
  <1>1. UNCHANGED <<gen, age, cur, next, retired, ready, signed, run, tag, stale, tagged, stored, out,
            live, renewing, known, record, cache>>
    BY DEF HeartbeatFails, Fault, chains, signing, delivery, session, dispatcher
  <1>2. /\ waits \in Slots \cup {0}
        /\ faults \in 0..MaxFaults
        /\ reqs \in [Slots -> Request]
    BY DEF LoopTypes, StoreTypes
  <1>3. /\ reqs' = [s \in Slots |-> reqs'[s]]
        /\ \A s \in Slots : reqs'[s] = reqs[s] \/ reqs'[s] = NoRequest
    BY <1>2 DEF HeartbeatFails, Unawaited
  <1>4. reqs' \in [Slots -> Request] /\ ReqInv'
    BY <1>1, <1>3, DroppedIsRight
  <1>5. LoopTypes'
    BY <1>1, <1>2, <1>3, <1>4 DEF HeartbeatFails, Fault, LoopTypes
  <1>6. StoreTypes'
    BY <1>1, <1>2, <1>4 DEF StoreTypes
  <1>7. QuietInv'
    BY <1>1, <1>2, <1>3, <1>4 DEF HeartbeatFails, Fault, QuietInv
  <1>8. ReqInv'
    BY <1>4
  <1> QED
    BY <1>1, <1>5, <1>6, <1>7, <1>8, ChainTypesUnchanged, SignTypesUnchanged, FreshInvUnchanged,
      DueInvUnchanged, OrderInvUnchanged, DownInvUnchanged, NextInvUnchanged, RunInvUnchanged,
      HoldInvUnchanged, SecretInvUnchanged, TaggedInvUnchanged, StaleInvUnchanged,
      CacheInvUnchanged, StoredInvUnchanged

\* Receipts are of recorded keys; a chain is prepared only when every signed key is
\* covered.
LEMMA HeartbeatReturnsKeeps ==
  ASSUME IInv, HeartbeatReturns
  PROVE  IInv'
  <1> USE DEF IInv, TypeParts
  <1>1. UNCHANGED <<age, cur, ready, signed, run, tag, stale, tagged, out, renewing, known, record,
            cache>>
    BY DEF HeartbeatReturns, tryChainRenewal, Ended, Fault, chains, signing, delivery, session,
      dispatcher
  <1>2. /\ stored \in Epochs
        /\ retired \in 0..gen
        /\ reqs \in [Slots -> Request]
        /\ gen \in 0..MaxGenerations
        /\ next \in 0..gen
        /\ live \in BOOLEAN
        /\ faults \in 0..MaxFaults
        /\ waits \in Slots \cup {0}
        /\ cur \in 0..gen
        /\ age \in [Generations -> 0..Lapsed]
        /\ signed \in Epochs
        /\ record \in [Generations -> Epochs]
        /\ run \in [Runs -> {"none", "accepted", "tagging"}]
        /\ stale \subseteq Keys
    BY DEF LoopTypes, ChainTypes, StoreTypes, SignTypes
  <1>3. live /\ cur \in Generations /\ next = 0
    BY <1>2 DEF HeartbeatReturns, QuietInv, DownInv, NextInv, Generations
  <1>4. /\ reqs' = [s \in Slots |-> reqs'[s]]
        /\ \A s \in Slots : reqs'[s] = reqs[s] \/ reqs'[s] = NoRequest
    BY <1>2 DEF HeartbeatReturns
  <1>5. reqs' \in [Slots -> Request] /\ ReqInv'
    BY <1>1, <1>4, DroppedIsRight
  <1>6. stored' \in Epochs /\ stored' <= record[cur]
    <2>1. /\ reqs[waits] \in Request /\ \A k \in reqs[waits].got : k[2] <= record[k[1]]
          /\ stored <= record[cur]
      BY <1>2, <1>3 DEF HeartbeatReturns, ReqInv, RequestAt, StoredInv, Generations
    <2>2. \A e \in Covered(waits) : e \in Epochs /\ e <= record[cur]
      BY <2>1 DEF Covered, Request, Keys
    <2>3. CASE Covered(waits) = {}
      BY <1>2, <2>1, <2>3 DEF HeartbeatReturns
    <2>4. CASE Covered(waits) # {}
      <3> DEFINE e == CHOOSE x \in Covered(waits) : TRUE
      <3>1. e \in Covered(waits) /\ stored' = acknowledge(e)
        BY <2>4 DEF HeartbeatReturns
      <3> HIDE DEF e
      <3> QED
        BY <1>2, <2>1, <2>2, <3>1 DEF acknowledge, Greatest
    <2> QED
      BY <2>3, <2>4
  <1>7. retired' = retired \/ retired' = 0
    BY DEF HeartbeatReturns, delivered
  <1>8. /\ gen' \in 0..MaxGenerations /\ gen <= gen' /\ waits' = 0
        /\ \/ next' = 0 /\ live' = live
           \/ live' = FALSE /\ next' = gen + 1 /\ gen' = gen + 1 /\ NoOwners /\ signed <= stored'
    <2> DEFINE settled == renewalSettled(stored', retired')
    <2>1. settled => NoOwners /\ signed <= stored'
      BY <1>2, <1>6 DEF renewalSettled, Epochs
    <2>2. tryChainRenewal(settled)
      BY DEF HeartbeatReturns
    <2> HIDE DEF settled
    <2>3. CASE UNCHANGED <<gen, next, live, faults>> /\ waits' = 0
      BY <1>2, <1>3, <2>3
    <2>4. CASE settled /\ gen < MaxGenerations /\ gen' = gen + 1 /\ next' = gen + 1 /\ Ended
      BY <1>2, <2>1, <2>4 DEF Ended
    <2>5. CASE gen < MaxGenerations /\ gen' \in {gen, gen + 1} /\ UNCHANGED <<next, live>> /\ waits' = 0
      BY <1>2, <1>3, <2>5
    <2> QED
      BY <2>2, <2>3, <2>4, <2>5 DEF tryChainRenewal
  <1>9. faults' \in 0..MaxFaults
    BY <1>2 DEF HeartbeatReturns, tryChainRenewal, Fault
  <1>10. ChainTypes'
    BY <1>1, <1>2, <1>7, <1>8 DEF ChainTypes
  <1>11. LoopTypes'
    <2>1. live' \in BOOLEAN /\ renewing' \in BOOLEAN
      BY <1>1, <1>2, <1>6, <1>8, <1>9, Zenon DEF LoopTypes, HeartbeatReturns, tryChainRenewal, Ended
    <2>2. /\ stored' \in Epochs /\ waits' \in Slots \cup {0} /\ out' \in [Generations -> Epochs]
          /\ faults' \in 0..MaxFaults
      BY <1>1, <1>2, <1>6, <1>8, <1>9 DEF LoopTypes
    <2> QED
      BY <2>1, <2>2 DEF LoopTypes
  <1>12. StoreTypes'
    BY <1>1, <1>2, <1>5 DEF StoreTypes
  <1>13. FreshInv'
    BY <1>1, <1>2, <1>8 DEF FreshInv, Generations
  <1>14. OrderInv'
    <2>1. next' # 0 => cur' # 0 /\ cur' < next'
      <3>1. cur \in Nat /\ cur <= gen /\ cur # 0 /\ gen \in Nat /\ cur' = cur
        BY <1>1, <1>2, <1>3 DEF Generations
      <3>2. next' = 0 \/ next' = gen + 1
        BY <1>8
      <3> QED
        BY <3>1, <3>2
    <2>2. retired' # 0 => retired' < cur' /\ stale' = {}
      BY <1>1, <1>7 DEF OrderInv
    <2>3. ASSUME NEW k \in stale' PROVE k[1] <= gen' /\ (cur' # 0 => k[1] < cur')
      <3>1. k[1] \in Generations /\ k[1] <= gen /\ (cur # 0 => k[1] < cur)
        BY <1>1, <1>2 DEF OrderInv, Keys
      <3> QED
        BY <1>1, <1>2, <1>8, <3>1 DEF Generations
    <2> QED
      BY <2>1, <2>2, <2>3 DEF OrderInv
  <1>15. DownInv'
    BY <1>1, <1>3 DEF DownInv, Generations
  <1>16. QuietInv'
    BY <1>8 DEF QuietInv
  <1>17. NextInv'
    BY <1>1, <1>8 DEF NextInv, NoOwners
  <1>18. ReqInv'
    BY <1>5
  <1>19. StoredInv'
    BY <1>1, <1>6 DEF StoredInv
  <1> QED
    BY <1>1, <1>10, <1>11, <1>12, <1>13, <1>14, <1>15, <1>16, <1>17, <1>18, <1>19,
      SignTypesUnchanged, DueInvUnchanged, RunInvUnchanged, HoldInvUnchanged, SecretInvUnchanged,
      TaggedInvUnchanged, StaleInvUnchanged, CacheInvUnchanged

\* A receipt without a write is for a key at or below the cached one, which is
\* recorded.
LEMMA StoreCheckKeeps ==
  ASSUME IInv, NEW s \in Slots, StoreCheck(s)
  PROVE  IInv'
  <1> USE DEF IInv, TypeParts
  <1>1. UNCHANGED <<gen, age, cur, next, retired, ready, signed, run, tag, stale, tagged, stored, waits,
            out, live, renewing, faults, known, record>>
    BY DEF StoreCheck, chains, signing, delivery, session, dispatcher
  <1>2. /\ cache \in [Generations -> Epochs]
        /\ reqs \in [Slots -> Request]
        /\ record \in [Generations -> Epochs]
        /\ age \in [Generations -> 0..Lapsed]
    BY DEF StoreTypes, ChainTypes
  <1> DEFINE k == Head(reqs[s].todo)
  <1>3. /\ reqs[s] \in Request /\ RequestAt(reqs[s]) /\ reqs[s].st # "answer"
        /\ k \in Keys /\ k[1] \in Generations /\ k[2] \in Epochs
    BY <1>2 DEF StoreCheck, ReqInv, RequestAt, Request, Keys
  <1>4. /\ cache' \in [Generations -> Epochs]
        /\ \A g \in Generations : cache'[g] = cache[g] \/ cache'[g] = record[g]
    BY <1>2, <1>3 DEF StoreCheck, cached
  <1>5. k[2] <= cached(k[1]) => k[2] <= record[k[1]]
    BY <1>2, <1>3 DEF cached, CacheInv, Epochs
  <1>6. \/ reqs' = [reqs EXCEPT ![s] = Skip(s, {})]
        \/ reqs' = [reqs EXCEPT ![s] = Skip(s, {k})] /\ k[2] <= record[k[1]]
        \/ reqs' = [reqs EXCEPT ![s] = [@ EXCEPT !.st = "save"]] /\ reqs[s].st = "check"
    <2>1. k = <<k[1], k[2]>>
      BY <1>3 DEF Keys
    <2> QED
      BY <1>5, <2>1 DEF StoreCheck
  <1> HIDE DEF k
  <1>7. ASSUME NEW got \in SUBSET Keys, \A x \in got : x[2] <= record[x[1]]
        PROVE  Skip(s, got) \in Request /\ RequestAt(Skip(s, got))
    <2>1. /\ Skip(s, got) \in Request /\ Skip(s, got).st # "cache"
          /\ Len(Skip(s, got).todo) <= 2
          /\ Skip(s, got).st \in {"check", "save", "cache"} => Skip(s, got).todo # <<>>
          /\ \A x \in Skip(s, got).got : x \in reqs[s].got \cup got
      BY <1>3, SkipIsRight
    <2> QED
      BY <1>3, <1>7, <2>1 DEF RequestAt
  <1>8. /\ [reqs[s] EXCEPT !.st = "save"] \in Request
        /\ reqs[s].st = "check" => RequestAt([reqs[s] EXCEPT !.st = "save"])
    BY <1>3 DEF Request, RequestAt
  <1>9. \E q \in Request : RequestAt(q) /\ reqs' = [reqs EXCEPT ![s] = q]
    BY <1>2, <1>3, <1>6, <1>7, <1>8
  <1>10. StoreTypes'
    BY <1>1, <1>2, <1>4, <1>9 DEF StoreTypes
  <1>11. ReqInv'
    BY <1>1, <1>2, <1>9 DEF ReqInv, RequestAt
  <1>12. CacheInv'
    BY <1>1, <1>2, <1>4 DEF CacheInv, Epochs
  <1> QED
    BY <1>1, <1>10, <1>11, <1>12, ChainTypesUnchanged, SignTypesUnchanged, LoopTypesUnchanged,
      FreshInvUnchanged, DueInvUnchanged, OrderInvUnchanged, DownInvUnchanged, QuietInvUnchanged,
      NextInvUnchanged, RunInvUnchanged, HoldInvUnchanged, SecretInvUnchanged, TaggedInvUnchanged,
      StaleInvUnchanged, StoredInvUnchanged

\* The record only grows.
LEMMA SaveKeeps ==
  ASSUME IInv, NEW s \in Slots, Save(s)
  PROVE  IInv'
  <1> USE DEF IInv, TypeParts
  <1>1. UNCHANGED <<gen, age, cur, next, retired, ready, signed, run, tag, stale, tagged, stored, waits,
            out, live, renewing, known, cache>>
    BY DEF Save, Fails, Fault, chains, signing, delivery, session, dispatcher
  <1>2. /\ record \in [Generations -> Epochs]
        /\ reqs \in [Slots -> Request]
        /\ faults \in 0..MaxFaults
        /\ cache \in [Generations -> Epochs]
        /\ cur \in 0..gen
        /\ stored \in Epochs
    BY DEF StoreTypes, LoopTypes, ChainTypes
  <1> DEFINE k == Head(reqs[s].todo)
  <1>3. /\ reqs[s] \in Request /\ RequestAt(reqs[s]) /\ reqs[s].st # "answer"
        /\ k \in Keys /\ k[1] \in Generations /\ k[2] \in Epochs
        /\ reqs[s].todo # <<>> /\ reqs[s].st = "save"
    BY <1>2 DEF Save, ReqInv, RequestAt, Request, Keys
  <1> HIDE DEF k
  <1>4. /\ record' \in [Generations -> Epochs] /\ \A g \in Generations : record[g] <= record'[g]
        /\ \/ reqs' = [reqs EXCEPT ![s] = Skip(s, {})]
           \/ reqs' = [reqs EXCEPT ![s] = [@ EXCEPT !.st = "cache"]] /\ k[2] <= record'[k[1]]
    <2>1. PICK saved \in BOOLEAN :
            /\ record' = (IF saved THEN [record EXCEPT ![k[1]] = Greatest(@, k[2])] ELSE record)
            /\ reqs' = [reqs EXCEPT ![s] = IF saved THEN [@ EXCEPT !.st = "cache"]
                                           ELSE Skip(s, Receipt(FALSE, k))]
      BY DEF Save, k
    <2>2. CASE saved
      <3>1. record' = [record EXCEPT ![k[1]] = Greatest(record[k[1]], k[2])]
        BY <2>1, <2>2
      <3>2. record[k[1]] \in Epochs /\ k[2] \in Epochs
        BY <1>2, <1>3
      <3>3. /\ Greatest(record[k[1]], k[2]) \in Epochs /\ record[k[1]] <= Greatest(record[k[1]], k[2])
            /\ k[2] <= Greatest(record[k[1]], k[2])
        BY <3>2 DEF Greatest, Epochs
      <3>4. \A g \in Generations : record[g] <= record[g]
        BY <1>2 DEF Epochs
      <3> QED
        BY <1>2, <1>3, <2>1, <2>2, <3>1, <3>3, <3>4
    <2>3. CASE ~saved
      BY <1>2, <2>1, <2>3 DEF Receipt, Epochs
    <2> QED
      BY <2>2, <2>3
  <1>5. \A x \in Keys : x[2] <= record[x[1]] => x[2] <= record'[x[1]]
    BY <1>2, <1>4 DEF Keys, Epochs
  <1>6. /\ Skip(s, {}) \in Request /\ RequestAt(Skip(s, {})) /\ Skip(s, {}).st # "cache"
    BY <1>2, <1>3, SkipIsRight DEF StoreTypes, RequestAt
  <1> DEFINE c == [reqs[s] EXCEPT !.st = "cache"]
  <1>7. c \in Request /\ c.st = "cache" /\ c.todo = reqs[s].todo /\ c.got = reqs[s].got
    BY <1>3 DEF Request
  <1>8. /\ reqs' \in [Slots -> Request]
        /\ \A x \in Slots \ {s} : reqs'[x] = reqs[x]
        /\ reqs'[s] = Skip(s, {}) \/ (reqs'[s] = c /\ k[2] <= record'[k[1]])
    BY <1>2, <1>4, <1>6, <1>7
  <1> HIDE DEF c
  <1>9. LoopTypes'
    BY <1>1, <1>2, <1>3, <1>4, <1>5, <1>6, <1>7, <1>8 DEF Save, Fails, Fault, LoopTypes
  <1>10. StoreTypes'
    BY <1>1, <1>2, <1>4, <1>8 DEF StoreTypes
  <1>11. ReqInv'
    <2>1. ASSUME NEW x \in Slots PROVE RequestAt(reqs[x])'
      <3>1. ASSUME NEW q \in Request, RequestAt(q), q.st # "cache" PROVE RequestAt(q)'
        BY <1>5, <3>1 DEF RequestAt, Request
      <3>2. ASSUME NEW q \in Request, RequestAt(q), q.st = "cache" PROVE RequestAt(q)'
        <4>1. Head(q.todo) \in Keys
          BY <3>2 DEF RequestAt, Request
        <4> QED
          BY <1>5, <3>2, <4>1 DEF RequestAt, Request
      <3>3. CASE x # s
        BY <1>2, <1>8, <3>1, <3>2, <3>3 DEF ReqInv
      <3>4. CASE x = s /\ reqs'[s] = Skip(s, {})
        BY <1>6, <3>1, <3>4
      <3>5. CASE x = s /\ reqs'[s] = c /\ k[2] <= record'[k[1]]
        BY <1>3, <1>5, <1>7, <3>5 DEF RequestAt, Request, k
      <3> QED
        BY <1>8, <3>3, <3>4, <3>5
    <2> QED
      BY <2>1 DEF ReqInv
  <1>12. CacheInv'
    BY <1>1, <1>2, <1>4 DEF CacheInv, Epochs
  <1>13. StoredInv'
    BY SMTT(30), <1>1, <1>2, <1>4 DEF StoredInv, ChainTypes, Generations, Epochs
  <1> QED
    BY <1>1, <1>9, <1>10, <1>11, <1>12, <1>13, ChainTypesUnchanged, SignTypesUnchanged,
      FreshInvUnchanged, DueInvUnchanged, OrderInvUnchanged, DownInvUnchanged, QuietInvUnchanged,
      NextInvUnchanged, RunInvUnchanged, HoldInvUnchanged, SecretInvUnchanged, TaggedInvUnchanged,
      StaleInvUnchanged

\* What is cached is recorded.
LEMMA StoreCacheKeeps ==
  ASSUME IInv, NEW s \in Slots, StoreCache(s)
  PROVE  IInv'
  <1> USE DEF IInv, TypeParts
  <1>1. UNCHANGED <<gen, age, cur, next, retired, ready, signed, run, tag, stale, tagged, stored, waits,
            out, live, renewing, faults, known, record>>
    BY DEF StoreCache, chains, signing, delivery, session, dispatcher
  <1>2. /\ cache \in [Generations -> Epochs]
        /\ reqs \in [Slots -> Request]
        /\ record \in [Generations -> Epochs]
        /\ age \in [Generations -> 0..Lapsed]
    BY DEF StoreTypes, ChainTypes
  <1> DEFINE k == Head(reqs[s].todo)
  <1>3. /\ reqs[s] \in Request /\ RequestAt(reqs[s]) /\ reqs[s].st # "answer"
        /\ k \in Keys /\ k[1] \in Generations /\ k[2] \in Epochs
        /\ k[2] <= record[k[1]]
    BY <1>2 DEF StoreCache, ReqInv, RequestAt, Request, Keys
  <1>4. /\ cache' \in [Generations -> Epochs]
        /\ \A g \in Generations : cache'[g] = cache[g] \/ (g = k[1] /\ cache'[g] = k[2])
    BY <1>2, <1>3 DEF StoreCache, Greatest
  <1>5. reqs' = [reqs EXCEPT ![s] = Skip(s, {k})]
    BY DEF StoreCache, Receipt
  <1> HIDE DEF k
  <1>6. Skip(s, {k}) \in Request /\ RequestAt(Skip(s, {k}))
    BY SMTT(30), <1>2, <1>3, SkipIsRight DEF StoreTypes, RequestAt
  <1>7. StoreTypes'
    BY <1>1, <1>2, <1>4, <1>5, <1>6 DEF StoreTypes
  <1>8. ReqInv'
    BY <1>1, <1>2, <1>5, <1>6 DEF ReqInv, RequestAt
  <1>9. CacheInv'
    BY <1>1, <1>2, <1>3, <1>4 DEF CacheInv, Epochs
  <1> QED
    BY <1>1, <1>7, <1>8, <1>9, ChainTypesUnchanged, SignTypesUnchanged, LoopTypesUnchanged,
      FreshInvUnchanged, DueInvUnchanged, OrderInvUnchanged, DownInvUnchanged, QuietInvUnchanged,
      NextInvUnchanged, RunInvUnchanged, HoldInvUnchanged, SecretInvUnchanged, TaggedInvUnchanged,
      StaleInvUnchanged, StoredInvUnchanged

\* The heartbeat loop ends with its session.
LEMMA SessionEndsKeeps ==
  ASSUME IInv, SessionEnds
  PROVE  IInv'
  <1> USE DEF IInv, TypeParts
  <1>1. UNCHANGED <<gen, age, cur, next, retired, ready, signed, run, tag, stale, tagged, stored, out,
            renewing, known, record, cache>>
    BY DEF SessionEnds, Ended, Fault, chains, signing, delivery, session, dispatcher
  <1>2. /\ live \in BOOLEAN
        /\ waits \in Slots \cup {0}
        /\ reqs \in [Slots -> Request]
        /\ faults \in 0..MaxFaults
    BY DEF LoopTypes, StoreTypes
  <1>3. /\ reqs' = [s \in Slots |-> reqs'[s]]
        /\ \A s \in Slots : reqs'[s] = reqs[s] \/ reqs'[s] = NoRequest
    BY <1>2 DEF SessionEnds, Unawaited
  <1>4. reqs' \in [Slots -> Request] /\ ReqInv'
    BY <1>1, <1>3, DroppedIsRight
  <1>5. LoopTypes'
    <2>1. live' \in BOOLEAN /\ renewing' \in BOOLEAN
      BY <1>1, <1>2, Zenon DEF LoopTypes, SessionEnds, Ended
    <2>2. /\ stored' \in Epochs /\ waits' \in Slots \cup {0} /\ out' \in [Generations -> Epochs]
          /\ faults' \in 0..MaxFaults
      BY <1>1, <1>2 DEF LoopTypes, SessionEnds, Ended, Fault
    <2> QED
      BY <2>1, <2>2 DEF LoopTypes
  <1>6. StoreTypes'
    BY <1>1, <1>2, <1>4 DEF StoreTypes
  <1>7. DownInv'
    BY <1>1, <1>2, <1>3, <1>4 DEF SessionEnds, Ended, Fault, DownInv
  <1>8. QuietInv'
    BY <1>1, <1>2, <1>3, <1>4 DEF SessionEnds, Ended, Fault, QuietInv
  <1>9. NextInv'
    BY <1>1, <1>2, <1>3, <1>4 DEF SessionEnds, Ended, Fault, NextInv, NoOwners
  <1>10. ReqInv'
    BY <1>4
  <1> QED
    BY <1>1, <1>5, <1>6, <1>7, <1>8, <1>9, <1>10, ChainTypesUnchanged, SignTypesUnchanged,
      FreshInvUnchanged, DueInvUnchanged, OrderInvUnchanged, RunInvUnchanged, HoldInvUnchanged,
      SecretInvUnchanged, TaggedInvUnchanged, StaleInvUnchanged, CacheInvUnchanged,
      StoredInvUnchanged

\* Nothing of a chain that takes over has been disclosed.
LEMMA ConnectKeeps ==
  ASSUME IInv, Connect
  PROVE  IInv'
  <1> USE DEF IInv, TypeParts
  <1>1. UNCHANGED <<gen, age, retired, run, tag, stale, waits, out, faults, reqs, record, cache>>
    BY DEF Connect, chains, signing, delivery, session, dispatcher
  <1>2. /\ live \in BOOLEAN
        /\ renewing \in BOOLEAN
        /\ known \subseteq Generations
        /\ cur \in 0..gen
        /\ next \in 0..gen
        /\ ready \in BOOLEAN
        /\ signed \in Epochs
        /\ stored \in Epochs
        /\ tagged \in Epochs
        /\ gen \in 0..MaxGenerations
        /\ record \in [Generations -> Epochs]
        /\ tag \in [Runs -> Tagger]
        /\ out \in [Generations -> Epochs]
        /\ age \in [Generations -> 0..Lapsed]
        /\ run \in [Runs -> {"none", "accepted", "tagging"}]
        /\ stale \subseteq Keys
        /\ retired \in 0..gen
        /\ waits \in Slots \cup {0}
    BY DEF LoopTypes, StoreTypes, ChainTypes, SignTypes
  <1>3. /\ cur \in Generations /\ ~live /\ waits = 0 /\ retired \in 0..gen
        /\ \A r \in Runs : run[r] = "none" /\ tag[r].upd \in {"none", "stuck"}
    BY <1>2 DEF Connect, QuietInv, NoOwners, RunInv, Generations
  <1>4. /\ next' = 0 /\ live' = TRUE /\ known' \subseteq Generations
        /\ \/ UNCHANGED <<cur, ready, signed, stored, tagged>>
           \/ /\ cur' = next /\ cur < next /\ next \in Generations
              /\ ready' = TRUE /\ signed' = 0 /\ stored' = 0 /\ tagged' = 0
    <2>1. next # 0 => cur < next /\ next \in Generations
      BY <1>2, <1>3 DEF OrderInv, Generations
    <2> QED
      BY <1>2, <1>3, <2>1 DEF Connect
  <1>5. ChainTypes'
    <2>1. ready' \in BOOLEAN
      BY <1>1, <1>2, <1>4, Zenon DEF ChainTypes, Connect
    <2>2. /\ gen' \in 0..MaxGenerations /\ age' \in [Generations -> 0..Lapsed]
          /\ cur' \in 0..gen' /\ next' \in 0..gen' /\ retired' \in 0..gen'
      BY <1>1, <1>2, <1>4 DEF ChainTypes, Generations
    <2> QED
      BY <2>1, <2>2 DEF ChainTypes
  <1>6. SignTypes'
    BY <1>1, <1>2, <1>4 DEF SignTypes, Epochs
  <1>7. LoopTypes'
    <2>1. live' \in BOOLEAN /\ renewing' \in BOOLEAN
      BY <1>1, <1>2, <1>4, Zenon DEF LoopTypes, Connect
    <2>2. /\ stored' \in Epochs /\ waits' \in Slots \cup {0} /\ out' \in [Generations -> Epochs]
          /\ faults' \in 0..MaxFaults
      BY <1>1, <1>2, <1>4 DEF LoopTypes, Epochs
    <2> QED
      BY <2>1, <2>2 DEF LoopTypes
  <1>8. StoreTypes'
    BY <1>1, <1>4 DEF StoreTypes
  <1>9. FreshInv'
    BY <1>1, <1>2, <1>3, <1>4 DEF FreshInv, Generations
  <1>10. OrderInv'
    BY <1>1, <1>2, <1>3, <1>4 DEF OrderInv, Generations, Keys
  <1>11. DownInv'
    BY <1>1, <1>3, <1>4 DEF DownInv, Generations
  <1>12. QuietInv'
    BY <1>4 DEF QuietInv
  <1>13. NextInv'
    BY <1>4 DEF NextInv
  <1>14. HoldInv'
    BY <1>1, <1>2, <1>3, <1>4 DEF HoldInv, TaggerAt
  <1>15. SecretInv'
    <2>1. CASE cur' = cur
      BY <1>1, <2>1 DEF SecretInv, SecretAt
    <2>2. CASE cur' = next /\ cur < next /\ next \in Generations
      <3>1. out[next] = 0
        BY <1>2, <1>3, <2>2 DEF FreshInv, Generations
      <3>2. \A r \in Runs : tag[r].hold => 0 < tag[r].epoch
        BY DEF HoldInv, TaggerAt
      <3> QED
        BY <1>1, <1>3, <2>2, <3>1, <3>2 DEF SecretInv, SecretAt
    <2> QED
      BY <1>4, <2>1, <2>2
  <1>16. TaggedInv'
    BY <1>1, <1>4 DEF TaggedInv
  <1>17. StoredInv'
    BY <1>1, <1>2, <1>4 DEF StoredInv, Epochs
  <1> QED
    BY <1>1, <1>5, <1>6, <1>7, <1>8, <1>9, <1>10, <1>11, <1>12, <1>13, <1>14, <1>15, <1>16, <1>17,
      DueInvUnchanged, RunInvUnchanged, StaleInvUnchanged, ReqInvUnchanged, CacheInvUnchanged

\* Filters left behind hold keys that were not disclosed, of the chain that was in use.
LEMMA CrashKeeps ==
  ASSUME IInv, Crash
  PROVE  IInv'
  <1> USE DEF IInv, TypeParts
  <1>1. UNCHANGED <<gen, age, out, faults, known, record, cache>>
    BY DEF Crash, Ended, chains, signing, delivery, session, dispatcher
  <1>2. /\ cur \in 0..gen
        /\ next \in 0..gen
        /\ retired \in 0..gen
        /\ ready \in BOOLEAN
        /\ stale \subseteq Keys
        /\ signed \in Epochs
        /\ stored \in Epochs
        /\ run \in [Runs -> {"none", "accepted", "tagging"}]
        /\ tag \in [Runs -> Tagger]
        /\ live \in BOOLEAN
        /\ waits \in Slots \cup {0}
        /\ renewing \in BOOLEAN
        /\ reqs \in [Slots -> Request]
        /\ tagged \in Epochs
        /\ gen \in 0..MaxGenerations
        /\ out \in [Generations -> Epochs]
        /\ age \in [Generations -> 0..Lapsed]
    BY DEF ChainTypes, SignTypes, LoopTypes, StoreTypes
  <1>3. /\ reqs' = [s \in Slots |-> reqs'[s]]
        /\ \A s \in Slots : reqs'[s] = reqs[s] \/ reqs'[s] = NoRequest
    BY <1>2 DEF Crash, Unawaited
  <1>4. reqs' \in [Slots -> Request] /\ ReqInv'
    BY <1>1, <1>3, DroppedIsRight
  <1>5. cur \in Generations
    BY <1>2 DEF Crash, Generations
  <1>6. /\ stale' \subseteq Keys
        /\ \A k \in stale' : k \in stale \/ \E r \in Runs : k = <<cur, tag[r].slot>> /\ tag[r].slot # 0
    BY <1>2, <1>5 DEF Crash, Keys, Tagger
  <1>7. NoTagger \in Tagger /\ NoTagger.upd = "none" /\ NoTagger.slot = 0 /\ NoTagger.hold = FALSE
    BY DEF NoTagger, Tagger, Epochs
  <1>8. ChainTypes'
    <2>1. ready' \in BOOLEAN
      BY <1>1, <1>2, Zenon DEF ChainTypes, Crash
    <2>2. /\ gen' \in 0..MaxGenerations /\ age' \in [Generations -> 0..Lapsed]
          /\ cur' \in 0..gen' /\ next' \in 0..gen' /\ retired' \in 0..gen'
      BY <1>1, <1>2 DEF ChainTypes, Crash
    <2> QED
      BY <2>1, <2>2 DEF ChainTypes
  <1>9. SignTypes'
    BY <1>1, <1>2, <1>6, <1>7 DEF SignTypes, Crash, Epochs
  <1>10. LoopTypes'
    <2>1. live' \in BOOLEAN /\ renewing' \in BOOLEAN
      BY <1>1, <1>2, Zenon DEF LoopTypes, Crash, Ended
    <2>2. /\ stored' \in Epochs /\ waits' \in Slots \cup {0} /\ out' \in [Generations -> Epochs]
          /\ faults' \in 0..MaxFaults
      BY <1>1, <1>2 DEF LoopTypes, Crash, Ended, Epochs
    <2> QED
      BY <2>1, <2>2 DEF LoopTypes
  <1>11. StoreTypes'
    BY <1>1, <1>2, <1>4 DEF StoreTypes
  <1>12. FreshInv'
    BY <1>1, <1>2 DEF FreshInv, Crash, Generations
  <1>13. OrderInv'
    BY <1>1, <1>2, <1>5, <1>6 DEF OrderInv, Crash, Generations, Keys
  <1>14. DownInv'
    BY DEF DownInv, Crash, Ended
  <1>15. QuietInv'
    BY DEF QuietInv, Crash, Ended
  <1>16. NextInv'
    BY DEF NextInv, Crash
  <1>17. RunInv'
    BY <1>7 DEF RunInv, Crash
  <1>18. HoldInv'
    BY <1>1, <1>2, <1>7 DEF HoldInv, TaggerAt, Crash
  <1>19. SecretInv'
    BY <1>1, <1>2, <1>7 DEF SecretInv, SecretAt, Crash
  <1>20. TaggedInv'
    BY DEF TaggedInv, Crash
  <1>21. StaleInv'
    <2>1. ASSUME NEW k \in stale' PROVE out[k[1]] < k[2]
      <3>1. CASE k \in stale
        BY <3>1 DEF StaleInv
      <3>2. ASSUME NEW r \in Runs, k = <<cur, tag[r].slot>>, tag[r].slot # 0 PROVE out[k[1]] < k[2]
        <4>1. tag[r] \in Tagger /\ TaggerAt(r) /\ SecretAt(r) /\ out[cur] \in Epochs
          BY <1>2, <1>5 DEF HoldInv, SecretInv
        <4> QED
          BY <3>2, <4>1 DEF TaggerAt, SecretAt, Tagger, Epochs
      <3> QED
        BY <1>6, <3>1, <3>2
    <2> QED
      BY <1>1, <2>1 DEF StaleInv
  <1>22. ReqInv'
    BY <1>4
  <1>23. StoredInv'
    BY DEF StoredInv, Crash
  <1> QED
    BY <1>1, <1>8, <1>9, <1>10, <1>11, <1>12, <1>13, <1>14, <1>15, <1>16, <1>17, <1>18, <1>19, <1>20,
      <1>21, <1>22, <1>23, DueInvUnchanged, CacheInvUnchanged

\* The new chain is later than every other, and an earlier one is offered only without
\* leftover filters.
LEMMA StartKeeps ==
  ASSUME IInv, Start
  PROVE  IInv'
  <1> USE DEF IInv, TypeParts
  <1>1. UNCHANGED <<age, next, signed, run, tag, tagged, stored, waits, out, live, renewing, reqs, known,
            record, cache>>
    BY DEF Start, Fails, Fault, chains, signing, delivery, session, dispatcher
  <1>2. /\ gen \in 0..MaxGenerations
        /\ cur \in 0..gen
        /\ ready \in BOOLEAN
        /\ stale \subseteq Keys
        /\ retired \in 0..gen
        /\ faults \in 0..MaxFaults
        /\ next \in 0..gen
        /\ tag \in [Runs -> Tagger]
        /\ run \in [Runs -> {"none", "accepted", "tagging"}]
        /\ out \in [Generations -> Epochs]
        /\ record \in [Generations -> Epochs]
        /\ stored \in Epochs
        /\ live \in BOOLEAN
    BY DEF ChainTypes, SignTypes, LoopTypes, StoreTypes
  <1>3. /\ cur = 0 /\ next = 0 /\ ~live /\ gen < MaxGenerations /\ stored = 0
        /\ \A r \in Runs : tag[r] = NoTagger
    BY <1>2 DEF Start, DownInv, OrderInv
  <1>4. /\ gen' = gen + 1 /\ cur' = gen + 1 /\ ready' \in BOOLEAN /\ stale' \subseteq stale
        /\ retired' = 0 \/ (retired' = gen /\ stale' = {})
        /\ gen + 1 \in Generations
    BY <1>2, <1>3 DEF Start, Recoverable, Generations
  <1>5. NoTagger.upd = "none" /\ NoTagger.slot = 0 /\ NoTagger.hold = FALSE
    BY DEF NoTagger
  <1>6. ChainTypes'
    BY <1>1, <1>2, <1>4 DEF ChainTypes, Generations
  <1>7. SignTypes'
    BY <1>1, <1>2, <1>4 DEF SignTypes
  <1>8. LoopTypes'
    BY <1>1, <1>2, <1>3, <1>4, <1>5 DEF Start, Fails, Fault, LoopTypes
  <1>9. FreshInv'
    BY <1>1, <1>2, <1>4 DEF FreshInv, Generations
  <1>10. OrderInv'
    BY <1>1, <1>2, <1>3, <1>4 DEF OrderInv, Generations, Keys
  <1>11. DownInv'
    BY <1>2, <1>4 DEF DownInv
  <1>12. SecretInv'
    BY <1>1, <1>3, <1>5 DEF SecretInv, SecretAt
  <1>13. StaleInv'
    BY <1>1, <1>4 DEF StaleInv
  <1>14. StoredInv'
    BY <1>1, <1>2, <1>3, <1>4 DEF StoredInv, Epochs
  <1> QED
    BY <1>1, <1>6, <1>7, <1>8, <1>9, <1>10, <1>11, <1>12, <1>13, <1>14, StoreTypesUnchanged,
      DueInvUnchanged, QuietInvUnchanged, NextInvUnchanged, RunInvUnchanged, HoldInvUnchanged,
      TaggedInvUnchanged, ReqInvUnchanged, CacheInvUnchanged

\* The record survives.
LEMMA DispatcherCrashKeeps ==
  ASSUME IInv, DispatcherCrash
  PROVE  IInv'
  <1> USE DEF IInv, TypeParts
  <1>1. UNCHANGED <<gen, age, cur, next, retired, ready, signed, run, tag, stale, tagged, stored, out,
            renewing, known, record>>
    BY DEF DispatcherCrash, Ended, Fault, chains, signing, delivery, session, dispatcher
  <1>2. /\ cache \in [Generations -> Epochs]
        /\ reqs \in [Slots -> Request]
        /\ live \in BOOLEAN
        /\ waits \in Slots \cup {0}
        /\ faults \in 0..MaxFaults
    BY DEF StoreTypes, LoopTypes
  <1>3. /\ reqs' = [s \in Slots |-> reqs'[s]]
        /\ \A s \in Slots : reqs'[s] = reqs[s] \/ reqs'[s] = NoRequest
    BY <1>2 DEF DispatcherCrash, Unawaited
  <1>4. reqs' \in [Slots -> Request] /\ ReqInv'
    BY <1>1, <1>3, DroppedIsRight
  <1>5. LoopTypes'
    <2>1. live' \in BOOLEAN /\ renewing' \in BOOLEAN
      BY <1>1, <1>2, Zenon DEF LoopTypes, DispatcherCrash, Ended
    <2>2. /\ stored' \in Epochs /\ waits' \in Slots \cup {0} /\ out' \in [Generations -> Epochs]
          /\ faults' \in 0..MaxFaults
      BY <1>1, <1>2 DEF LoopTypes, DispatcherCrash, Ended, Fault
    <2> QED
      BY <2>1, <2>2 DEF LoopTypes
  <1>6. StoreTypes'
    BY <1>1, <1>2, <1>3, <1>4 DEF DispatcherCrash, Ended, Fault, StoreTypes, Epochs
  <1>7. DownInv'
    BY <1>1, <1>2, <1>3, <1>4 DEF DispatcherCrash, Ended, Fault, DownInv
  <1>8. QuietInv'
    BY <1>1, <1>2, <1>3, <1>4 DEF DispatcherCrash, Ended, Fault, QuietInv
  <1>9. NextInv'
    BY <1>1, <1>2, <1>3, <1>4 DEF DispatcherCrash, Ended, Fault, NextInv, NoOwners
  <1>10. ReqInv'
    BY <1>4
  <1>11. CacheInv'
    BY <1>1, <1>2, <1>3, <1>4 DEF DispatcherCrash, Ended, Fault, CacheInv, StoreTypes, Epochs
  <1> QED
    BY <1>1, <1>5, <1>6, <1>7, <1>8, <1>9, <1>10, <1>11, ChainTypesUnchanged, SignTypesUnchanged,
      FreshInvUnchanged, DueInvUnchanged, OrderInvUnchanged, RunInvUnchanged, HoldInvUnchanged,
      SecretInvUnchanged, TaggedInvUnchanged, StaleInvUnchanged, StoredInvUnchanged

-----------------------------------------------------------------------------
(* The theorems. *)

\* Every step keeps the invariant.
LEMMA StepKeeps ==
  ASSUME IInv, [Next]_vars
  PROVE  IInv'
  <1>1. CASE UNCHANGED vars
    <2>1. UNCHANGED <<gen, age, cur, next, retired, ready, signed, run, tag, stale, tagged, stored,
                      waits, out, live, renewing, faults, reqs, known, record, cache>>
      BY <1>1 DEF vars, chains, signing, delivery, session, dispatcher
    <2> QED
      BY <2>1,
        ChainTypesUnchanged, SignTypesUnchanged, LoopTypesUnchanged, StoreTypesUnchanged,
          FreshInvUnchanged, DueInvUnchanged, OrderInvUnchanged, DownInvUnchanged,
          QuietInvUnchanged, NextInvUnchanged, RunInvUnchanged, HoldInvUnchanged,
          SecretInvUnchanged, TaggedInvUnchanged, StaleInvUnchanged, ReqInvUnchanged,
          CacheInvUnchanged, StoredInvUnchanged
        DEF IInv, TypeParts
  <1>2. ASSUME NEW r \in Runs, Accept(r) \/ Open(r) \/ TaggerStep(r) \/ RunEnds(r) PROVE IInv'
    BY <1>2, AcceptKeeps, OpenKeeps, RefreshReadKeeps, RefreshClaimKeeps, RefreshInstallKeeps,
       RefreshRemoveKeeps, RunEndsKeeps DEF TaggerStep
  <1>3. ASSUME NEW s \in Slots, StoreStep(s) PROVE IInv'
    BY <1>3, StoreCheckKeeps, SaveKeeps, StoreCacheKeeps DEF StoreStep
  <1> QED
    BY <1>1, <1>2, <1>3, TickKeeps, HeartbeatKeeps, HeartbeatFailsKeeps, HeartbeatReturnsKeeps,
       SessionEndsKeeps, ConnectKeeps, CrashKeeps, StartKeeps, DispatcherCrashKeeps DEF Next, LoopStep

\* The invariant the other theorems rest on: chains in order, holds below the keys in
\* kernel slots, disclosures below the holds, and records ahead of what counts on them.
THEOREM KeyInvariant == Spec => []IInv
  <1>1. Init => IInv
    <2> SUFFICES ASSUME Init PROVE IInv
      OBVIOUS
    <2>1. NoTagger \in Tagger /\ NoTagger.upd = "none" /\ NoTagger.slot = 0 /\ NoTagger.hold = FALSE
      BY DEF NoTagger, Tagger, Epochs
    <2>2. NoRequest \in Request /\ NoRequest.st = "free" /\ NoRequest.todo = <<>> /\ NoRequest.got = {}
      BY DEF NoRequest, Request
    <2>3. ChainTypes
      <3>1. ready \in BOOLEAN
        BY Zenon DEF Init
      <3>2. age \in [Generations -> 0..Lapsed]
        BY DEF Init, Lapsed, FinalDisclosure
      <3> QED
        BY <3>1, <3>2 DEF Init, ChainTypes
    <2>4. SignTypes
      BY <2>1 DEF Init, SignTypes, Epochs
    <2>5. LoopTypes /\ StoreTypes
      <3>1. live \in BOOLEAN /\ renewing \in BOOLEAN
        BY Zenon DEF Init
      <3>2. record \in [Generations -> Epochs] /\ 0 \in Epochs
        BY DEF Init, Epochs
      <3> QED
        BY <2>2, <3>1, <3>2 DEF Init, LoopTypes, StoreTypes
    <2>6. FreshInv /\ DueInv /\ OrderInv /\ DownInv /\ QuietInv /\ NextInv
      BY DEF Init, FreshInv, DueInv, OrderInv, DownInv, QuietInv, NextInv
    <2>7. RunInv /\ HoldInv /\ SecretInv /\ TaggedInv /\ StaleInv
      BY <2>1 DEF Init, RunInv, HoldInv, TaggerAt, SecretInv, SecretAt, TaggedInv, StaleInv
    <2>8. ReqInv /\ CacheInv /\ StoredInv
      BY <2>2 DEF Init, ReqInv, RequestAt, CacheInv, StoredInv
    <2> QED
      BY <2>3, <2>4, <2>5, <2>6, <2>7, <2>8 DEF IInv, TypeParts
  <1>2. IInv /\ [Next]_vars => IInv'
    BY StepKeeps
  <1> QED
    BY <1>1, <1>2, PTL DEF Spec

\* No key is disclosed while a kernel program can tag with it, however refreshes fail,
\* runs end and processes die, and nothing counts as stored that is not on the record
\* (DisclosedKey, applyKeyAt, RetireStaleFilters, KeyStore.Store, acknowledge).
THEOREM KeysStaySafe == Spec => []KeysAreSafe
  <1>1. IInv => KeysAreSafe
    <2> SUFFICES ASSUME IInv PROVE KeysAreSafe
      OBVIOUS
    <2> USE DEF IInv, TypeParts
    <2>1. \A s \in Slots : /\ reqs[s].st \in {"free", "check", "save", "cache", "answer"}
                           /\ Len(reqs[s].todo) <= 2
                           /\ \A i \in DOMAIN reqs[s].todo : reqs[s].todo[i] \in Keys
                           /\ reqs[s].got \subseteq Keys
      BY DEF StoreTypes, ReqInv, RequestAt, Request
    <2>2. TypeOK
      BY <2>1 DEF TypeOK, ChainTypes, SignTypes, LoopTypes, StoreTypes, Tagger
    <2>3. ASSUME NEW r \in Runs, tag[r].slot # 0 PROVE out[cur] < tag[r].slot
      <3>1. cur \in Generations
        BY <2>3 DEF DownInv, NoTagger, ChainTypes, Generations
      <3>2. tag[r] \in Tagger /\ TaggerAt(r) /\ SecretAt(r) /\ out[cur] \in Epochs
        BY <3>1 DEF HoldInv, SecretInv, SignTypes, LoopTypes
      <3> QED
        BY <2>3, <3>2 DEF TaggerAt, SecretAt, Tagger, Epochs
    <2>4. DisclosedIsUninstalled
      BY <2>3 DEF DisclosedIsUninstalled, StaleInv
    <2>5. CoverageIsDurable
      BY DEF CoverageIsDurable, StoredInv, CacheInv, ReqInv, RequestAt
    <2> QED
      BY <2>2, <2>4, <2>5 DEF KeysAreSafe
  <1> QED
    BY <1>1, KeyInvariant, PTL

\* A running executor changes chains only when every key that tagged a packet is on the
\* dispatcher's record, and gives up its previous start's chain only when the final key
\* is, or the delivery limit has passed (renewalSettled, reserve, retiredChain.delivered).
THEOREM ChainsStayKept == Spec => ChainsAreKept
  <1>1. IInv /\ [Next]_vars => [RenewalKeepsKeys /\ RetiredIsKept]_vars
    <2> SUFFICES ASSUME IInv, Next PROVE RenewalKeepsKeys /\ RetiredIsKept
      OBVIOUS
    <2> USE DEF IInv, TypeParts
    <2>1. CASE Connect
      <3>1. retired' = retired
        BY <2>1 DEF Connect
      <3>2. cur # 0 /\ cur' \notin {0, cur} => signed <= stored /\ stored <= record[cur] /\ tagged <= signed
        BY <2>1 DEF Connect, NextInv, StoredInv, TaggedInv
      <3>3. /\ signed \in Nat /\ stored \in Nat /\ tagged \in Nat
            /\ cur # 0 => record[cur] \in Nat
        BY DEF SignTypes, LoopTypes, StoreTypes, ChainTypes, Generations, Epochs
      <3> QED
        BY <3>1, <3>2, <3>3 DEF RenewalKeepsKeys, RetiredIsKept
    <2>2. CASE Start
      BY <2>2 DEF Start, RenewalKeepsKeys, RetiredIsKept, OrderInv, ChainTypes
    <2>3. CASE Crash
      BY <2>3 DEF Crash, RenewalKeepsKeys, RetiredIsKept
    <2>4. CASE Heartbeat
      <3>1. retired # 0 /\ retired' # retired => age[retired] = Lapsed
        BY SMTT(30), <2>4 DEF Heartbeat, Offered, ChainTypes, Generations, Lapsed, FinalDisclosure
      <3> QED
        BY <2>4, <3>1 DEF Heartbeat, RenewalKeepsKeys, RetiredIsKept
    <2>5. CASE HeartbeatReturns
      <3>1. waits \in Slots /\ cur' = cur
        BY <2>5 DEF HeartbeatReturns, LoopTypes
      <3>2. retired # 0 /\ retired' # retired => <<retired, ChainLength - 1>> \in reqs[waits].got
        BY <2>5 DEF HeartbeatReturns, delivered
      <3>3. retired # 0 /\ retired' # retired => ChainLength - 1 <= record[retired]
        BY <3>1, <3>2 DEF ReqInv, RequestAt
      <3>4. retired # 0 => record[retired] \in Epochs
        BY DEF ChainTypes, StoreTypes, Generations
      <3> QED
        BY <3>1, <3>3, <3>4 DEF RenewalKeepsKeys, RetiredIsKept, Epochs
    <2>6. ASSUME NEW r \in Runs, Accept(r) \/ Open(r) \/ TaggerStep(r) \/ RunEnds(r)
          PROVE  UNCHANGED <<cur, retired>>
      BY SMTT(30), <2>6 DEF Accept, Open, TaggerStep, RefreshRead, RefreshClaim, RefreshInstall, RefreshRemove,
         RunEnds, chains
    <2>7. ASSUME NEW s \in Slots, StoreStep(s) PROVE UNCHANGED <<cur, retired>>
      BY <2>7 DEF StoreStep, StoreCheck, Save, StoreCache, chains
    <2>8. CASE Tick \/ HeartbeatFails \/ SessionEnds \/ DispatcherCrash
      BY <2>8 DEF Tick, HeartbeatFails, SessionEnds, DispatcherCrash, chains, RenewalKeepsKeys, RetiredIsKept
    <2>9. UNCHANGED <<cur, retired>> => RenewalKeepsKeys /\ RetiredIsKept
      BY DEF RenewalKeepsKeys, RetiredIsKept
    <2> QED
      BY <2>1, <2>2, <2>3, <2>4, <2>5, <2>6, <2>7, <2>8, <2>9 DEF Next, LoopStep
  <1> QED
    BY <1>1, KeyInvariant, PTL DEF Spec, ChainsAreKept

=============================================================================
