------------------------------ MODULE KeyChain ------------------------------
(***************************************************************************)
(* The TESLA key chains of one executor: which key signs, when it may be   *)
(* disclosed while kernel taggers hold copies of it, how disclosures reach *)
(* the dispatcher's record, and how a chain is replaced, by renewal or by  *)
(* a restart (internal/executor: chain_renewal.go, disclosure_delivery.go, *)
(* node.go, tagger/tesla, tagger/ebpf; internal/dispatcher:                *)
(* rpc_handlers.go, tag/keystore.go, attribution.go).                      *)
(*                                                                         *)
(* Time is counted in epochs.  A key is its chain's generation and its     *)
(* epoch: a later key yields every earlier one of its chain, so the record *)
(* of a chain is the highest epoch stored.                                 *)
(***************************************************************************)
EXTENDS Integers, FiniteSets, Sequences

CONSTANTS
  ChainLength,     \* L: epochs 1 .. L-1 sign
  DisclosureDelay, \* d: k_i is disclosed from the start of epoch i+d
  Lead,            \* epochs before the end at which an idle executor renews
  Seeded,          \* tesla.seed is configured
  Runs,            \* runs at once, each with a kernel tagger
  Slots,           \* heartbeats the dispatcher may be handling at once
  MaxGenerations,  \* bound on the chains started
  MaxFaults        \* bound on failures: calls, writes, clocks, sessions, map updates

ASSUME ChainAssumption ==
  /\ ChainLength \in Nat /\ ChainLength > 1
  /\ DisclosureDelay \in Nat /\ DisclosureDelay >= 2
  /\ Lead \in 0..ChainLength /\ Seeded \in BOOLEAN
  /\ IsFiniteSet(Runs) /\ Slots \subseteq Nat \ {0}
  /\ MaxGenerations \in Nat /\ MaxFaults \in Nat

VARIABLES
  \* The executor's database and the clock.
  gen,       \* the last chain generation recorded
  age,       \* age[g]: epochs since chain g started
  \* The executor process.
  cur,       \* the chain in use, 0 while the process is down
  next,      \* the chain renewal has prepared, or 0
  retired,   \* the previous start's chain, still being disclosed, or 0
  ready,     \* the clock was ready when the chain in use started
  signed,    \* the highest epoch a signer obtained a key of
  stored,    \* storedThrough: the coverage the dispatcher has acknowledged
  run,       \* run[r]: none, accepted or tagging
  tag,       \* tag[r]: r's tagger: its refresh, its hold and its map slot
  \* Legacy tc filters that outlived their process: <<generation, epoch>>.
  stale,
  \* The session: its heartbeat loop (the request it waits for, or 0) and renewal.
  live, waits, renewing,
  \* The dispatcher: handlers, chains on record, keys on record and cached.
  reqs, known, record, cache,
  \* What has happened: out[g], the highest epoch of g disclosed, and the highest
  \* epoch of the chain in use that was installed.
  out, tagged,
  faults

chains     == <<gen, age, next, retired, ready>>
signing    == <<signed, run, tag, stale, tagged>>
delivery   == <<stored, waits, out>>
session    == <<live, renewing>>
dispatcher == <<reqs, known, record, cache>>
vars == <<chains, cur, signing, delivery, session, dispatcher, faults>>

Generations == 1..MaxGenerations
Epochs      == 0..(ChainLength - 1)
\* FinalDisclosure, in epochs, and the age at which retiredDeliveryLimit has passed.
FinalDisclosure == ChainLength - 1 + DisclosureDelay
Lapsed          == FinalDisclosure + 1

NoTagger == [upd |-> "none", rd |-> 0, hold |-> FALSE, epoch |-> 0, slot |-> 0]
NoRequest == [st |-> "free", todo |-> <<>>, got |-> {}]
Keys == Generations \X Epochs

TypeOK ==
  /\ gen \in 0..MaxGenerations /\ age \in [Generations -> 0..Lapsed]
  /\ cur \in 0..gen /\ next \in 0..gen /\ retired \in 0..gen /\ ready \in BOOLEAN
  /\ signed \in Epochs /\ stored \in Epochs
  /\ run \in [Runs -> {"none", "accepted", "tagging"}]
  /\ tag \in [Runs -> [upd : {"none", "idle", "read", "put", "remove", "stuck"}, rd : 0..ChainLength,
                       hold : BOOLEAN, epoch : Epochs, slot : Epochs]]
  /\ stale \subseteq Keys /\ live \in BOOLEAN
  /\ waits \in Slots \cup {0} /\ renewing \in BOOLEAN
  /\ DOMAIN reqs = Slots
  /\ \A s \in Slots : /\ reqs[s].st \in {"free", "check", "save", "cache", "answer"}
                      /\ Len(reqs[s].todo) <= 2 /\ \A i \in DOMAIN reqs[s].todo : reqs[s].todo[i] \in Keys
                      /\ reqs[s].got \subseteq Keys
  /\ known \subseteq Generations
  /\ record \in [Generations -> Epochs] /\ cache \in [Generations -> Epochs]
  /\ out \in [Generations -> Epochs] /\ tagged \in Epochs
  /\ faults \in 0..MaxFaults

Least(a, b)    == IF a < b THEN a ELSE b
Greatest(a, b) == IF a < b THEN b ELSE a

\* A failure uses up the bound on them.
Fault == faults < MaxFaults /\ faults' = faults + 1
Fails(failed) == IF failed THEN Fault ELSE UNCHANGED faults

-----------------------------------------------------------------------------
(* The key schedule.                                                        *)

\* CurrentKey: the epoch whose key signs now, 0 when there is none: not in epoch 0,
\* not from the end of the chain, not with a clock that was not ready, and not
\* below an epoch already signed.
CurrentKey ==
  LET e == age[cur]
  IN IF e < 1 \/ e >= ChainLength \/ ~ready \/ e < signed THEN 0 ELSE e

\* The taggers whose installed key caps disclosure.
Holders == {r \in Runs : tag[r].hold}

\* No holder may still sign with a key up to d.
Capped(d) == \A r \in Holders : d < tag[r].epoch

\* DisclosedKey of chain g: the highest epoch that is d epochs old, below every
\* key a tagger of the chain in use may still hold; 0 when there is none.
DisclosedKey(g) ==
  LET due == Least(age[g] - DisclosureDelay, ChainLength - 1)
      ok  == {d \in 1..due : g = cur => Capped(d)}
  IN IF ok = {} THEN 0 ELSE CHOOSE d \in ok : \A x \in ok : x <= d

\* A refresh that read its key with nothing held claims it before that key's
\* disclosure is due.  (The delay is minutes, the claim the next statement.)
PromptClaims ==
  \A r \in Runs : tag[r].upd = "read" /\ ~tag[r].hold =>
    age[cur] + 1 < tag[r].rd + DisclosureDelay

\* An epoch passes for every chain.
Tick ==
  /\ gen > 0 /\ \E g \in 1..gen : age[g] < Lapsed
  /\ PromptClaims
  /\ age' = [g \in Generations |-> IF g <= gen THEN Least(age[g] + 1, Lapsed) ELSE 0]
  /\ UNCHANGED <<gen, next, retired, ready, cur, signing, delivery, session, dispatcher, faults>>

-----------------------------------------------------------------------------
(* The kernel tagger of a run: applyKeyAt, one step per access.             *)

\* OnUpload admits a run only on a usable chain that is not being renewed.
Accept(r) ==
  /\ live /\ ~renewing /\ ready /\ age[cur] < ChainLength
  /\ run[r] = "none" /\ tag[r] = NoTagger /\ run' = [run EXCEPT ![r] = "accepted"]
  /\ UNCHANGED <<chains, cur, signed, tag, stale, tagged, delivery, session, dispatcher, faults>>

\* initializeRefresh: the tagger registers with the schedule before its first key.
Open(r) ==
  /\ run[r] = "accepted" /\ live
  /\ run' = [run EXCEPT ![r] = "tagging"]
  /\ tag' = [tag EXCEPT ![r] = [NoTagger EXCEPT !.upd = "idle", !.rd = ChainLength]]
  /\ UNCHANGED <<chains, cur, signed, stale, tagged, delivery, session, dispatcher, faults>>

\* refreshWait: an update is due at each boundary and after a failure.
Due(r) ==
  LET t == tag[r]
  IN t.rd # CurrentKey \/ (t.rd # 0 /\ ~t.hold) \/ (t.hold /\ t.slot # t.rd)

\* The clock is read and CurrentKey answers; a drifting clock has no key.
RefreshRead(r) ==
  /\ tag[r].upd = "idle" /\ Due(r)
  /\ \E e \in {0, CurrentKey} :
       /\ Fails(e # CurrentKey)
       /\ signed' = Greatest(signed, e)
       /\ tag' = [tag EXCEPT ![r].rd = e, ![r].upd = IF e = 0 THEN "remove" ELSE "read"]
  /\ UNCHANGED <<chains, cur, run, stale, tagged, delivery, session, dispatcher>>

\* (mutant) the hold moves to the new epoch before the slot is written.
ClaimedEarly(t) == [t EXCEPT !.hold = TRUE, !.epoch = t.rd]

\* The hold while a write is in flight: the older of the held and the new epoch.
Claimed(t) == IF ~t.hold \/ t.rd < t.epoch THEN [t EXCEPT !.hold = TRUE, !.epoch = t.rd] ELSE t

RefreshClaim(r) ==
  /\ tag[r].upd = "read" /\ tag' = [tag EXCEPT ![r] = [Claimed(@) EXCEPT !.upd = "put"]]
  /\ UNCHANGED <<chains, cur, signed, run, stale, tagged, delivery, session, dispatcher, faults>>

\* The slot is written and the hold moves on, or the slot has to be emptied.
RefreshInstall(r) ==
  /\ tag[r].upd = "put"
  /\ \/ /\ tag' = [tag EXCEPT ![r].upd = "idle", ![r].slot = tag[r].rd, ![r].epoch = tag[r].rd]
        /\ tagged' = Greatest(tagged, tag[r].rd) /\ UNCHANGED faults
     \/ Fault /\ tag' = [tag EXCEPT ![r].upd = "remove"] /\ UNCHANGED tagged
  /\ UNCHANGED <<chains, cur, signed, run, stale, delivery, session, dispatcher>>

\* The hold is released only when the slot is known to be empty.
Released(t, removed) ==
  IF removed THEN [NoTagger EXCEPT !.upd = "idle", !.rd = t.rd] ELSE [t EXCEPT !.upd = "idle"]

RefreshRemove(r) ==
  /\ tag[r].upd = "remove"
  /\ \E removed \in BOOLEAN : Fails(~removed) /\ tag' = [tag EXCEPT ![r] = Released(@, removed)]
  /\ UNCHANGED <<chains, cur, signed, run, stale, tagged, delivery, session, dispatcher>>

\* The run ends: closeWith joins the refresh, empties the slot and detaches the
\* program.  If both fail the key stays held for the life of the process.
RunEnds(r) ==
  /\ run[r] # "none" /\ tag[r].upd \in {"none", "idle"}
  /\ run' = [run EXCEPT ![r] = "none"]
  /\ \/ tag' = [tag EXCEPT ![r] = NoTagger] /\ UNCHANGED faults
     \/ Fault /\ tag[r].hold /\ tag' = [tag EXCEPT ![r].upd = "stuck"]
  /\ UNCHANGED <<chains, cur, signed, stale, tagged, delivery, session, dispatcher>>

-----------------------------------------------------------------------------
(* The heartbeat loop of a session.                                         *)

\* The scheduler owns no run.
NoOwners == \A r \in Runs : run[r] = "none"

\* beginChainRenewal: shortly before the end of the chain if the scheduler is idle,
\* at the end in any case.
beginChainRenewal == renewing \/ age[cur] >= ChainLength \/ (age[cur] >= ChainLength - Lead /\ NoOwners)

\* A retired chain is offered until retiredDeliveryLimit after its final disclosure.
Offered == IF retired # 0 /\ age[retired] < Lapsed THEN retired ELSE 0

\* What a heartbeat discloses: the key due of the chain in use, then the retired one's.
Disclosures ==
  LET one(g) == IF g = 0 \/ DisclosedKey(g) = 0 THEN <<>> ELSE <<<<g, DisclosedKey(g)>>>>
  IN one(cur) \o one(Offered)

\* The handler of a request: a free one, the first of them.
Handler == CHOOSE s \in Slots : reqs[s] = NoRequest /\ \A x \in Slots : reqs[x] = NoRequest => s <= x

Heartbeat ==
  /\ live /\ waits = 0 /\ \E s \in Slots : reqs[s] = NoRequest
  /\ renewing' = beginChainRenewal /\ retired' = Offered
  /\ reqs' = [reqs EXCEPT ![Handler] = [st |-> IF Disclosures = <<>> THEN "answer" ELSE "check",
                                         todo |-> Disclosures, got |-> {}]]
  /\ out' = [g \in Generations |->
       IF \E i \in DOMAIN Disclosures : Disclosures[i][1] = g THEN Greatest(out[g], DisclosedKey(g)) ELSE out[g]]
  /\ waits' = Handler
  /\ UNCHANGED <<gen, age, next, ready, cur, signing, stored, live, known, record, cache, faults>>

\* What is left of the requests when nobody waits for request s any more.
Unawaited(s) == [x \in Slots |-> IF x = s /\ reqs[x].st = "answer" THEN NoRequest ELSE reqs[x]]

\* The call fails or times out; the request is lost or handled later.
HeartbeatFails ==
  /\ waits # 0 /\ Fault /\ waits' = 0
  /\ \/ reqs' = Unawaited(waits)
     \/ reqs' = [reqs EXCEPT ![waits] = NoRequest]
  /\ UNCHANGED <<chains, cur, signing, stored, out, session, known, record, cache>>

\* The receipts of the answer for the chain in use.
Covered(s) == {k[2] : k \in {x \in reqs[s].got : x[1] = cur}}

\* (mutant) the last signing key does not count.
acknowledgeBelow(through) ==
  IF through < ChainLength - 1 /\ age[cur] >= through + DisclosureDelay THEN Greatest(stored, through) ELSE stored

\* acknowledge: coverage counts for a key that is due.
acknowledge(through) ==
  IF through < ChainLength /\ age[cur] >= through + DisclosureDelay THEN Greatest(stored, through) ELSE stored

\* delivered: the retired chain is dropped once its final key is on record.
delivered(s) == IF <<retired, ChainLength - 1>> \in reqs[s].got THEN 0 ELSE retired

\* The session ends and its heartbeat loop with it.
Ended == live' = FALSE /\ waits' = 0

\* (mutant) a drained executor renews whatever was disclosed.
renewalSettledDrained(covered, kept) == renewing /\ NoOwners /\ kept = 0

\* renewalSettled: admission closed and drained, every key a signer obtained covered,
\* no retired chain.
renewalSettled(covered, kept) == renewing /\ NoOwners /\ covered >= signed /\ kept = 0

\* tryChainRenewal: once settled and with every result and output of the session
\* delivered, the next chain is recorded and the session stopped to announce it.
\* Without a ready clock it waits; a chain whose clock loses readiness while it is
\* recorded stays unused.
tryChainRenewal(settled) ==
  \/ \* Not settled, or a result or output of this session is undelivered.
     /\ UNCHANGED <<gen, next, live, faults>> /\ waits' = 0
  \/ /\ settled /\ gen < MaxGenerations /\ gen' = gen + 1 /\ next' = gen + 1
     /\ Ended /\ UNCHANGED faults
  \/ /\ settled /\ gen < MaxGenerations /\ Fault /\ gen' \in {gen, gen + 1}
     /\ UNCHANGED <<next, live>> /\ waits' = 0

\* The answer arrives under a valid lease.
HeartbeatReturns ==
  /\ waits # 0 /\ reqs[waits].st = "answer"
  /\ stored' = (IF Covered(waits) = {} THEN stored ELSE acknowledge(CHOOSE e \in Covered(waits) : TRUE))
  /\ retired' = delivered(waits)
  /\ reqs' = [reqs EXCEPT ![waits] = NoRequest]
  /\ tryChainRenewal(renewalSettled(stored', retired'))
  /\ UNCHANGED <<age, ready, cur, signing, out, renewing, known, record, cache>>

-----------------------------------------------------------------------------
(* The dispatcher: OnHeartbeat, storeDisclosure and KeyStore.Store.         *)

\* The next disclosure of request s, or its answer, if anyone waits for one.
Skip(s, got) ==
  CASE Len(reqs[s].todo) > 1 -> [st |-> "check", todo |-> Tail(reqs[s].todo), got |-> reqs[s].got \cup got]
    [] s = waits /\ Len(reqs[s].todo) = 1 -> [st |-> "answer", todo |-> <<>>, got |-> reqs[s].got \cup got]
    [] OTHER -> NoRequest

\* maxEpoch: an epoch whose delay has not passed is rejected as early.
maxEpoch(g) == age[g] - DisclosureDelay

\* The cache entry of a chain, read from the record when there is none.
cached(g) == IF cache[g] = 0 THEN record[g] ELSE cache[g]

\* Store up to its write: a chain not on record or an early key is dropped, a key
\* at or below the latest changes nothing, another one verified is to be saved.
StoreCheck(s) ==
  /\ reqs[s].st = "check"
  /\ LET g == Head(reqs[s].todo)[1]
         e == Head(reqs[s].todo)[2]
     IN \/ /\ g \notin known \/ e > maxEpoch(g)
           /\ reqs' = [reqs EXCEPT ![s] = Skip(s, {})] /\ UNCHANGED cache
        \/ /\ g \in known /\ e <= maxEpoch(g) /\ cache' = [cache EXCEPT ![g] = cached(g)]
           /\ reqs' = [reqs EXCEPT ![s] = IF e <= cached(g) THEN Skip(s, {<<g, e>>}) ELSE [@ EXCEPT !.st = "save"]]
  /\ UNCHANGED <<chains, cur, signing, delivery, session, known, record, faults>>

\* A key that could not be recorded is not acknowledged.
Receipt(saved, k) == IF saved THEN {k} ELSE {}

\* The key is recorded outside the lock; a failed write stores nothing.
Save(s) ==
  /\ reqs[s].st = "save"
  /\ LET k == Head(reqs[s].todo)
     IN \E saved \in BOOLEAN :
          /\ Fails(~saved)
          /\ record' = (IF saved THEN [record EXCEPT ![k[1]] = Greatest(@, k[2])] ELSE record)
          /\ reqs' = [reqs EXCEPT ![s] = IF saved THEN [@ EXCEPT !.st = "cache"]
                                         ELSE Skip(s, Receipt(FALSE, k))]
  /\ UNCHANGED <<chains, cur, signing, delivery, session, known, cache>>

\* The key joins the cache unless a later one did meanwhile, and is acknowledged.
StoreCache(s) ==
  /\ reqs[s].st = "cache"
  /\ LET k == Head(reqs[s].todo)
     IN /\ cache' = [cache EXCEPT ![k[1]] = Greatest(@, k[2])]
        /\ reqs' = [reqs EXCEPT ![s] = Skip(s, Receipt(TRUE, k))]
  /\ UNCHANGED <<chains, cur, signing, delivery, session, known, record, faults>>

-----------------------------------------------------------------------------
(* Sessions, crashes and starts.                                            *)

\* The session is lost.  The runs it admitted are joined before the next one.
SessionEnds ==
  /\ live /\ Fault /\ Ended
  /\ reqs' = Unawaited(waits)
  /\ UNCHANGED <<chains, cur, signing, stored, out, renewing, known, record, cache>>

\* reserve and Hello: a prepared chain takes over, and the chain is put on record.
Connect ==
  /\ ~live /\ cur # 0 /\ NoOwners /\ live' = TRUE /\ renewing' = FALSE
  /\ \/ /\ next = 0 /\ known' = known \cup {cur} /\ UNCHANGED <<cur, next, ready, signed, stored, tagged>>
     \/ /\ next # 0 /\ known' = known \cup {next} /\ cur' = next /\ next' = 0
        /\ ready' = TRUE /\ signed' = 0 /\ stored' = 0 /\ tagged' = 0
  /\ UNCHANGED <<gen, age, retired, run, tag, stale, waits, out, reqs, record, cache, faults>>

\* The executor dies.  Legacy filters keep tagging with the key they hold.
Crash ==
  /\ cur # 0 /\ gen < MaxGenerations /\ cur' = 0 /\ next' = 0 /\ retired' = 0 /\ ready' = FALSE
  /\ \E legacy \in BOOLEAN :
       stale' = IF legacy THEN stale \cup {<<cur, tag[r].slot>> : r \in {x \in Runs : tag[x].slot # 0}}
                ELSE stale
  /\ signed' = 0 /\ stored' = 0 /\ run' = [r \in Runs |-> "none"] /\ tag' = [r \in Runs |-> NoTagger]
  /\ Ended /\ renewing' = FALSE
  /\ reqs' = Unawaited(waits) /\ tagged' = 0
  /\ UNCHANGED <<gen, age, out, known, record, cache, faults>>

\* deriveRetiredChain: the previous start's chain is disclosed when it can be derived
\* again, the clock places it, and no filter of the earlier process may still sign.
Recoverable(filters, clock) == Seeded /\ gen > 0 /\ clock /\ filters /\ age[gen] < Lapsed

\* NewNode: a new chain is recorded, and the filters of earlier processes are removed.
Start ==
  /\ cur = 0 /\ gen < MaxGenerations
  /\ \E filters, clock \in BOOLEAN :
       /\ Fails(~filters \/ ~clock) /\ stale' = (IF filters THEN {} ELSE stale)
       /\ retired' = IF Recoverable(filters, clock) THEN gen ELSE 0
       /\ gen' = gen + 1 /\ cur' = gen + 1 /\ ready' = clock
  /\ UNCHANGED <<age, next, signed, run, tag, tagged, delivery, session, dispatcher>>

\* The dispatcher dies: its cache and handlers are gone, the session with them.
DispatcherCrash ==
  /\ Fault /\ cache' = [g \in Generations |-> 0] /\ reqs' = [s \in Slots |-> NoRequest] /\ Ended
  /\ UNCHANGED <<chains, cur, signing, stored, out, renewing, known, record>>

-----------------------------------------------------------------------------
Init ==
  /\ gen = 0 /\ age = [g \in Generations |-> 0]
  /\ cur = 0 /\ next = 0 /\ retired = 0 /\ ready = FALSE /\ signed = 0 /\ stored = 0
  /\ run = [r \in Runs |-> "none"] /\ tag = [r \in Runs |-> NoTagger] /\ stale = {}
  /\ live = FALSE /\ waits = 0 /\ renewing = FALSE
  /\ reqs = [s \in Slots |-> NoRequest] /\ known = {}
  /\ record = [g \in Generations |-> 0] /\ cache = record /\ out = record /\ tagged = 0
  /\ faults = 0

TaggerStep(r) == RefreshRead(r) \/ RefreshClaim(r) \/ RefreshInstall(r) \/ RefreshRemove(r)
StoreStep(s) == StoreCheck(s) \/ Save(s) \/ StoreCache(s)
LoopStep == Heartbeat \/ HeartbeatReturns

Next ==
  \/ Tick \/ LoopStep \/ HeartbeatFails
  \/ \E r \in Runs : Accept(r) \/ Open(r) \/ TaggerStep(r) \/ RunEnds(r)
  \/ \E s \in Slots : StoreStep(s)
  \/ SessionEnds \/ Connect \/ Crash \/ Start \/ DispatcherCrash

Spec == Init /\ [][Next]_vars

\* An answer to a heartbeat finds renewal settled and the next chain is prepared.
Renews == HeartbeatReturns /\ next' # next

\* Time passes; taggers, handlers and the heartbeat loop proceed, runs end, an executor
\* that is up reconnects, and results are delivered before some later heartbeat.
Fairness ==
  /\ WF_vars(Tick) /\ WF_vars(LoopStep) /\ WF_vars(Connect) /\ SF_vars(Renews)
  /\ \A r \in Runs : WF_vars(TaggerStep(r)) /\ SF_vars(RunEnds(r))
  /\ WF_vars(\E s \in Slots : StoreStep(s))

FairSpec == Spec /\ Fairness

-----------------------------------------------------------------------------
(* Properties.                                                              *)

\* A tagger whose last key could be neither removed nor detached.
Stuck == \E r \in Runs : tag[r].upd = "stuck"

\* A key is never disclosed while a kernel program can still tag with it: the slots of
\* the chain in use, and the filters that outlived their process, hold only keys above
\* everything disclosed (DisclosedKey and RegisterInstalled against applyKeyAt, and
\* deriveRetiredChain against RetireStaleFilters).
DisclosedIsUninstalled ==
  /\ \A r \in Runs : tag[r].slot # 0 => out[cur] < tag[r].slot
  /\ \A k \in stale : out[k[1]] < k[2]

\* Coverage the executor counts on, receipts under way and the dispatcher's cache never
\* run ahead of what the dispatcher has on disk, over concurrent handlers, failed writes
\* and crashes on both sides (KeyStore.Store, storeDisclosure, acknowledge).
CoverageIsDurable ==
  /\ cur # 0 => stored <= record[cur]
  /\ \A g \in Generations : cache[g] <= record[g]
  /\ \A s \in Slots : \A k \in reqs[s].got : k[2] <= record[k[1]]

\* A renewed chain leaves nothing behind: when a running executor changes chains, every
\* key a kernel program tagged packets with is on the dispatcher's record
\* (renewalSettled, tryChainRenewal and reserve).
RenewalKeepsKeys == cur # 0 /\ cur' \notin {0, cur} => record[cur] >= tagged

\* A running executor stops offering its previous start's chain only when the final key
\* is on record or the delivery limit has passed (retiredChain.delivered).
RetiredIsKept ==
  retired # 0 /\ retired' # retired /\ cur' # 0 =>
    record[retired] = ChainLength - 1 \/ age[retired] = Lapsed

\* A chain that has run out is replaced, unless a key is stuck in the kernel or the
\* bound on chains is reached (beginChainRenewal, renewalSettled, tryChainRenewal).
RenewalCompletes ==
  (cur # 0 /\ age[cur] >= ChainLength) ~>
    (cur = 0 \/ age[cur] < ChainLength \/ Stuck \/ gen = MaxGenerations)

\* Packets tagged by a running executor become verifiable: their key reaches the
\* dispatcher's record unless the executor dies or a key is stuck in the kernel.
TaggedIsVerifiable ==
  (cur # 0 /\ record[cur] < tagged) ~> (cur = 0 \/ record[cur] >= tagged \/ Stuck)

-----------------------------------------------------------------------------
(* What the run checks, one property per question. *)

\* Keys are secret while they tag, and on disk when somebody counts on it.
KeysAreSafe == TypeOK /\ DisclosedIsUninstalled /\ CoverageIsDurable

\* No chain is left before its keys are delivered, neither the one renewed nor the one
\* a previous start left behind.
ChainsAreKept == [][RenewalKeepsKeys /\ RetiredIsKept]_vars

\* Chains that ran out are replaced, and what was tagged becomes verifiable.
KeysArrive == RenewalCompletes /\ TaggedIsVerifiable

=============================================================================
