------------------------ MODULE ControlSessionProofs ------------------------
(***************************************************************************)
(* The sessions of an executor ID follow one another, and the authority of *)
(* each ends, for any number of sessions, renewals and requests, and any   *)
(* lease and timeout.  SessionsEnd is liveness and stays with TLC.         *)
(***************************************************************************)
EXTENDS ControlSession, FiniteSetTheorems, TLAPS

-----------------------------------------------------------------------------
(* Types.  That refs is a natural number is a consequence of counting.  *)

OwnerType ==
  /\ st \in [Sessions -> {"none", "active", "registered", "retired"}]
  /\ refs \in [Sessions -> Int] /\ drained \in [Sessions -> BOOLEAN]
LeaseType ==
  /\ deadline \in [Sessions -> 0..LeaseDuration] /\ sequence \in [Sessions -> 0..MaxWork]
  /\ lapsed \in [Sessions -> 0..(LeaseDuration + RequestTimeout - 1)]
TransportType ==
  /\ client \in Sessions \cup {0} /\ lane \in BOOLEAN /\ current \in Sessions \cup {0}
  /\ preds \subseteq Sessions /\ offers \subseteq Sessions
  /\ confirmed \in [Sessions -> BOOLEAN]
InvocationType ==
  /\ handler \in [Sessions -> Handler] /\ waits \in [Sessions -> SUBSET Sessions]
  /\ setup \in [Sessions -> BOOLEAN] /\ cancelled \in [Sessions -> BOOLEAN]
CallType ==
  /\ bind \in [Sessions -> Bind] /\ renewal \in [Sessions \X Renewals -> Renewal]
  /\ probe \in [Sessions \X Renewals -> 0..RequestTimeout]
  /\ held \in [Sessions -> Nat] /\ made \in 0..(MaxWork + MaxForks)
DispatcherType ==
  entry \in Sessions \cup {0} /\ closing \in BOOLEAN /\ closed \in BOOLEAN
EnrolmentType ==
  bound \in Certs \cup {0} /\ cert \in [Sessions -> Certs \cup {0}] /\ changes \in Nat
ExecutorType ==
  /\ phase \in [Sessions -> {"none", "offered", "armed", "negotiated", "closed"}]
  /\ until \in [Sessions -> 0..LeaseDuration]
  /\ sent \in [Sessions -> 0..MaxWork] /\ (\A s \in Sessions : sent[s] <= made)
  /\ awaited \in [Sessions -> BOOLEAN] /\ offer \in [Sessions -> 0..LeaseDuration]
WeakTypeOK ==
  /\ OwnerType /\ LeaseType /\ TransportType /\ InvocationType
  /\ CallType /\ DispatcherType /\ EnrolmentType /\ ExecutorType

-----------------------------------------------------------------------------
(* Where the owner, the client, the entry and the handler of a session stand. *)

OwnerPlace(s) ==
  /\ handler[s] \in {"none", "admitted"} => st[s] = "none" /\ ~ cancelled[s]
  /\ st[s] = "none" => handler[s] \in {"none", "admitted", "ended"}
  /\ Active(s) => client = s
  /\ client = s => handler[s] \in {"waits", "connecting", "confirming", "serving", "closing"}
  /\ st[s] = "registered" => handler[s] = "serving"
  /\ cancelled[s] => client # s
EntryPlace(s) ==
  /\ st[s] = "registered" \/ (handler[s] = "confirming" /\ st[s] = "active") => entry = s
  /\ entry = s => st[s] # "none"
SetupPlace(s) ==
  /\ handler[s] \in {"waits", "connecting", "confirming"} => setup[s]
  /\ setup[s] => handler[s] \in {"waits", "connecting", "confirming", "closing"}
PlaceInv ==
  /\ \A s \in Sessions : OwnerPlace(s) /\ EntryPlace(s) /\ SetupPlace(s)
  /\ current = client

(* What the executor has done when the dispatcher has got as far. *)
PhaseInv ==
  \A s \in Sessions :
    /\ phase[s] = "none" => handler[s] = "none" /\ \A t \in Sessions : t > s => phase[t] = "none"
    /\ bind[s] # "none" \/ confirmed[s] \/ st[s] = "registered" => phase[s] \notin {"none", "offered"}

(* A renewal the executor has not sent is nowhere. *)
FreshInv ==
  \A s \in Sessions : phase[s] # "closed" =>
    \A q \in Renewals : q > sent[s] => renewal[<<s, q>>] = "none"

(* Every reference of an owner has its holder. *)
CountAt(s) ==
  /\ refs[s] = Holders(s)
  /\ bind[s] = "confirmed" => st[s] # "none"
  /\ Ordinary(s) => st[s] \in {"registered", "retired"}
  /\ drained[s] <=> st[s] = "retired" /\ Holders(s) = 0
CountInv == \A s \in Sessions : CountAt(s)

(* An owner that has not drained is known to whoever registers next. *)
PredsInv ==
  \A s \in Sessions : st[s] = "retired" /\ ~ drained[s] => s \in preds \/ client = s
AloneInv ==
  \A s, t \in Sessions :
    s # t /\ Active(s) /\ handler[s] \in {"connecting", "confirming", "serving"}
      => st[t] = "none" \/ drained[t]

(* Who is registered is alone with its ordinary work. *)
RegisteredIsAlone ==
  \A s, t \in Sessions : s # t /\ st[s] = "registered" => ~ Ordinary(t)

(* A current client has a lane. *)
LaneKept == client # 0 => lane

(* The executor's deadlines are within the dispatcher's. *)
NestedInv ==
  \A s \in Sessions :
    /\ awaited[s] => sent[s] \in Renewals
    /\ st[s] = "registered" =>
      /\ phase[s] \in {"armed", "negotiated"} => until[s] <= deadline[s]
      /\ awaited[s] /\ renewal[<<s, sent[s]>>] = "acked" => offer[s] <= deadline[s]

(* What a lapsed session can still gain. *)
LapseInv ==
  \A s \in Sessions :
    /\ st[s] # "registered" \/ (Enrolled(cert[s]) /\ phase[s] # "closed") => lapsed[s] = 0
    /\ st[s] = "registered" =>
         /\ deadline[s] > 0 => deadline[s] + lapsed[s] <= LeaseDuration + RequestTimeout - 1
         /\ \A q \in Renewals :
              probe[<<s, q>>] > 0
              /\ (renewal[<<s, q>>] = "probed" \/ (renewal[<<s, q>>] = "probing" /\ phase[s] # "closed"))
                => probe[<<s, q>>] + lapsed[s] <= RequestTimeout
(* A step that grants nothing: it may only end what is registered.  *)
GrantsNothing ==
  \A s \in Sessions :
    \/ /\ st'[s] = "registered" /\ st[s] = "registered"
       /\ deadline'[s] = deadline[s] /\ lapsed'[s] = lapsed[s]
    \/ /\ st'[s] # "registered"
       /\ lapsed'[s] = 0 \/ (st[s] # "registered" /\ lapsed'[s] = lapsed[s])

\* A count below its bound may grow.
LEMMA CountsUp == \A n \in Nat : \A k \in 0..n : k # n => k + 1 \in 0..n
  OBVIOUS

\* The dispatcher's helpers keep the types.
LEMMA RetiresTypes ==
  ASSUME OwnerType, LeaseType, NEW s, Retires(s)
  PROVE  OwnerType' /\ LeaseType'
  <1> USE SessionAssumption DEF OwnerType, LeaseType, Retires, Retired, Drained, NoLease
  <1>1. st' \in [Sessions -> {"none", "active", "registered", "retired"}]
    OBVIOUS
  <1>2. refs' \in [Sessions -> Int]
    OBVIOUS
  <1>3. drained' \in [Sessions -> BOOLEAN]
    OBVIOUS
  <1>4. deadline' \in [Sessions -> 0..LeaseDuration] /\ sequence' \in [Sessions -> 0..MaxWork]
    OBVIOUS
  <1>5. lapsed' \in [Sessions -> 0..(LeaseDuration + RequestTimeout - 1)]
    OBVIOUS
  <1> QED
    BY <1>1, <1>2, <1>3, <1>4, <1>5

\* Admitting a mutation keeps the owner typed.
LEMMA ReservesTypes ==
  ASSUME OwnerType, NEW s \in Sessions, Reserves(s)
  PROVE  OwnerType'
  <1>1. refs' \in [Sessions -> Int]
    BY DEF OwnerType, Reserves
  <1> QED
    BY <1>1 DEF OwnerType, Reserves

\* So does finishing one.
LEMMA FinishesTypes ==
  ASSUME OwnerType, NEW s \in Sessions, Finishes(s)
  PROVE  OwnerType'
  <1>1. refs' \in [Sessions -> Int]
    BY DEF OwnerType, Finishes
  <1>2. drained' \in [Sessions -> BOOLEAN]
    BY DEF OwnerType, Finishes
  <1> QED
    BY <1>1, <1>2 DEF OwnerType, Finishes

\* And removing the client, which retires its owner.
LEMMA RemoveClientTypes ==
  ASSUME OwnerType, LeaseType, TransportType, NEW s \in Sessions, RemoveClient(s),
         UNCHANGED <<offers, confirmed>>
  PROVE  OwnerType' /\ LeaseType' /\ TransportType'
  <1>1. CASE client # s
    BY <1>1 DEF RemoveClient, owner, lease, OwnerType, LeaseType, TransportType
  <1>2. CASE client = s
    <2>1. Retires(s)
      BY <1>2 DEF RemoveClient, retireLocked
    <2>2. TransportType'
      BY <1>2 DEF RemoveClient, retireLocked, TransportType
    <2> QED
      BY <2>1, <2>2, RetiresTypes
  <1> QED
    BY <1>1, <1>2

\* Every step keeps the types: one case per action.
LEMMA WeakTypeStep ==
  ASSUME WeakTypeOK, [Next]_vars
  PROVE  WeakTypeOK'
  <1> USE SessionAssumption DEF owner, lease, transport, invocation, calls, dispatcher, enrolment,
          executor, WeakTypeOK, OwnerType, LeaseType, TransportType,
          InvocationType, CallType, DispatcherType, EnrolmentType, ExecutorType
  <1>1. ASSUME NEW s \in Sessions, Hello(s) PROVE WeakTypeOK'
    <2>1. TransportType' /\ InvocationType'
      BY <1>1 DEF Hello, At, Handler
    <2>2. EnrolmentType'
      BY <1>1 DEF Hello, admitNode
    <2>3. ExecutorType'
      BY <1>1 DEF Hello
    <2> QED
      BY <1>1, <2>1, <2>2, <2>3 DEF Hello
  <1>2. ASSUME NEW s \in Sessions, HelloFails(s) PROVE WeakTypeOK'
    <2>1. TransportType' /\ InvocationType'
      BY <1>2 DEF HelloFails, At, Unbinding, Handler
    <2> QED
      BY <1>2, <2>1 DEF HelloFails, Unbinding
  <1>3. ASSUME NEW s \in Sessions, Publish(s) PROVE WeakTypeOK'
    <2>1. st' \in [Sessions -> {"none", "active", "registered", "retired"}] /\ refs' \in [Sessions -> Int]
      BY <1>3 DEF Publish, Retired
    <2>2. drained' \in [Sessions -> BOOLEAN]
      BY <1>3 DEF Publish, Drained
    <2>3. deadline' \in [Sessions -> 0..LeaseDuration] /\ sequence' \in [Sessions -> 0..MaxWork]
      BY <1>3 DEF Publish, NoLease
    <2>4. lapsed' \in [Sessions -> 0..(LeaseDuration + RequestTimeout - 1)]
      BY <1>3 DEF Publish, NoLease
    <2>5. TransportType' /\ InvocationType'
      BY <1>3 DEF Publish, At, Handler
    <2> QED
      BY <1>3, <2>1, <2>2, <2>3, <2>4, <2>5 DEF Publish
  <1>4. ASSUME NEW s \in Sessions, waitPredecessors(s) PROVE WeakTypeOK'
    <2>1. \E h \in {"waits", "connecting", "closing"} : handler' = [handler EXCEPT ![s] = h]
      BY <1>4 DEF waitPredecessors, At
    <2>2. handler' \in [Sessions -> Handler]
      BY <1>4, <2>1 DEF Handler
    <2>3. waits' \in [Sessions -> SUBSET Sessions] /\ preds' \subseteq Sessions
      BY SMTT(30), <1>4 DEF waitPredecessors
    <2> QED
      BY <1>4, <2>1, <2>2, <2>3 DEF waitPredecessors
  <1>5. ASSUME NEW s \in Sessions, Interrupted(s) PROVE WeakTypeOK'
    <2>1. InvocationType'
      BY <1>5 DEF Interrupted, At, Handler
    <2> QED
      BY <1>5, <2>1 DEF Interrupted
  <1>6. ASSUME NEW s \in Sessions, OnExecutorConnected(s) PROVE WeakTypeOK'
    <2>1. \E h \in {"confirming", "closing"} : handler' = [handler EXCEPT ![s] = h]
      BY <1>6 DEF OnExecutorConnected, At
    <2>2. InvocationType'
      BY <1>6, <2>1 DEF OnExecutorConnected, Unbinding, Handler
    <2>3. DispatcherType'
      BY <1>6 DEF OnExecutorConnected
    <2> QED
      BY <1>6, <2>1, <2>2, <2>3 DEF OnExecutorConnected, Unbinding
  <1>7. ASSUME NEW s \in Sessions, MarkRegistered(s) PROVE WeakTypeOK'
    <2>1. st' \in [Sessions -> {"none", "active", "registered", "retired"}] /\ refs' \in [Sessions -> Int]
      BY <1>7 DEF MarkRegistered
    <2>2. deadline' \in [Sessions -> 0..LeaseDuration]
      BY <1>7 DEF MarkRegistered
    <2>3. handler' \in [Sessions -> Handler]
      BY SMTT(30), <1>7 DEF MarkRegistered, At, Handler
    <2>4. setup' \in [Sessions -> BOOLEAN]
      BY <1>7 DEF MarkRegistered
    <2> QED
      BY <1>7, <2>1, <2>2, <2>3, <2>4 DEF MarkRegistered
  <1>8. ASSUME NEW s \in Sessions, Abandons(s) PROVE WeakTypeOK'
    <2>1. OwnerType' /\ LeaseType' /\ TransportType'
      BY <1>8, RemoveClientTypes DEF Abandons
    <2>2. InvocationType'
      BY <1>8 DEF Abandons
    <2> QED
      BY <1>8, <2>1, <2>2 DEF Abandons
  <1>9. ASSUME NEW s \in Sessions, Leave(s) PROVE WeakTypeOK'
    <2>1. OwnerType' /\ LeaseType' /\ TransportType'
      BY <1>9, RemoveClientTypes DEF Leave
    <2>2. InvocationType'
      BY <1>9 DEF Leave
    <2> QED
      BY <1>9, <2>1, <2>2 DEF Leave
  <1>10. ASSUME NEW s \in Sessions, Join(s) PROVE WeakTypeOK'
    <2>1. OwnerType'
      BY <1>10, FinishesTypes DEF Join
    <2>2. TransportType' /\ InvocationType'
      BY <1>10 DEF Join, At, Handler
    <2> QED
      BY <1>10, <2>1, <2>2 DEF Join
  <1>11. ASSUME NEW s \in Sessions, OnExecutorDisconnected(s) PROVE WeakTypeOK'
    <2>1. InvocationType' /\ DispatcherType'
      BY <1>11 DEF OnExecutorDisconnected, EntryLeft, At, Unbinding, Handler
    <2> QED
      BY <1>11, <2>1 DEF OnExecutorDisconnected, Unbinding
  <1>12. ASSUME NEW s \in Sessions, Forget(s) PROVE WeakTypeOK'
    <2>1. TransportType' /\ InvocationType'
      BY <1>12 DEF Forget, At, Unbinding, LaneIsKept, Handler
    <2> QED
      BY <1>12, <2>1 DEF Forget, Unbinding
  <1>13. ASSUME NEW s \in Sessions, BindSent(s) PROVE WeakTypeOK'
    <2>1. CallType'
      BY <1>13 DEF BindSent, Binds, Bind
    <2>2. ExecutorType'
      BY <1>13 DEF BindSent, Binds
    <2> QED
      BY <1>13, <2>1, <2>2 DEF BindSent
  <1>14. ASSUME NEW s \in Sessions, Confirm(s) PROVE WeakTypeOK'
    <2>1. OwnerType'
      BY <1>14, ReservesTypes DEF Confirm
    <2>2. TransportType' /\ CallType' /\ made' = made
      BY <1>14 DEF Confirm, Binds, Bind
    <2> QED
      BY <1>14, <2>1, <2>2 DEF Confirm
  <1>15. ASSUME NEW s \in Sessions, ConfirmRefused(s) PROVE WeakTypeOK'
    <2>1. CallType' /\ made' = made
      BY <1>15 DEF ConfirmRefused, Binds, Bind
    <2> QED
      BY <1>15, <2>1 DEF ConfirmRefused
  <1>16. ASSUME NEW s \in Sessions, ConfirmAnswer(s) PROVE WeakTypeOK'
    <2>1. OwnerType'
      BY <1>16, FinishesTypes DEF ConfirmAnswer
    <2>2. \E b \in {"acked", "none"} : bind' = [bind EXCEPT ![s] = b]
      BY <1>16 DEF ConfirmAnswer, Binds
    <2>3. CallType' /\ made' = made
      BY <1>16, <2>2 DEF ConfirmAnswer, Binds, Bind
    <2> QED
      BY <1>16, <2>1, <2>2, <2>3 DEF ConfirmAnswer
  <1>17. ASSUME NEW s \in Sessions, Negotiated(s) PROVE WeakTypeOK'
    <2>1. CallType' /\ made' = made
      BY <1>17 DEF Negotiated, Binds, Bind
    <2>2. ExecutorType'
      BY <1>17 DEF Negotiated, Binds
    <2> QED
      BY <1>17, <2>1, <2>2 DEF Negotiated
  <1>18. ASSUME NEW s \in Sessions, RenewSend(s) PROVE WeakTypeOK'
    <2>1. sent[s] \in 0..MaxWork /\ sent[s] + 1 \in 1..MaxWork /\ made' \in 0..(MaxWork + MaxForks)
      BY <1>18 DEF RenewSend
    <2>2. renewal' \in [Sessions \X Renewals -> Renewal]
      BY <1>18, <2>1 DEF RenewSend, Renewal
    <2>3. CallType'
      BY <1>18, <2>1, <2>2 DEF RenewSend
    <2>4. sent' \in [Sessions -> 0..MaxWork]
      BY <1>18, <2>1 DEF RenewSend
    <2>5. \A t \in Sessions : sent'[t] <= made'
      BY <1>18 DEF RenewSend
    <2>6. offer' \in [Sessions -> 0..LeaseDuration] /\ awaited' \in [Sessions -> BOOLEAN]
      BY <1>18 DEF RenewSend
    <2> QED
      BY <1>18, <2>1, <2>2, <2>3, <2>4, <2>5, <2>6 DEF RenewSend
  <1>19. ASSUME NEW s \in Sessions, RenewReturns(s) PROVE WeakTypeOK'
    <2>1. CallType' /\ made' = made
      BY <1>19 DEF RenewReturns, Renewal
    <2>2. until' \in [Sessions -> 0..LeaseDuration]
      BY <1>19 DEF RenewReturns
    <2>3. offer' = [offer EXCEPT ![s] = 0] /\ 0 \in 0..LeaseDuration
      BY <1>19 DEF RenewReturns
    <2>4. offer' \in [Sessions -> 0..LeaseDuration]
      BY <2>3
    <2>5. awaited' \in [Sessions -> BOOLEAN]
      BY <1>19 DEF RenewReturns
    <2> QED
      BY <1>19, <2>1, <2>2, <2>3, <2>4, <2>5 DEF RenewReturns
  <1>20. ASSUME NEW s \in Sessions, Stop(s) PROVE WeakTypeOK'
    <2>1. CallType' /\ made' = made
      BY <1>20 DEF Stop, Bind, Renewal
    <2>2. sent' \in [Sessions -> 0..MaxWork] /\ \A t \in Sessions : sent'[t] <= made'
      BY <1>20 DEF Stop
    <2>3. phase' \in [Sessions -> {"none", "offered", "armed", "negotiated", "closed"}]
      BY <1>20 DEF Stop
    <2>4. until' \in [Sessions -> 0..LeaseDuration] /\ offer' \in [Sessions -> 0..LeaseDuration] /\ awaited' \in [Sessions -> BOOLEAN]
      BY <1>20 DEF Stop
    <2> QED
      BY <1>20, <2>1, <2>2, <2>3, <2>4 DEF Stop
  <1>21. ASSUME NEW s \in Sessions, AdmitMutation(s) PROVE WeakTypeOK'
    <2>1. OwnerType'
      BY <1>21, ReservesTypes DEF AdmitMutation
    <2>2. held' \in [Sessions -> Nat]
      BY <1>21 DEF AdmitMutation
    <2>3. made' \in 0..(MaxWork + MaxForks) /\ made' >= made
      BY <1>21 DEF AdmitMutation
    <2>4. \A t \in Sessions : sent[t] <= made'
      BY <1>21, <2>3 DEF AdmitMutation
    <2> QED
      BY <1>21, <2>1, <2>2, <2>3, <2>4 DEF AdmitMutation
  <1>22. ASSUME NEW s \in Sessions, Fork(s) PROVE WeakTypeOK'
    <2>1. OwnerType'
      BY <1>22, ReservesTypes DEF Fork
    <2>2. held' \in [Sessions -> Nat]
      BY <1>22 DEF Fork
    <2>3. made' \in 0..(MaxWork + MaxForks) /\ made' >= made
      BY <1>22 DEF Fork
    <2>4. \A t \in Sessions : sent[t] <= made'
      BY <1>22, <2>3 DEF Fork
    <2> QED
      BY <1>22, <2>1, <2>2, <2>3, <2>4 DEF Fork
  <1>23. ASSUME NEW s \in Sessions, Finish(s) PROVE WeakTypeOK'
    <2>1. OwnerType'
      BY <1>23, FinishesTypes DEF Finish
    <2>2. held' \in [Sessions -> Nat]
      BY <1>23 DEF Finish
    <2> QED
      BY <1>23, <2>1, <2>2 DEF Finish
  <1>24. ASSUME NEW s \in Sessions, ExpireOwner(s) PROVE WeakTypeOK'
    <2>1. OwnerType' /\ LeaseType'
      BY <1>24, RetiresTypes DEF ExpireOwner
    <2>2. DispatcherType'
      BY <1>24 DEF ExpireOwner
    <2> QED
      BY <1>24, <2>1, <2>2 DEF ExpireOwner
  <1>25. ASSUME NEW s \in Sessions, ExpiryRemoves(s) PROVE WeakTypeOK'
    <2>1. OwnerType' /\ LeaseType' /\ TransportType'
      BY <1>25, RemoveClientTypes DEF ExpiryRemoves
    <2> QED
      BY <1>25, <2>1 DEF ExpiryRemoves
  <1>26. ASSUME NEW s \in Sessions, NEW q \in Renewals, RenewAdmitted(s, q) PROVE WeakTypeOK'
    <2>1. OwnerType'
      BY <1>26, ReservesTypes DEF RenewAdmitted
    <2>2. 0 \in 0..RequestTimeout /\ RequestTimeout \in 0..RequestTimeout /\ <<s, q>> \in Sessions \X Renewals
      BY <1>26
    <2>3. probe' \in [Sessions \X Renewals -> 0..RequestTimeout]
      BY <1>26, <2>2 DEF RenewAdmitted
    <2>4. renewal' \in [Sessions \X Renewals -> Renewal]
      BY <1>26 DEF RenewAdmitted, Renews, Renewal
    <2> QED
      BY <1>26, <2>1, <2>2, <2>3, <2>4 DEF RenewAdmitted, Renews
  <1>27. ASSUME NEW s \in Sessions, NEW q \in Renewals, ProbeSession(s, q) PROVE WeakTypeOK'
    <2>1. renewal' \in [Sessions \X Renewals -> Renewal]
      BY <1>27 DEF ProbeSession, Renews, Renewal
    <2> QED
      BY <1>27, <2>1 DEF ProbeSession, Renews
  <1>28. ASSUME NEW s \in Sessions, NEW q \in Renewals, CommitLease(s, q) PROVE WeakTypeOK'
    <2>1. OwnerType'
      BY <1>28, FinishesTypes DEF CommitLease
    <2>2. 0 \in 0..RequestTimeout /\ RequestTimeout \in 0..RequestTimeout /\ <<s, q>> \in Sessions \X Renewals
      BY <1>28
    <2>3. probe' \in [Sessions \X Renewals -> 0..RequestTimeout]
      BY <1>28, <2>2 DEF CommitLease
    <2>4. renewal' \in [Sessions \X Renewals -> Renewal]
      BY <1>28 DEF CommitLease, Renews, Renewal
    <2>5. q \in 0..MaxWork
      BY <1>28 DEF Renewals
    <2>6. sequence' \in [Sessions -> 0..MaxWork]
      BY <1>28, <2>5 DEF CommitLease
    <2>7. deadline' = [deadline EXCEPT ![s] = LeaseDuration] /\ LeaseDuration \in 0..LeaseDuration
      BY <1>28 DEF CommitLease
    <2>8. deadline' \in [Sessions -> 0..LeaseDuration]
      BY <2>7
    <2> QED
      BY <1>28, <2>1, <2>2, <2>3, <2>4, <2>5, <2>6, <2>7, <2>8 DEF CommitLease, Renews
  <1>29. ASSUME NEW s \in Sessions, NEW q \in Renewals, RenewFails(s, q) PROVE WeakTypeOK'
    <2>1. OwnerType'
      BY <1>29, FinishesTypes DEF RenewFails
    <2>2. 0 \in 0..RequestTimeout /\ RequestTimeout \in 0..RequestTimeout /\ <<s, q>> \in Sessions \X Renewals
      BY <1>29
    <2>3. probe' \in [Sessions \X Renewals -> 0..RequestTimeout]
      BY <1>29, <2>2 DEF RenewFails
    <2>4. renewal' \in [Sessions \X Renewals -> Renewal]
      BY <1>29 DEF RenewFails, Renews, Renewal
    <2> QED
      BY <1>29, <2>1, <2>2, <2>3, <2>4 DEF RenewFails, Renews
  <1>30. CASE Close
    <2>1. OwnerType' /\ LeaseType'
      BY <1>30, RetiresTypes DEF Close
    <2>2. DispatcherType' /\ EnrolmentType'
      BY <1>30 DEF Close
    <2> QED
      BY <1>30, <2>1, <2>2 DEF Close
  <1>31. CASE CloseTransport
    <2>1. OwnerType' /\ LeaseType' /\ TransportType'
      BY <1>31, RemoveClientTypes DEF CloseTransport
    <2>2. DispatcherType'
      BY <1>31 DEF CloseTransport
    <2> QED
      BY <1>31, <2>1, <2>2 DEF CloseTransport
  <1>32. CASE Administer
    <2>1. lapsed' \in [Sessions -> 0..(LeaseDuration + RequestTimeout - 1)]
      BY <1>32 DEF Administer
    <2>2. EnrolmentType'
      BY <1>32 DEF Administer
    <2> QED
      BY <1>32, <2>1, <2>2 DEF Administer
  <1>33. CASE Tick
    <2>1. \A n \in Nat : \A k \in 0..n : Less(k) \in 0..n
      BY <1>33 DEF Less
    <2>2. deadline' \in [Sessions -> 0..LeaseDuration] /\ until' \in [Sessions -> 0..LeaseDuration] /\ offer' \in [Sessions -> 0..LeaseDuration]
      BY <1>33, <2>1 DEF Tick
    <2>3. probe' \in [Sessions \X Renewals -> 0..RequestTimeout]
      BY <1>33, <2>1 DEF Tick
    <2>4. LeaseDuration + RequestTimeout - 1 \in Nat /\ \A t \in Sessions : lapsed[t] \in 0..(LeaseDuration + RequestTimeout - 1)
      BY <1>33
    <2>5. \A t \in Sessions : lapsed[t] # Overdue => lapsed[t] + 1 \in 0..(LeaseDuration + RequestTimeout - 1)
      BY <2>4, CountsUp DEF Overdue
    <2>6. 0 \in 0..(LeaseDuration + RequestTimeout - 1) /\ Overdue \in 0..(LeaseDuration + RequestTimeout - 1)
      BY <1>33 DEF Overdue
    <2>7. lapsed' \in [Sessions -> 0..(LeaseDuration + RequestTimeout - 1)]
      BY <1>33, <2>4, <2>5, <2>6 DEF Tick
    <2> QED
      BY <1>33, <2>1, <2>2, <2>3, <2>4, <2>5, <2>6, <2>7 DEF Tick
  <1>34. CASE UNCHANGED vars
    BY <1>34 DEF vars
  <1> HIDE DEF WeakTypeOK
  <1> QED
    BY <1>1, <1>2, <1>3, <1>4, <1>5, <1>6, <1>7, <1>8, <1>9, <1>10, <1>11, <1>12,
       <1>13, <1>14, <1>15, <1>16, <1>17, <1>18, <1>19, <1>20, <1>21, <1>22, <1>23, <1>24,
       <1>25, <1>26, <1>27, <1>28, <1>29, <1>30, <1>31, <1>32, <1>33, <1>34
    DEF Next, HandlerStep, ConfirmStep, RenewStep, Watch, ConnLost

\* The steps that move none of these keep the placement.
LEMMA PlaceUnchanged ==
  ASSUME PlaceInv, UNCHANGED <<st, handler, cancelled, client, current, entry, setup>>
  PROVE  PlaceInv'
  BY DEF PlaceInv, OwnerPlace, EntryPlace, SetupPlace, Active

\* Every step keeps a session's owner, client, entry and handler together.
LEMMA PlaceStep ==
  ASSUME WeakTypeOK, PlaceInv, PhaseInv, [Next]_vars
  PROVE  PlaceInv'
  <1> USE DEF owner, lease, transport, invocation, calls, dispatcher, enrolment, executor
  <1>0. /\ st \in [Sessions -> {"none", "active", "registered", "retired"}]
        /\ handler \in [Sessions -> Handler] /\ setup \in [Sessions -> BOOLEAN]
        /\ cancelled \in [Sessions -> BOOLEAN]
        /\ 0 \notin Sessions
    BY DEF WeakTypeOK, OwnerType, InvocationType, Sessions
  <1>1. ASSUME NEW s \in Sessions, Hello(s) PROVE PlaceInv'
    <2>1. ASSUME NEW t \in Sessions PROVE OwnerPlace(t)'
      BY <1>0, <1>1 DEF Hello, At, PlaceInv, PhaseInv, OwnerPlace, SetupPlace, Active
    <2>2. ASSUME NEW t \in Sessions PROVE EntryPlace(t)'
      BY <1>0, <1>1 DEF Hello, At, PlaceInv, PhaseInv, OwnerPlace, EntryPlace, Active
    <2>3. ASSUME NEW t \in Sessions PROVE SetupPlace(t)'
      BY <1>0, <1>1 DEF Hello, At, PlaceInv, PhaseInv, OwnerPlace, SetupPlace, Active
    <2>4. (current = client)'
      BY <1>1 DEF Hello, At, PlaceInv
    <2> QED
      BY <2>1, <2>2, <2>3, <2>4 DEF PlaceInv
  <1>2. ASSUME NEW s \in Sessions, HelloFails(s) PROVE PlaceInv'
    <2>1. ASSUME NEW t \in Sessions PROVE OwnerPlace(t)'
      BY <1>0, <1>2 DEF HelloFails, At, Unbinding, PlaceInv, OwnerPlace, SetupPlace, Active
    <2>2. ASSUME NEW t \in Sessions PROVE EntryPlace(t)'
      BY <1>0, <1>2 DEF HelloFails, At, Unbinding, PlaceInv, OwnerPlace, EntryPlace, Active
    <2>3. ASSUME NEW t \in Sessions PROVE SetupPlace(t)'
      BY <1>0, <1>2 DEF HelloFails, At, Unbinding, PlaceInv, OwnerPlace, SetupPlace, Active
    <2>4. (current = client)'
      BY <1>2 DEF HelloFails, At, Unbinding, PlaceInv
    <2> QED
      BY <2>1, <2>2, <2>3, <2>4 DEF PlaceInv
  <1>3. ASSUME NEW s \in Sessions, Publish(s) PROVE PlaceInv'
    <2>1. ASSUME NEW t \in Sessions PROVE OwnerPlace(t)'
      BY <1>0, <1>3 DEF Publish, At, Retired, NoLease, PlaceInv, OwnerPlace, SetupPlace, Active
    <2>2. ASSUME NEW t \in Sessions PROVE EntryPlace(t)'
      BY <1>0, <1>3 DEF Publish, At, Retired, NoLease, PlaceInv, OwnerPlace, EntryPlace, Active
    <2>3. ASSUME NEW t \in Sessions PROVE SetupPlace(t)'
      BY <1>0, <1>3 DEF Publish, At, Retired, NoLease, PlaceInv, OwnerPlace, SetupPlace, Active
    <2>4. (current = client)'
      BY <1>3 DEF Publish, At, Retired, NoLease, PlaceInv
    <2> QED
      BY <2>1, <2>2, <2>3, <2>4 DEF PlaceInv
  <1>4. ASSUME NEW s \in Sessions, waitPredecessors(s) PROVE PlaceInv'
    <2>1. ASSUME NEW t \in Sessions PROVE OwnerPlace(t)'
      BY <1>0, <1>4 DEF waitPredecessors, At, PlaceInv, OwnerPlace, SetupPlace, Active
    <2>2. ASSUME NEW t \in Sessions PROVE EntryPlace(t)'
      BY <1>0, <1>4 DEF waitPredecessors, At, PlaceInv, OwnerPlace, EntryPlace, Active
    <2>3. ASSUME NEW t \in Sessions PROVE SetupPlace(t)'
      BY <1>0, <1>4 DEF waitPredecessors, At, PlaceInv, OwnerPlace, SetupPlace, Active
    <2>4. (current = client)'
      BY <1>4 DEF waitPredecessors, At, PlaceInv
    <2> QED
      BY <2>1, <2>2, <2>3, <2>4 DEF PlaceInv
  <1>5. ASSUME NEW s \in Sessions, Interrupted(s) PROVE PlaceInv'
    <2>1. ASSUME NEW t \in Sessions PROVE OwnerPlace(t)'
      BY <1>0, <1>5 DEF Interrupted, At, PlaceInv, OwnerPlace, SetupPlace, Active
    <2>2. ASSUME NEW t \in Sessions PROVE EntryPlace(t)'
      BY <1>0, <1>5 DEF Interrupted, At, PlaceInv, OwnerPlace, EntryPlace, Active
    <2>3. ASSUME NEW t \in Sessions PROVE SetupPlace(t)'
      BY <1>0, <1>5 DEF Interrupted, At, PlaceInv, OwnerPlace, SetupPlace, Active
    <2>4. (current = client)'
      BY <1>5 DEF Interrupted, At, PlaceInv
    <2> QED
      BY <2>1, <2>2, <2>3, <2>4 DEF PlaceInv
  <1>6. ASSUME NEW s \in Sessions, OnExecutorConnected(s) PROVE PlaceInv'
    <2>1. ASSUME NEW t \in Sessions PROVE OwnerPlace(t)'
      BY <1>0, <1>6 DEF OnExecutorConnected, At, Unbinding, PlaceInv, OwnerPlace, SetupPlace, Active
    <2>2. ASSUME NEW t \in Sessions PROVE EntryPlace(t)'
      BY <1>0, <1>6 DEF OnExecutorConnected, At, Unbinding, PlaceInv, OwnerPlace, EntryPlace, Active
    <2>3. ASSUME NEW t \in Sessions PROVE SetupPlace(t)'
      BY <1>0, <1>6 DEF OnExecutorConnected, At, Unbinding, PlaceInv, OwnerPlace, SetupPlace, Active
    <2>4. (current = client)'
      BY <1>6 DEF OnExecutorConnected, At, Unbinding, PlaceInv
    <2> QED
      BY <2>1, <2>2, <2>3, <2>4 DEF PlaceInv
  <1>7. ASSUME NEW s \in Sessions, MarkRegistered(s) PROVE PlaceInv'
    <2>1. ASSUME NEW t \in Sessions PROVE OwnerPlace(t)'
      BY <1>0, <1>7 DEF MarkRegistered, At, PlaceInv, OwnerPlace, SetupPlace, Active
    <2>2. ASSUME NEW t \in Sessions PROVE EntryPlace(t)'
      BY <1>0, <1>7 DEF MarkRegistered, At, PlaceInv, OwnerPlace, EntryPlace, Active
    <2>3. ASSUME NEW t \in Sessions PROVE SetupPlace(t)'
      BY <1>0, <1>7 DEF MarkRegistered, At, PlaceInv, OwnerPlace, SetupPlace, Active
    <2>4. (current = client)'
      BY <1>7 DEF MarkRegistered, At, PlaceInv
    <2> QED
      BY <2>1, <2>2, <2>3, <2>4 DEF PlaceInv
  <1>8. ASSUME NEW s \in Sessions, Abandons(s) PROVE PlaceInv'
    <2>1. ASSUME NEW t \in Sessions PROVE OwnerPlace(t)'
      BY <1>0, <1>8 DEF Abandons, RemoveClient, retireLocked, Retires, Retired, NoLease, Published, PlaceInv, OwnerPlace, SetupPlace, Active
    <2>2. ASSUME NEW t \in Sessions PROVE EntryPlace(t)'
      BY <1>0, <1>8 DEF Abandons, RemoveClient, retireLocked, Retires, Retired, NoLease, Published, PlaceInv, OwnerPlace, EntryPlace, Active
    <2>3. ASSUME NEW t \in Sessions PROVE SetupPlace(t)'
      BY <1>0, <1>8 DEF Abandons, RemoveClient, retireLocked, Retires, Retired, NoLease, Published, PlaceInv, OwnerPlace, SetupPlace, Active
    <2>4. (current = client)'
      BY <1>8 DEF Abandons, RemoveClient, retireLocked, Retires, Retired, NoLease, Published, PlaceInv
    <2> QED
      BY <2>1, <2>2, <2>3, <2>4 DEF PlaceInv
  <1>9. ASSUME NEW s \in Sessions, Leave(s) PROVE PlaceInv'
    <2>1. ASSUME NEW t \in Sessions PROVE OwnerPlace(t)'
      BY <1>0, <1>9 DEF Leave, RemoveClient, retireLocked, Retires, Retired, NoLease, PlaceInv, OwnerPlace, SetupPlace, Active
    <2>2. ASSUME NEW t \in Sessions PROVE EntryPlace(t)'
      BY <1>0, <1>9 DEF Leave, RemoveClient, retireLocked, Retires, Retired, NoLease, PlaceInv, OwnerPlace, EntryPlace, Active
    <2>3. ASSUME NEW t \in Sessions PROVE SetupPlace(t)'
      BY <1>0, <1>9 DEF Leave, RemoveClient, retireLocked, Retires, Retired, NoLease, PlaceInv, OwnerPlace, SetupPlace, Active
    <2>4. (current = client)'
      BY <1>9 DEF Leave, RemoveClient, retireLocked, Retires, Retired, NoLease, PlaceInv
    <2> QED
      BY <2>1, <2>2, <2>3, <2>4 DEF PlaceInv
  <1>10. ASSUME NEW s \in Sessions, Join(s) PROVE PlaceInv'
    <2>1. ASSUME NEW t \in Sessions PROVE OwnerPlace(t)'
      BY <1>0, <1>10 DEF Join, At, Finishes, PlaceInv, OwnerPlace, SetupPlace, Active
    <2>2. ASSUME NEW t \in Sessions PROVE EntryPlace(t)'
      BY <1>0, <1>10 DEF Join, At, Finishes, PlaceInv, OwnerPlace, EntryPlace, Active
    <2>3. ASSUME NEW t \in Sessions PROVE SetupPlace(t)'
      BY <1>0, <1>10 DEF Join, At, Finishes, PlaceInv, OwnerPlace, SetupPlace, Active
    <2>4. (current = client)'
      BY <1>10 DEF Join, At, Finishes, PlaceInv
    <2> QED
      BY <2>1, <2>2, <2>3, <2>4 DEF PlaceInv
  <1>11. ASSUME NEW s \in Sessions, OnExecutorDisconnected(s) PROVE PlaceInv'
    <2>1. ASSUME NEW t \in Sessions PROVE OwnerPlace(t)'
      BY <1>0, <1>11 DEF OnExecutorDisconnected, At, Unbinding, EntryLeft, PlaceInv, OwnerPlace, SetupPlace, Active
    <2>2. ASSUME NEW t \in Sessions PROVE EntryPlace(t)'
      BY <1>0, <1>11 DEF OnExecutorDisconnected, At, Unbinding, EntryLeft, PlaceInv, OwnerPlace, EntryPlace, Active
    <2>3. ASSUME NEW t \in Sessions PROVE SetupPlace(t)'
      BY <1>0, <1>11 DEF OnExecutorDisconnected, At, Unbinding, EntryLeft, PlaceInv, OwnerPlace, SetupPlace, Active
    <2>4. (current = client)'
      BY <1>11 DEF OnExecutorDisconnected, At, Unbinding, EntryLeft, PlaceInv
    <2> QED
      BY <2>1, <2>2, <2>3, <2>4 DEF PlaceInv
  <1>12. ASSUME NEW s \in Sessions, Forget(s) PROVE PlaceInv'
    <2>1. ASSUME NEW t \in Sessions PROVE OwnerPlace(t)'
      BY <1>0, <1>12 DEF Forget, At, Unbinding, PlaceInv, OwnerPlace, SetupPlace, Active
    <2>2. ASSUME NEW t \in Sessions PROVE EntryPlace(t)'
      BY <1>0, <1>12 DEF Forget, At, Unbinding, PlaceInv, OwnerPlace, EntryPlace, Active
    <2>3. ASSUME NEW t \in Sessions PROVE SetupPlace(t)'
      BY <1>0, <1>12 DEF Forget, At, Unbinding, PlaceInv, OwnerPlace, SetupPlace, Active
    <2>4. (current = client)'
      BY <1>12 DEF Forget, At, Unbinding, PlaceInv
    <2> QED
      BY <2>1, <2>2, <2>3, <2>4 DEF PlaceInv
  <1>13. ASSUME NEW s \in Sessions, ExpireOwner(s) PROVE PlaceInv'
    <2>1. ASSUME NEW t \in Sessions PROVE OwnerPlace(t)'
      BY <1>0, <1>13 DEF ExpireOwner, Retires, Retired, NoLease, PlaceInv, OwnerPlace, SetupPlace, Active
    <2>2. ASSUME NEW t \in Sessions PROVE EntryPlace(t)'
      BY <1>0, <1>13 DEF ExpireOwner, Retires, Retired, NoLease, PlaceInv, OwnerPlace, EntryPlace, Active
    <2>3. ASSUME NEW t \in Sessions PROVE SetupPlace(t)'
      BY <1>0, <1>13 DEF ExpireOwner, Retires, Retired, NoLease, PlaceInv, OwnerPlace, SetupPlace, Active
    <2>4. (current = client)'
      BY <1>13 DEF ExpireOwner, Retires, Retired, NoLease, PlaceInv
    <2> QED
      BY <2>1, <2>2, <2>3, <2>4 DEF PlaceInv
  <1>14. ASSUME NEW s \in Sessions, ExpiryRemoves(s) PROVE PlaceInv'
    <2>1. ASSUME NEW t \in Sessions PROVE OwnerPlace(t)'
      BY <1>0, <1>14 DEF ExpiryRemoves, RemoveClient, retireLocked, Retires, Retired, NoLease, PlaceInv, OwnerPlace, SetupPlace, Active
    <2>2. ASSUME NEW t \in Sessions PROVE EntryPlace(t)'
      BY <1>0, <1>14 DEF ExpiryRemoves, RemoveClient, retireLocked, Retires, Retired, NoLease, PlaceInv, OwnerPlace, EntryPlace, Active
    <2>3. ASSUME NEW t \in Sessions PROVE SetupPlace(t)'
      BY <1>0, <1>14 DEF ExpiryRemoves, RemoveClient, retireLocked, Retires, Retired, NoLease, PlaceInv, OwnerPlace, SetupPlace, Active
    <2>4. (current = client)'
      BY <1>14 DEF ExpiryRemoves, RemoveClient, retireLocked, Retires, Retired, NoLease, PlaceInv
    <2> QED
      BY <2>1, <2>2, <2>3, <2>4 DEF PlaceInv
  <1>15. CASE Close
    <2>1. ASSUME NEW t \in Sessions PROVE OwnerPlace(t)'
      BY <1>0, <1>15 DEF Close, Retires, Retired, NoLease, EntryPlace, PlaceInv, OwnerPlace, SetupPlace, Active
    <2>2. ASSUME NEW t \in Sessions PROVE EntryPlace(t)'
      BY <1>0, <1>15 DEF Close, Retires, Retired, NoLease, EntryPlace, PlaceInv, OwnerPlace, Active
    <2>3. ASSUME NEW t \in Sessions PROVE SetupPlace(t)'
      BY <1>0, <1>15 DEF Close, Retires, Retired, NoLease, EntryPlace, PlaceInv, OwnerPlace, SetupPlace, Active
    <2>4. (current = client)'
      BY <1>15 DEF Close, Retires, Retired, NoLease, EntryPlace, PlaceInv
    <2> QED
      BY <2>1, <2>2, <2>3, <2>4 DEF PlaceInv
  <1>16. CASE CloseTransport
    <2>1. ASSUME NEW t \in Sessions PROVE OwnerPlace(t)'
      BY <1>0, <1>16 DEF CloseTransport, RemoveClient, retireLocked, Retires, Retired, NoLease, PlaceInv, OwnerPlace, SetupPlace, Active
    <2>2. ASSUME NEW t \in Sessions PROVE EntryPlace(t)'
      BY <1>0, <1>16 DEF CloseTransport, RemoveClient, retireLocked, Retires, Retired, NoLease, PlaceInv, OwnerPlace, EntryPlace, Active
    <2>3. ASSUME NEW t \in Sessions PROVE SetupPlace(t)'
      BY <1>0, <1>16 DEF CloseTransport, RemoveClient, retireLocked, Retires, Retired, NoLease, PlaceInv, OwnerPlace, SetupPlace, Active
    <2>4. (current = client)'
      BY <1>16 DEF CloseTransport, RemoveClient, retireLocked, Retires, Retired, NoLease, PlaceInv
    <2> QED
      BY <2>1, <2>2, <2>3, <2>4 DEF PlaceInv
  <1>17. ASSUME NEW s \in Sessions,
                 \/ BindSent(s) \/ ConfirmStep(s) \/ Negotiated(s) \/ RenewSend(s) \/ RenewReturns(s)
                 \/ Stop(s) \/ AdmitMutation(s) \/ Fork(s) \/ Finish(s)
                 \/ \E q \in Renewals : RenewStep(s, q)
          PROVE  PlaceInv'
    BY <1>17, PlaceUnchanged
    DEF BindSent, ConfirmStep, Confirm, ConfirmRefused, ConfirmAnswer, Negotiated, RenewSend,
        RenewReturns, Stop, AdmitMutation, Fork, Finish, RenewStep, RenewAdmitted, ProbeSession,
        CommitLease, RenewFails, Reserves, Finishes
  <1>18. CASE Administer \/ Tick \/ UNCHANGED vars
    BY <1>18, PlaceUnchanged DEF Administer, Tick, vars
  <1> QED
    BY <1>1, <1>2, <1>3, <1>4, <1>5, <1>6, <1>7, <1>8, <1>9, <1>10, <1>11, <1>12, <1>13, <1>14, <1>15, <1>16, <1>17, <1>18
    DEF Next, HandlerStep, Watch, ConnLost

\* The steps that move none of these keep the phases.
LEMMA PhaseUnchanged ==
  ASSUME PhaseInv, UNCHANGED <<st, handler, confirmed, bind, phase>>
  PROVE  PhaseInv'
  BY DEF PhaseInv

\* Every step keeps the executor at least as far as its session shows.
LEMMA PhaseStep ==
  ASSUME WeakTypeOK, PlaceInv, PhaseInv, [Next]_vars
  PROVE  PhaseInv'
  <1> USE DEF PhaseInv, owner, lease, transport, invocation, calls, dispatcher, enrolment, executor
  <1>0. /\ st \in [Sessions -> {"none", "active", "registered", "retired"}]
        /\ handler \in [Sessions -> Handler] /\ confirmed \in [Sessions -> BOOLEAN]
        /\ bind \in [Sessions -> Bind]
        /\ phase \in [Sessions -> {"none", "offered", "armed", "negotiated", "closed"}]
        /\ 0 \notin Sessions /\ Sessions \subseteq Nat
    BY DEF WeakTypeOK, OwnerType, InvocationType, TransportType, CallType, ExecutorType, Sessions
  <1>1. ASSUME NEW s \in Sessions, Hello(s) PROVE PhaseInv'
    BY <1>0, <1>1 DEF Hello, At
  <1>2. ASSUME NEW s \in Sessions, HelloFails(s) PROVE PhaseInv'
    BY <1>0, <1>2 DEF HelloFails, At, Unbinding
  <1>3. ASSUME NEW s \in Sessions, Publish(s) PROVE PhaseInv'
    BY <1>0, <1>3 DEF Publish, At, Retired, NoLease
  <1>4. ASSUME NEW s \in Sessions, waitPredecessors(s) PROVE PhaseInv'
    BY <1>0, <1>4 DEF waitPredecessors, At
  <1>5. ASSUME NEW s \in Sessions, Interrupted(s) PROVE PhaseInv'
    BY <1>0, <1>5 DEF Interrupted, At
  <1>6. ASSUME NEW s \in Sessions, OnExecutorConnected(s) PROVE PhaseInv'
    BY <1>0, <1>6 DEF OnExecutorConnected, At, Unbinding
  <1>7. ASSUME NEW s \in Sessions, MarkRegistered(s) PROVE PhaseInv'
    BY <1>0, <1>7 DEF MarkRegistered, At
  <1>8. ASSUME NEW s \in Sessions, Abandons(s) PROVE PhaseInv'
    BY <1>0, <1>8 DEF Abandons, RemoveClient, retireLocked, Retires, Retired, NoLease
  <1>9. ASSUME NEW s \in Sessions, Leave(s) PROVE PhaseInv'
    BY <1>0, <1>9 DEF Leave, RemoveClient, retireLocked, Retires, Retired, NoLease
  <1>10. ASSUME NEW s \in Sessions, Join(s) PROVE PhaseInv'
    BY <1>0, <1>10 DEF Join, At, Finishes
  <1>11. ASSUME NEW s \in Sessions, OnExecutorDisconnected(s) PROVE PhaseInv'
    BY <1>0, <1>11 DEF OnExecutorDisconnected, At, Unbinding
  <1>12. ASSUME NEW s \in Sessions, Forget(s) PROVE PhaseInv'
    BY <1>0, <1>12 DEF Forget, At, Unbinding
  <1>13. ASSUME NEW s \in Sessions, ExpireOwner(s) PROVE PhaseInv'
    BY <1>0, <1>13 DEF ExpireOwner, Retires, Retired
  <1>14. ASSUME NEW s \in Sessions, ExpiryRemoves(s) PROVE PhaseInv'
    BY <1>0, <1>14 DEF ExpiryRemoves, RemoveClient, retireLocked, Retires, Retired, NoLease
  <1>15. CASE Close
    BY <1>0, <1>15 DEF Close, Retires, Retired
  <1>16. CASE CloseTransport
    BY <1>0, <1>16 DEF CloseTransport, RemoveClient, retireLocked, Retires, Retired, NoLease
  <1>17. ASSUME NEW s \in Sessions, BindSent(s) PROVE PhaseInv'
    BY <1>0, <1>17 DEF BindSent, Binds
  <1>18. ASSUME NEW s \in Sessions, Confirm(s) PROVE PhaseInv'
    BY <1>0, <1>18 DEF Confirm, Binds, Reserves
  <1>19. ASSUME NEW s \in Sessions, ConfirmRefused(s) PROVE PhaseInv'
    BY <1>0, <1>19 DEF ConfirmRefused, Binds
  <1>20. ASSUME NEW s \in Sessions, ConfirmAnswer(s) PROVE PhaseInv'
    BY <1>0, <1>20 DEF ConfirmAnswer, Binds, Finishes
  <1>21. ASSUME NEW s \in Sessions, Negotiated(s) PROVE PhaseInv'
    BY <1>0, <1>21 DEF Negotiated, Binds
  <1>22. ASSUME NEW s \in Sessions, Stop(s) PROVE PhaseInv'
    BY <1>0, <1>22 DEF Stop
  <1>23. ASSUME NEW s \in Sessions,
                 \/ RenewSend(s) \/ RenewReturns(s) \/ AdmitMutation(s) \/ Fork(s) \/ Finish(s)
                 \/ \E q \in Renewals : RenewStep(s, q)
          PROVE  PhaseInv'
    BY <1>23, PhaseUnchanged
    DEF RenewSend, RenewReturns, AdmitMutation, Fork, Finish, RenewStep, RenewAdmitted, ProbeSession,
        CommitLease, RenewFails, Reserves, Finishes, Renews
  <1>24. CASE Administer \/ Tick \/ UNCHANGED vars
    BY <1>24 DEF Administer, Tick, vars
  <1> HIDE DEF PhaseInv
  <1> QED
    BY <1>1, <1>2, <1>3, <1>4, <1>5, <1>6, <1>7, <1>8, <1>9, <1>10, <1>11, <1>12,
       <1>13, <1>14, <1>15, <1>16, <1>17, <1>18, <1>19, <1>20, <1>21, <1>22, <1>23, <1>24
    DEF Next, HandlerStep, ConfirmStep, Watch, ConnLost

\* The renewals of a session that are in flight stay so unless a step says otherwise.
LEMMA FreshStep ==
  ASSUME WeakTypeOK, FreshInv, [Next]_vars
  PROVE  FreshInv'
  <1> USE DEF FreshInv
  <1>0. /\ phase \in [Sessions -> {"none", "offered", "armed", "negotiated", "closed"}]
        /\ renewal \in [Sessions \X Renewals -> Renewal]
        /\ sent \in [Sessions -> Nat] /\ Renewals \subseteq Nat
    BY SessionAssumption DEF WeakTypeOK, CallType, ExecutorType, Renewals
  <1>1. ASSUME UNCHANGED <<phase, sent, renewal>> PROVE FreshInv'
    BY <1>1
  <1>2. ASSUME NEW s \in Sessions, Hello(s) \/ BindSent(s) \/ Negotiated(s) PROVE FreshInv'
    BY <1>0, <1>2 DEF Hello, BindSent, Negotiated, Binds, calls
  <1>3. ASSUME NEW s \in Sessions, RenewSend(s) PROVE FreshInv'
    BY <1>0, <1>3 DEF RenewSend
  <1>4. ASSUME NEW s \in Sessions, RenewReturns(s) PROVE FreshInv'
    BY <1>0, <1>4 DEF RenewReturns
  <1>5. ASSUME NEW s \in Sessions, Stop(s) PROVE FreshInv'
    BY <1>0, <1>5 DEF Stop
  <1>6. ASSUME NEW s \in Sessions, NEW q \in Renewals, RenewStep(s, q) PROVE FreshInv'
    BY <1>0, <1>6 DEF RenewStep, RenewAdmitted, ProbeSession, CommitLease, RenewFails, Renews,
                      executor
  <1>7. ASSUME NEW s \in Sessions,
               HandlerStep(s) \/ Watch(s) \/ ConnLost(s) \/ ExpireOwner(s) \/ ExpiryRemoves(s)
        PROVE  UNCHANGED <<phase, sent, renewal>>
    BY <1>7
    DEF HandlerStep, HelloFails, Publish, waitPredecessors, Interrupted, OnExecutorConnected,
        MarkRegistered, Leave, Join, OnExecutorDisconnected, Forget, Watch, ConnLost, Abandons,
        ExpireOwner, ExpiryRemoves, calls, executor
  <1>8. ASSUME NEW s \in Sessions,
               ConfirmStep(s) \/ AdmitMutation(s) \/ Fork(s) \/ Finish(s)
        PROVE  UNCHANGED <<phase, sent, renewal>>
    BY <1>8
    DEF ConfirmStep, Confirm, ConfirmRefused, ConfirmAnswer, Binds, AdmitMutation, Fork, Finish,
        calls, executor
  <1>9. CASE Close \/ CloseTransport \/ Administer \/ Tick \/ UNCHANGED vars
    BY <1>9, <1>1 DEF Close, CloseTransport, Administer, Tick, vars, calls, executor
  <1> HIDE DEF FreshInv
  <1> QED
    BY <1>1, <1>2, <1>3, <1>4, <1>5, <1>6, <1>7, <1>8, <1>9 DEF Next

\* What is in flight of a session is finite, and counted in natural numbers.
LEMMA RenewingFinite ==
  ASSUME NEW s \in Sessions
  PROVE  /\ IsFiniteSet(Renewing(s)) /\ Cardinality(Renewing(s)) \in Nat
         /\ Cardinality(Renewing(s)') \in Nat
  <1>1. IsFiniteSet(Renewals)
    BY SessionAssumption, FS_Interval DEF Renewals
  <1>2. Renewing(s) \subseteq Renewals /\ Renewing(s)' \subseteq Renewals
    BY DEF Renewing
  <1> QED
    BY <1>1, <1>2, FS_Subset, FS_CardinalityType

\* A renewal admitted is one more in flight.
LEMMA RenewingAdds ==
  ASSUME NEW s \in Sessions, NEW q \in Renewals, q \notin Renewing(s),
         Renewing(s)' = Renewing(s) \cup {q}
  PROVE  Cardinality(Renewing(s)') = Cardinality(Renewing(s)) + 1
  BY RenewingFinite, FS_AddElement

\* A renewal answered is one fewer.
LEMMA RenewingDrops ==
  ASSUME NEW s \in Sessions, NEW q \in Renewals, q \in Renewing(s),
         Renewing(s)' = Renewing(s) \ {q}
  PROVE  Cardinality(Renewing(s)') = Cardinality(Renewing(s)) - 1
  BY RenewingFinite, FS_RemoveElement

\* A renewal that moves between phases of the same kind is counted as before.
LEMMA RenewingSame ==
  ASSUME NEW s \in Sessions,
         \A q \in Renewals : renewal'[<<s, q>>] \in {"probing", "probed"}
                               <=> renewal[<<s, q>>] \in {"probing", "probed"}
  PROVE  Renewing(s)' = Renewing(s)
  BY DEF Renewing

\* A session nothing happens to keeps its count.
LEMMA CountKept ==
  ASSUME NEW s \in Sessions, CountAt(s), Renewing(s)' = Renewing(s),
         st'[s] = st[s], refs'[s] = refs[s], drained'[s] = drained[s],
         held'[s] = held[s], setup'[s] = setup[s], bind'[s] = "confirmed" <=> bind[s] = "confirmed"
  PROVE  CountAt(s)'
  BY DEF CountAt, Holders, Ordinary

\* Holders are counted in natural numbers.
LEMMA HoldersNat ==
  ASSUME NEW s \in Sessions, held[s] \in Nat
  PROVE  Holders(s) \in Nat
  <1>1. Cardinality(Renewing(s)) \in Nat
    BY RenewingFinite
  <1> QED
    BY <1>1 DEF Holders

\* A mutation admitted on an undrained owner is one more reference and one more holder.
LEMMA CountReserved ==
  ASSUME NEW s \in Sessions, OwnerType, CountAt(s), Reserves(s), held[s] \in Nat,
         Holders(s)' = Holders(s) + 1, st[s] \in {"active", "registered"} \/ Holders(s) > 0,
         st[s] # "none", Ordinary(s)' => Ordinary(s) \/ st[s] = "registered"
  PROVE  CountAt(s)'
  <1>1. Holders(s) \in Nat
    BY HoldersNat
  <1>2. refs'[s] = refs[s] + 1 /\ st'[s] = st[s] /\ drained'[s] = drained[s]
    BY DEF OwnerType, Reserves
  <1>3. drained[s] = FALSE /\ (drained[s] <=> st[s] = "retired" /\ Holders(s)' = 0)
    BY <1>1 DEF CountAt, OwnerType
  <1> QED
    BY <1>1, <1>2, <1>3 DEF CountAt

\* The last mutation finished of a retired owner drains it, no other.
LEMMA CountFinished ==
  ASSUME NEW s \in Sessions, OwnerType, CountAt(s), Finishes(s), held[s] \in Nat, held'[s] \in Nat,
         Holders(s)' = Holders(s) - 1, Ordinary(s)' => Ordinary(s),
         bind'[s] = "confirmed" => bind[s] = "confirmed"
  PROVE  CountAt(s)'
  <1>1. Holders(s) \in Nat /\ Holders(s)' \in Nat
    <2>1. Cardinality(Renewing(s)) \in Nat /\ Cardinality(Renewing(s)') \in Nat
      BY RenewingFinite
    <2> QED
      BY <2>1 DEF Holders
  <1>2. refs'[s] = refs[s] - 1 /\ st'[s] = st[s]
    BY DEF OwnerType, Finishes
  <1>3. drained'[s] <=> drained[s] \/ (refs[s] = 1 /\ st[s] = "retired")
    BY DEF OwnerType, Finishes
  <1>4. ~ drained[s]
    BY <1>1 DEF CountAt
  <1>5. refs[s] = Holders(s)
    BY DEF CountAt
  <1>6. drained'[s] <=> st'[s] = "retired" /\ Holders(s)' = 0
    BY <1>1, <1>2, <1>3, <1>4, <1>5
  <1> QED
    BY <1>1, <1>2, <1>5, <1>6 DEF CountAt

\* Retirement drains an owner at once when nothing is in flight.
LEMMA CountRetired ==
  ASSUME OwnerType, CountInv, NEW s, Retires(s), UNCHANGED <<setup, bind, renewal, held>>
  PROVE  CountInv'
  <1> SUFFICES ASSUME NEW t \in Sessions PROVE CountAt(t)'
    BY DEF CountInv
  <1>1. Renewing(t)' = Renewing(t)
    BY DEF Renewing
  <1>2. CASE t # s
    <2>1. st'[t] = st[t] /\ refs'[t] = refs[t] /\ drained'[t] = drained[t]
      BY <1>2 DEF Retires, Retired, Drained, OwnerType
    <2> QED
      BY <2>1, <1>1, CountKept DEF CountInv
  <1>3. CASE t = s
    <2>1. st'[t] = "retired" /\ refs'[t] = refs[t]
      BY <1>3 DEF Retires, Retired
    <2>2. drained'[t] <=> drained[t] \/ refs[t] = 0
      BY <1>3 DEF Retires, Drained
    <2>3. Holders(t)' = Holders(t) /\ (Ordinary(t)' <=> Ordinary(t))
      BY <1>1 DEF Holders, Ordinary
    <2> QED
      BY <2>1, <2>2, <2>3 DEF CountInv, CountAt
  <1> QED
    BY <1>2, <1>3

\* Removing a client counts as retiring it.
LEMMA CountRemoved ==
  ASSUME OwnerType, CountInv, NEW s, RemoveClient(s), UNCHANGED <<setup, bind, renewal, held>>
  PROVE  CountInv'
  <1>1. CASE client = s
    BY <1>1, CountRetired DEF RemoveClient, retireLocked
  <1>2. CASE client # s
    BY <1>2, CountKept DEF CountInv, CountAt, Holders, Ordinary, Renewing, RemoveClient, owner
  <1> QED
    BY <1>1, <1>2

\* Every step keeps the counts.
LEMMA CountStep ==
  ASSUME WeakTypeOK, WeakTypeOK', PlaceInv, PhaseInv, FreshInv, CountInv, [Next]_vars
  PROVE  CountInv'
  <1>0. /\ OwnerType /\ st \in [Sessions -> {"none", "active", "registered", "retired"}]
        /\ refs \in [Sessions -> Int] /\ drained \in [Sessions -> BOOLEAN]
        /\ setup \in [Sessions -> BOOLEAN] /\ bind \in [Sessions -> Bind]
        /\ renewal \in [Sessions \X Renewals -> Renewal] /\ renewal' \in [Sessions \X Renewals -> Renewal]
        /\ held \in [Sessions -> Nat] /\ held' \in [Sessions -> Nat] /\ 0 \notin Sessions
    BY DEF WeakTypeOK, OwnerType, InvocationType, CallType, Sessions
  <1>1. ASSUME UNCHANGED <<st, refs, drained, setup, bind, renewal, held>>
        PROVE  CountInv'
    BY <1>1 DEF CountInv, CountAt, Holders, Ordinary, Renewing
  \* The handler.
  <1>2. ASSUME NEW s \in Sessions, Publish(s) PROVE CountInv'
    <2>1. ASSUME NEW t \in Sessions PROVE Renewing(t)' = Renewing(t)
      BY <1>2 DEF Publish, calls, Renewing
    <2>2. st[s] = "none"
      BY <1>2 DEF Publish, PlaceInv, OwnerPlace
    <2>3. CountAt(s)'
      <3>1. held[s] = 0 /\ Renewing(s) = {} /\ bind[s] # "confirmed" /\ ~ drained[s]
        BY <1>0, <2>2 DEF CountInv, CountAt, Ordinary
      <3>2. held'[s] = 0 /\ Renewing(s)' = {} /\ bind'[s] # "confirmed"
        BY <1>2, <3>1, <2>1 DEF Publish, calls
      <3>3. refs'[s] = 1 /\ setup'[s] = TRUE /\ st'[s] = "active"
        BY <1>0, <1>2 DEF Publish, Retired
      <3>4. ~ drained'[s]
        BY <1>0, <1>2, <2>2, <3>1 DEF Publish, Drained, PlaceInv, OwnerPlace
      <3>5. Cardinality(Renewing(s)') = 0
        BY <3>2, FS_EmptySet
      <3> QED
        BY <3>2, <3>3, <3>4, <3>5 DEF CountAt, Holders, Ordinary
    <2>4. ASSUME NEW t \in Sessions, t # s, t # client PROVE CountAt(t)'
      <3>1. /\ st'[t] = st[t] /\ refs'[t] = refs[t] /\ drained'[t] = drained[t]
            /\ held'[t] = held[t] /\ setup'[t] = setup[t] /\ bind'[t] = bind[t]
        BY <1>0, <1>2, <2>4 DEF Publish, Retired, Drained, calls
      <3> QED
        BY <2>1, <3>1, CountKept DEF CountInv
    <2>5. ASSUME NEW t \in Sessions, t # s, t = client PROVE CountAt(t)'
      <3>1. /\ st'[t] = "retired" /\ refs'[t] = refs[t] /\ (drained'[t] <=> drained[t] \/ refs[t] = 0)
            /\ held'[t] = held[t] /\ setup'[t] = setup[t] /\ bind'[t] = bind[t]
        BY <1>0, <1>2, <2>5 DEF Publish, Retired, Drained, calls
      <3>2. Holders(t)' = Holders(t) /\ (Ordinary(t)' <=> Ordinary(t))
        BY <2>1, <3>1 DEF Holders, Ordinary
      <3> QED
        BY <3>1, <3>2 DEF CountInv, CountAt
    <2> QED
      BY <2>3, <2>4, <2>5 DEF CountInv
  <1>3. ASSUME NEW s \in Sessions, MarkRegistered(s) PROVE CountInv'
    <2>1. ASSUME NEW t \in Sessions PROVE Renewing(t)' = Renewing(t)
      BY <1>3 DEF MarkRegistered, calls, Renewing
    <2>2. CASE UNCHANGED <<st, refs, setup>>
      BY <1>3, <2>2, <1>1 DEF MarkRegistered, calls
    <2>3. CASE /\ st[s] = "active" /\ st' = [st EXCEPT ![s] = "registered"]
               /\ refs' = [refs EXCEPT ![s] = @ - 1] /\ setup' = [setup EXCEPT ![s] = FALSE]
      <3>1. setup[s] = TRUE
        BY <1>0, <1>3 DEF MarkRegistered, PlaceInv, SetupPlace
      <3>2. UNCHANGED <<held, bind, drained>>
        BY <1>3 DEF MarkRegistered, calls
      <3>3. CountAt(s)'
        <4>1. Cardinality(Renewing(s)) \in Nat /\ held[s] \in Nat
          BY <1>0, RenewingFinite
        <4>2. Holders(s)' = Holders(s) - 1
          BY <1>0, <2>1, <2>3, <3>1, <3>2, <4>1 DEF Holders
        <4>3. refs'[s] = refs[s] - 1 /\ st'[s] = "registered" /\ ~ drained'[s]
          BY <1>0, <2>3, <3>2 DEF CountInv, CountAt
        <4> QED
          BY <4>2, <4>3 DEF CountInv, CountAt
      <3>4. ASSUME NEW t \in Sessions, t # s PROVE CountAt(t)'
        BY <1>0, <2>1, <2>3, <3>2, <3>4, CountKept DEF CountInv
      <3> QED
        BY <3>3, <3>4 DEF CountInv
    <2> QED
      BY <1>3, <2>2, <2>3 DEF MarkRegistered
  <1>4. ASSUME NEW s \in Sessions, Abandons(s) \/ Leave(s) PROVE CountInv'
    BY <1>0, <1>4, CountRemoved DEF Abandons, Leave, calls
  <1>5. ASSUME NEW s \in Sessions, Join(s) PROVE CountInv'
    <2>1. ASSUME NEW t \in Sessions PROVE Renewing(t)' = Renewing(t)
      BY <1>5 DEF Join, calls, Renewing
    <2>2. UNCHANGED <<held, bind>> /\ setup' = [setup EXCEPT ![s] = FALSE]
      BY <1>5 DEF Join, calls
    <2>3. CASE ~ setup[s]
      <3>1. setup' = setup /\ UNCHANGED <<st, refs, drained>>
        BY <1>0, <1>5, <2>3 DEF Join, owner
      <3> QED
        BY <1>5, <3>1, <1>1 DEF Join, calls
    <2>4. CASE setup[s]
      <3>1. Finishes(s)
        BY <1>5, <2>4 DEF Join
      <3>2. CountAt(s)'
        <4>1. Cardinality(Renewing(s)) \in Nat /\ held[s] \in Nat
          BY <1>0, RenewingFinite
        <4>2. Holders(s)' = Holders(s) - 1
          BY <1>0, <2>1, <2>2, <2>4, <4>1 DEF Holders
        <4>3. Ordinary(s)' => Ordinary(s)
          BY <2>1, <2>2 DEF Ordinary
        <4> QED
          BY <1>0, <2>2, <3>1, <4>1, <4>2, <4>3, CountFinished DEF CountInv
      <3>3. ASSUME NEW t \in Sessions, t # s PROVE CountAt(t)'
        BY <1>0, <2>1, <2>2, <3>1, <3>3, CountKept DEF CountInv, Finishes
      <3> QED
        BY <3>2, <3>3 DEF CountInv
    <2> QED
      BY <2>3, <2>4
  \* The requests.
  <1>6. ASSUME NEW s \in Sessions, Confirm(s) \/ ConfirmAnswer(s) PROVE CountInv'
    <2>1. ASSUME NEW t \in Sessions PROVE Renewing(t)' = Renewing(t)
      BY <1>6 DEF Confirm, ConfirmAnswer, Binds, Renewing
    <2>2. UNCHANGED <<held, setup>>
      BY <1>6 DEF Confirm, ConfirmAnswer, Binds, invocation
    <2>3. Cardinality(Renewing(s)) \in Nat /\ held[s] \in Nat /\ held'[s] \in Nat
      BY <1>0, RenewingFinite
    <2>4. Ordinary(s)' <=> Ordinary(s)
      BY <2>1, <2>2 DEF Ordinary
    <2>5. CASE Confirm(s)
      <3>1. bind[s] = "sent" /\ bind'[s] = "confirmed" /\ Active(s) /\ Reserves(s)
        BY <1>0, <2>5 DEF Confirm, Binds
      <3>2. Holders(s)' = Holders(s) + 1
        BY <2>1, <2>2, <2>3, <3>1 DEF Holders
      <3> QED
        <4>1. CountAt(s)'
          BY <1>0, <2>3, <2>4, <3>1, <3>2, CountReserved DEF CountInv, Active
        <4>2. ASSUME NEW t \in Sessions, t # s PROVE CountAt(t)'
          BY <1>0, <2>1, <2>2, <2>5, <4>2, CountKept DEF CountInv, Confirm, Binds, Reserves
        <4> QED
          BY <4>1, <4>2 DEF CountInv
    <2>6. CASE ConfirmAnswer(s)
      <3>1. bind[s] = "confirmed" /\ bind'[s] # "confirmed" /\ Finishes(s)
        BY <1>0, <2>6 DEF ConfirmAnswer, Binds
      <3>2. Holders(s)' = Holders(s) - 1
        BY <2>1, <2>2, <2>3, <3>1 DEF Holders
      <3> QED
        <4>1. CountAt(s)'
          BY <1>0, <2>3, <2>4, <3>1, <3>2, CountFinished DEF CountInv
        <4>2. ASSUME NEW t \in Sessions, t # s PROVE CountAt(t)'
          BY <1>0, <2>1, <2>2, <2>6, <4>2, CountKept DEF CountInv, ConfirmAnswer, Binds, Finishes
        <4> QED
          BY <4>1, <4>2 DEF CountInv
    <2> QED
      BY <1>6, <2>5, <2>6
  <1>7. ASSUME NEW s \in Sessions, AdmitMutation(s) \/ Fork(s) \/ Finish(s) PROVE CountInv'
    <2>1. ASSUME NEW t \in Sessions PROVE Renewing(t)' = Renewing(t)
      BY <1>7 DEF AdmitMutation, Fork, Finish, Renewing
    <2>2. UNCHANGED <<setup, bind>>
      BY <1>7 DEF AdmitMutation, Fork, Finish, invocation
    <2>3. Cardinality(Renewing(s)) \in Nat /\ held[s] \in Nat /\ held'[s] \in Nat
      BY <1>0, RenewingFinite
    <2>4. CASE AdmitMutation(s) \/ Fork(s)
      <3>1. held'[s] = held[s] + 1 /\ Reserves(s) /\ (held[s] > 0 \/ st[s] = "registered")
        BY <1>0, <2>4 DEF AdmitMutation, Fork, Available
      <3>2. Holders(s)' = Holders(s) + 1 /\ (held[s] > 0 => Holders(s) > 0)
        BY <2>1, <2>2, <2>3, <3>1 DEF Holders
      <3>3. (Ordinary(s) \/ st[s] = "registered") /\ st[s] # "none"
        BY <3>1 DEF Ordinary, CountInv, CountAt
      <3>4. CountAt(s)'
        BY <1>0, <2>3, <3>1, <3>2, <3>3, CountReserved DEF CountInv
      <3>5. ASSUME NEW t \in Sessions, t # s PROVE CountAt(t)'
        BY <1>0, <2>1, <2>2, <2>4, <3>5, CountKept DEF CountInv, AdmitMutation, Fork, Reserves
      <3> QED
        BY <3>4, <3>5 DEF CountInv
    <2>5. CASE Finish(s)
      <3>1. held'[s] = held[s] - 1 /\ Finishes(s) /\ held[s] > 0
        BY <1>0, <2>5 DEF Finish
      <3>2. Holders(s)' = Holders(s) - 1
        BY <2>1, <2>2, <2>3, <3>1 DEF Holders
      <3>3. Ordinary(s)
        BY <3>1 DEF Ordinary
      <3>4. CountAt(s)'
        BY <1>0, <2>2, <2>3, <3>1, <3>2, <3>3, CountFinished DEF CountInv
      <3>5. ASSUME NEW t \in Sessions, t # s PROVE CountAt(t)'
        BY <1>0, <2>1, <2>2, <2>5, <3>5, CountKept DEF CountInv, Finish, Finishes
      <3> QED
        BY <3>4, <3>5 DEF CountInv
    <2> QED
      BY <1>7, <2>4, <2>5
  \* The renewals.
  <1>8. ASSUME NEW s \in Sessions, NEW q \in Renewals, RenewStep(s, q) PROVE CountInv'
    <2>1. PICK r : renewal' = [renewal EXCEPT ![<<s, q>>] = r] /\ UNCHANGED <<bind, held, setup>>
      BY <1>8 DEF RenewStep, RenewAdmitted, ProbeSession, CommitLease, RenewFails, Renews, invocation
    <2>2. ASSUME NEW t \in Sessions, t # s PROVE Renewing(t)' = Renewing(t)
      BY <1>0, <2>1, <2>2, RenewingSame
    <2>3. Cardinality(Renewing(s)) \in Nat /\ held[s] \in Nat /\ held'[s] \in Nat
      BY <1>0, RenewingFinite
    <2>4. ASSUME NEW t \in Sessions, t # s, Reserves(s) \/ Finishes(s) \/ UNCHANGED owner
          PROVE  CountAt(t)'
      BY <1>0, <2>1, <2>2, <2>4, CountKept DEF CountInv, Reserves, Finishes, owner
    <2>5. CASE RenewAdmitted(s, q)
      <3>1. /\ renewal[<<s, q>>] = "sent" /\ renewal'[<<s, q>>] = "probing"
            /\ Reserves(s) /\ st[s] = "registered"
        BY <1>0, <2>5 DEF RenewAdmitted, Renews, Available
      <3>2. q \notin Renewing(s) /\ Renewing(s)' = Renewing(s) \cup {q}
        BY <1>0, <2>1, <3>1 DEF Renewing
      <3>3. Cardinality(Renewing(s)') = Cardinality(Renewing(s)) + 1
        BY <3>2, RenewingAdds
      <3>4. Holders(s)' = Holders(s) + 1
        BY <2>1, <2>3, <3>3 DEF Holders
      <3>5. CountAt(s)'
        BY <1>0, <2>3, <3>1, <3>4, CountReserved DEF CountInv
      <3> QED
        BY <2>4, <3>1, <3>5 DEF CountInv
    <2>6. CASE /\ renewal[<<s, q>>] \in {"probing", "probed"}
               /\ renewal'[<<s, q>>] \notin {"probing", "probed"} /\ Finishes(s)
      <3>1. q \in Renewing(s) /\ Renewing(s)' = Renewing(s) \ {q}
        BY <1>0, <2>1, <2>6 DEF Renewing
      <3>2. Cardinality(Renewing(s)') = Cardinality(Renewing(s)) - 1
        BY <3>1, RenewingDrops
      <3>3. Holders(s)' = Holders(s) - 1
        BY <2>1, <2>3, <3>2 DEF Holders
      <3>4. Ordinary(s)
        BY <3>1 DEF Ordinary
      <3>5. CountAt(s)'
        BY <1>0, <2>1, <2>3, <2>6, <3>3, <3>4, CountFinished DEF CountInv
      <3> QED
        BY <2>4, <2>6, <3>5 DEF CountInv
    <2>7. CASE /\ renewal[<<s, q>>] \in {"probing", "probed"} <=> renewal'[<<s, q>>] \in {"probing", "probed"}
               /\ UNCHANGED owner
      <3>1. Renewing(s)' = Renewing(s)
        BY <1>0, <2>1, <2>7, RenewingSame
      <3>2. CountAt(s)'
        BY <2>1, <2>7, <3>1, CountKept DEF CountInv, owner
      <3> QED
        BY <2>4, <2>7, <3>2 DEF CountInv
    <2>8. CASE ProbeSession(s, q) \/ CommitLease(s, q) \/ RenewFails(s, q)
      <3>1. <<s, q>> \in Sessions \X Renewals
        OBVIOUS
      <3> QED
        BY <1>0, <2>6, <2>7, <2>8, <3>1 DEF ProbeSession, CommitLease, RenewFails, Renews, owner
    <2> QED
      BY <1>8, <2>5, <2>8 DEF RenewStep
  <1>9. ASSUME NEW s \in Sessions, RenewSend(s) \/ RenewReturns(s) \/ Stop(s) PROVE CountInv'
    <2>1. UNCHANGED <<st, refs, drained, setup, held>>
      BY <1>9 DEF RenewSend, RenewReturns, Stop, owner, invocation
    <2>2. ASSUME NEW t \in Sessions PROVE bind'[t] = "confirmed" <=> bind[t] = "confirmed"
      BY <1>0, <1>9 DEF RenewSend, RenewReturns, Stop
    <2>3. ASSUME NEW t \in Sessions PROVE Renewing(t)' = Renewing(t)
      <3>1. CASE RenewSend(s)
        <4>1. sent[s] \in Nat /\ sent[s] + 1 \in Renewals
          BY <3>1, SessionAssumption DEF RenewSend, WeakTypeOK, ExecutorType, CallType, Renewals
        <4>2. renewal[<<s, sent[s] + 1>>] = "none"
          BY <3>1, <4>1 DEF RenewSend, Leased, FreshInv
        <4> QED
          BY <1>0, <3>1, <4>1, <4>2, RenewingSame DEF RenewSend
      <3>2. CASE RenewReturns(s)
        BY <1>0, <3>2, RenewingSame DEF RenewReturns
      <3>3. CASE Stop(s)
        BY <1>0, <3>3, RenewingSame DEF Stop
      <3> QED
        BY <1>9, <3>1, <3>2, <3>3
    <2> QED
      BY <2>1, <2>2, <2>3, CountKept DEF CountInv
  <1>10. ASSUME NEW s \in Sessions, ConfirmRefused(s) \/ BindSent(s) \/ Negotiated(s) PROVE CountInv'
    <2>1. UNCHANGED <<st, refs, drained, setup, held, renewal>>
      BY <1>10 DEF ConfirmRefused, BindSent, Negotiated, Binds, owner, invocation
    <2>2. ASSUME NEW t \in Sessions PROVE bind'[t] = "confirmed" <=> bind[t] = "confirmed"
      BY <1>0, <1>10 DEF ConfirmRefused, BindSent, Negotiated, Binds, PhaseInv
    <2>3. ASSUME NEW t \in Sessions PROVE Renewing(t)' = Renewing(t)
      BY <2>1 DEF Renewing
    <2> QED
      BY <2>1, <2>2, <2>3, CountKept DEF CountInv
  \* The ends of owners.
  <1>11. ASSUME NEW s \in Sessions, ExpireOwner(s) \/ ExpiryRemoves(s) PROVE CountInv'
    BY <1>0, <1>11, CountRetired, CountRemoved DEF ExpireOwner, ExpiryRemoves, calls, invocation
  <1>12. CASE Close \/ CloseTransport
    BY <1>0, <1>1, <1>12, CountRetired, CountRemoved DEF Close, CloseTransport, calls, invocation, owner
  <1>13. ASSUME NEW s \in Sessions,
                \/ Hello(s) \/ HelloFails(s) \/ waitPredecessors(s) \/ Interrupted(s)
                \/ OnExecutorConnected(s) \/ OnExecutorDisconnected(s) \/ Forget(s)
         PROVE  CountInv'
    BY <1>1, <1>13
    DEF Hello, HelloFails, waitPredecessors, Interrupted, OnExecutorConnected,
        OnExecutorDisconnected, Forget, Unbinding, calls, owner
  <1>14. CASE Administer \/ Tick \/ UNCHANGED vars
    BY <1>1, <1>14 DEF Administer, Tick, vars, owner, invocation, calls
  <1> QED
    BY <1>2, <1>3, <1>4, <1>5, <1>6, <1>7, <1>8, <1>9, <1>10, <1>11, <1>12, <1>13, <1>14
    DEF Next, HandlerStep, ConfirmStep, Watch, ConnLost

\* A step that only finishes work keeps what is known of the owners.
LEMMA SerialKept ==
  ASSUME PredsInv, AloneInv, UNCHANGED <<st, client, preds, handler>>,
         \A t \in Sessions : drained[t] => drained'[t]
  PROVE  PredsInv' /\ AloneInv'
  BY DEF PredsInv, AloneInv, Active

\* Every step keeps the undrained owners where the next one looks for them, and lets an
\* owner register only when it is alone.
LEMMA SerialStep ==
  ASSUME WeakTypeOK, PlaceInv, PredsInv, AloneInv, [Next]_vars
  PROVE  PredsInv' /\ AloneInv'
  <1> USE DEF owner, transport, invocation
  <1>0. /\ st \in [Sessions -> {"none", "active", "registered", "retired"}]
        /\ drained \in [Sessions -> BOOLEAN] /\ handler \in [Sessions -> Handler]
        /\ 0 \notin Sessions
    BY DEF WeakTypeOK, OwnerType, InvocationType, Sessions
  <1>1. ASSUME NEW s \in Sessions, Hello(s) PROVE PredsInv' /\ AloneInv'
    <2>1. PredsInv'
      BY <1>0, <1>1 DEF Hello, At, PredsInv, PlaceInv, OwnerPlace, Active
    <2>2. AloneInv'
      BY <1>0, <1>1 DEF Hello, At, PredsInv, AloneInv, PlaceInv, OwnerPlace, Active
    <2> QED
      BY <2>1, <2>2
  <1>2. ASSUME NEW s \in Sessions, HelloFails(s) PROVE PredsInv' /\ AloneInv'
    <2>1. PredsInv'
      BY <1>0, <1>2 DEF HelloFails, At, Unbinding, PredsInv, PlaceInv, OwnerPlace, Active
    <2>2. AloneInv'
      BY <1>0, <1>2 DEF HelloFails, At, Unbinding, PredsInv, AloneInv, PlaceInv, OwnerPlace, Active
    <2> QED
      BY <2>1, <2>2
  <1>3. ASSUME NEW s \in Sessions, Publish(s) PROVE PredsInv' /\ AloneInv'
    <2>1. PredsInv'
      BY <1>0, <1>3 DEF Publish, At, Retired, Drained, NoLease, PredsInv, PlaceInv, OwnerPlace, Active
    <2>2. AloneInv'
      BY <1>0, <1>3 DEF Publish, At, Retired, Drained, NoLease, PredsInv, AloneInv, PlaceInv, OwnerPlace, Active
    <2> QED
      BY <2>1, <2>2
  <1>4. ASSUME NEW s \in Sessions, waitPredecessors(s) PROVE PredsInv' /\ AloneInv'
    <2>1. PredsInv'
      BY <1>0, <1>4 DEF waitPredecessors, At, PredsInv, PlaceInv, OwnerPlace, Active
    <2>2. AloneInv'
      BY <1>0, <1>4 DEF waitPredecessors, At, PredsInv, AloneInv, PlaceInv, OwnerPlace, Active
    <2> QED
      BY <2>1, <2>2
  <1>5. ASSUME NEW s \in Sessions, Interrupted(s) PROVE PredsInv' /\ AloneInv'
    <2>1. PredsInv'
      BY <1>0, <1>5 DEF Interrupted, At, PredsInv, PlaceInv, OwnerPlace, Active
    <2>2. AloneInv'
      BY <1>0, <1>5 DEF Interrupted, At, PredsInv, AloneInv, PlaceInv, OwnerPlace, Active
    <2> QED
      BY <2>1, <2>2
  <1>6. ASSUME NEW s \in Sessions, OnExecutorConnected(s) PROVE PredsInv' /\ AloneInv'
    <2>1. PredsInv'
      BY <1>0, <1>6 DEF OnExecutorConnected, At, Unbinding, PredsInv, PlaceInv, OwnerPlace, Active
    <2>2. AloneInv'
      BY <1>0, <1>6 DEF OnExecutorConnected, At, Unbinding, PredsInv, AloneInv, PlaceInv, OwnerPlace, Active
    <2> QED
      BY <2>1, <2>2
  <1>7. ASSUME NEW s \in Sessions, MarkRegistered(s) PROVE PredsInv' /\ AloneInv'
    <2>1. PredsInv'
      BY <1>0, <1>7 DEF MarkRegistered, At, PredsInv, PlaceInv, OwnerPlace, Active
    <2>2. AloneInv'
      BY <1>0, <1>7 DEF MarkRegistered, At, PredsInv, AloneInv, PlaceInv, OwnerPlace, Active
    <2> QED
      BY <2>1, <2>2
  <1>8. ASSUME NEW s \in Sessions, Abandons(s) PROVE PredsInv' /\ AloneInv'
    <2>1. PredsInv'
      BY <1>0, <1>8 DEF Abandons, RemoveClient, retireLocked, Retires, Retired, Drained, NoLease, PredsInv, PlaceInv, OwnerPlace, Active
    <2>2. AloneInv'
      BY <1>0, <1>8 DEF Abandons, RemoveClient, retireLocked, Retires, Retired, Drained, NoLease, PredsInv, AloneInv, PlaceInv, OwnerPlace, Active
    <2> QED
      BY <2>1, <2>2
  <1>9. ASSUME NEW s \in Sessions, Leave(s) PROVE PredsInv' /\ AloneInv'
    <2>1. PredsInv'
      BY <1>0, <1>9 DEF Leave, RemoveClient, retireLocked, Retires, Retired, Drained, NoLease, PredsInv, PlaceInv, OwnerPlace, Active
    <2>2. AloneInv'
      BY <1>0, <1>9 DEF Leave, RemoveClient, retireLocked, Retires, Retired, Drained, NoLease, PredsInv, AloneInv, PlaceInv, OwnerPlace, Active
    <2> QED
      BY <2>1, <2>2
  <1>10. ASSUME NEW s \in Sessions, Join(s) PROVE PredsInv' /\ AloneInv'
    <2>1. PredsInv'
      BY <1>0, <1>10 DEF Join, At, Finishes, PredsInv, PlaceInv, OwnerPlace, Active
    <2>2. AloneInv'
      BY <1>0, <1>10 DEF Join, At, Finishes, PredsInv, AloneInv, PlaceInv, OwnerPlace, Active
    <2> QED
      BY <2>1, <2>2
  <1>11. ASSUME NEW s \in Sessions, OnExecutorDisconnected(s) PROVE PredsInv' /\ AloneInv'
    <2>1. PredsInv'
      BY <1>0, <1>11 DEF OnExecutorDisconnected, At, Unbinding, PredsInv, PlaceInv, OwnerPlace, Active
    <2>2. AloneInv'
      BY <1>0, <1>11 DEF OnExecutorDisconnected, At, Unbinding, PredsInv, AloneInv, PlaceInv, OwnerPlace, Active
    <2> QED
      BY <2>1, <2>2
  <1>12. ASSUME NEW s \in Sessions, Forget(s) PROVE PredsInv' /\ AloneInv'
    <2>1. PredsInv'
      BY <1>0, <1>12 DEF Forget, At, Unbinding, PredsInv, PlaceInv, OwnerPlace, Active
    <2>2. AloneInv'
      BY <1>0, <1>12 DEF Forget, At, Unbinding, PredsInv, AloneInv, PlaceInv, OwnerPlace, Active
    <2> QED
      BY <2>1, <2>2
  <1>13. ASSUME NEW s \in Sessions, ExpireOwner(s) PROVE PredsInv' /\ AloneInv'
    <2>1. PredsInv'
      BY <1>0, <1>13 DEF ExpireOwner, Retires, Retired, Drained, PredsInv, PlaceInv, OwnerPlace, Active
    <2>2. AloneInv'
      BY <1>0, <1>13 DEF ExpireOwner, Retires, Retired, Drained, PredsInv, AloneInv, PlaceInv, OwnerPlace, Active
    <2> QED
      BY <2>1, <2>2
  <1>14. ASSUME NEW s \in Sessions, ExpiryRemoves(s) PROVE PredsInv' /\ AloneInv'
    <2>1. PredsInv'
      BY <1>0, <1>14 DEF ExpiryRemoves, RemoveClient, retireLocked, Retires, Retired, Drained, NoLease, PredsInv, PlaceInv, OwnerPlace, Active
    <2>2. AloneInv'
      BY <1>0, <1>14 DEF ExpiryRemoves, RemoveClient, retireLocked, Retires, Retired, Drained, NoLease, PredsInv, AloneInv, PlaceInv, OwnerPlace, Active
    <2> QED
      BY <2>1, <2>2
  <1>15. CASE Close
    <2>1. PredsInv'
      BY <1>0, <1>15 DEF Close, Retires, Retired, Drained, EntryPlace, PredsInv, PlaceInv, OwnerPlace, Active
    <2>2. AloneInv'
      BY <1>0, <1>15 DEF Close, Retires, Retired, Drained, EntryPlace, PredsInv, AloneInv, PlaceInv, OwnerPlace, Active
    <2> QED
      BY <2>1, <2>2
  <1>16. CASE CloseTransport
    <2>1. PredsInv'
      BY <1>0, <1>16 DEF CloseTransport, RemoveClient, retireLocked, Retires, Retired, Drained, NoLease, PredsInv, PlaceInv, OwnerPlace, Active
    <2>2. AloneInv'
      BY <1>0, <1>16 DEF CloseTransport, RemoveClient, retireLocked, Retires, Retired, Drained, NoLease, PredsInv, AloneInv, PlaceInv, OwnerPlace, Active
    <2> QED
      BY <2>1, <2>2
  <1>17. ASSUME NEW s \in Sessions,
                 \/ BindSent(s) \/ ConfirmStep(s) \/ Negotiated(s) \/ RenewSend(s) \/ RenewReturns(s)
                 \/ Stop(s) \/ AdmitMutation(s) \/ Fork(s) \/ Finish(s)
                 \/ \E q \in Renewals : RenewStep(s, q)
          PROVE  PredsInv' /\ AloneInv'
    <2>1. UNCHANGED <<st, client, preds, handler>>
      BY <1>17
      DEF BindSent, ConfirmStep, Confirm, ConfirmRefused, ConfirmAnswer, Negotiated, RenewSend,
          RenewReturns, Stop, AdmitMutation, Fork, Finish, RenewStep, RenewAdmitted, ProbeSession,
          CommitLease, RenewFails, Reserves, Finishes
    <2>2. drained' = drained \/ Finishes(s)
      BY <1>17
      DEF BindSent, ConfirmStep, Confirm, ConfirmRefused, ConfirmAnswer, Negotiated, RenewSend,
          RenewReturns, Stop, AdmitMutation, Fork, Finish, RenewStep, RenewAdmitted, ProbeSession,
          CommitLease, RenewFails, Reserves
    <2>3. \A t \in Sessions : drained[t] => drained'[t]
      BY <1>0, <2>2 DEF Finishes
    <2> QED
      BY <2>1, <2>3, SerialKept
  <1>18. CASE Administer \/ Tick \/ UNCHANGED vars
    BY <1>18, SerialKept DEF Administer, Tick, vars
  <1> QED
    BY <1>1, <1>2, <1>3, <1>4, <1>5, <1>6, <1>7, <1>8, <1>9, <1>10, <1>11, <1>12, <1>13, <1>14, <1>15, <1>16, <1>17, <1>18
    DEF Next, HandlerStep, Watch, ConnLost

\* While one owner is registered, no other has ordinary work in flight.
LEMMA RegisteredAlone ==
  WeakTypeOK /\ PlaceInv /\ CountInv /\ AloneInv => RegisteredIsAlone
  <1> SUFFICES ASSUME WeakTypeOK, PlaceInv, CountInv, AloneInv,
                      NEW s \in Sessions, NEW t \in Sessions, s # t, st[s] = "registered"
               PROVE  ~ Ordinary(t)
    BY DEF RegisteredIsAlone
  <1>1. st[t] = "none" \/ drained[t]
    BY DEF PlaceInv, OwnerPlace, AloneInv, Active
  <1>2. CASE st[t] = "none"
    BY <1>2 DEF CountInv, CountAt
  <1>3. CASE drained[t]
    <2>1. Holders(t) = 0
      BY <1>3 DEF CountInv, CountAt
    <2>2. held[t] \in Nat /\ Cardinality(Renewing(t)) \in Nat
      BY RenewingFinite DEF WeakTypeOK, CallType
    <2>3. held[t] = 0 /\ Cardinality(Renewing(t)) = 0
      BY <2>1, <2>2 DEF Holders
    <2>4. Renewing(t) = {}
      BY <2>3, RenewingFinite, FS_EmptySet
    <2> QED
      BY <2>3, <2>4 DEF Ordinary
  <1> QED
    BY <1>1, <1>2, <1>3

\* Ordinary work starts on a registered owner only.
LEMMA OrdinaryStarts ==
  ASSUME WeakTypeOK, WeakTypeOK', FreshInv, [Next]_vars, NEW t \in Sessions, Ordinary(t)'
  PROVE  Ordinary(t) \/ st'[t] = "registered"
  <1>0. /\ renewal \in [Sessions \X Renewals -> Renewal] /\ held \in [Sessions -> Nat]
        /\ st \in [Sessions -> {"none", "active", "registered", "retired"}]
    BY DEF WeakTypeOK, CallType, OwnerType
  <1>1. ASSUME held'[t] = held[t], UNCHANGED renewal PROVE Ordinary(t)
    BY <1>1 DEF Ordinary, Renewing
  <1>2. ASSUME NEW s \in Sessions,
               \/ Hello(s) \/ HandlerStep(s) \/ Watch(s) \/ ConfirmStep(s) \/ BindSent(s)
               \/ Negotiated(s) \/ ConnLost(s) \/ ExpireOwner(s) \/ ExpiryRemoves(s)
        PROVE  UNCHANGED <<held, renewal>>
    BY <1>2
    DEF Hello, HandlerStep, HelloFails, Publish, waitPredecessors, Interrupted,
        OnExecutorConnected, MarkRegistered, Leave, Join, OnExecutorDisconnected, Forget, Watch,
        ConnLost, Abandons, ExpireOwner, ExpiryRemoves, ConfirmStep, Confirm, ConfirmRefused,
        ConfirmAnswer, Binds, BindSent, Negotiated, calls
  <1>3. ASSUME NEW s \in Sessions, AdmitMutation(s) \/ Fork(s) \/ Finish(s)
        PROVE  Ordinary(t) \/ st'[t] = "registered"
    <2>1. CASE t = s
      BY <1>0, <1>1, <1>3, <2>1 DEF AdmitMutation, Fork, Finish, Available, Reserves, Ordinary
    <2>2. CASE t # s
      BY <1>0, <1>1, <1>3, <2>2 DEF AdmitMutation, Fork, Finish
    <2> QED
      BY <2>1, <2>2
  <1>4. ASSUME NEW s \in Sessions, NEW q \in Renewals, RenewStep(s, q)
        PROVE  Ordinary(t) \/ st'[t] = "registered"
    <2>1. UNCHANGED <<held, st>>
      BY <1>4 DEF RenewStep, RenewAdmitted, ProbeSession, CommitLease, RenewFails, Renews,
                  Reserves, Finishes, owner
    <2>2. CASE t # s
      <3>1. Renewing(t)' = Renewing(t)
        BY <1>0, <1>4, <2>2, RenewingSame
        DEF RenewStep, RenewAdmitted, ProbeSession, CommitLease, RenewFails, Renews
      <3> QED
        BY <2>1, <3>1 DEF Ordinary
    <2>3. CASE t = s /\ RenewAdmitted(s, q)
      BY <2>1, <2>3 DEF RenewAdmitted, Available
    <2>4. CASE t = s /\ ProbeSession(s, q)
      <3>1. Renewing(t)' = Renewing(t)
        BY <1>0, <2>4, RenewingSame DEF ProbeSession, Renews
      <3> QED
        BY <2>1, <3>1 DEF Ordinary
    <2>5. CASE t = s /\ (CommitLease(s, q) \/ RenewFails(s, q))
      <3>1. Renewing(t)' \subseteq Renewing(t)
        BY <1>0, <2>5 DEF CommitLease, RenewFails, Renews, Renewing
      <3> QED
        BY <2>1, <3>1 DEF Ordinary
    <2> QED
      BY <1>4, <2>2, <2>3, <2>4, <2>5 DEF RenewStep
  <1>5. ASSUME NEW s \in Sessions, RenewSend(s) \/ RenewReturns(s) \/ Stop(s)
        PROVE  Ordinary(t)
    <2>1. UNCHANGED held
      BY <1>5 DEF RenewSend, RenewReturns, Stop
    <2>2. Renewing(t)' \subseteq Renewing(t)
      <3>1. CASE RenewSend(s)
        BY <1>0, <3>1 DEF RenewSend, Renewing
      <3>2. CASE RenewReturns(s)
        BY <1>0, <3>2 DEF RenewReturns, Renewing
      <3>3. CASE Stop(s)
        BY <1>0, <3>3 DEF Stop, Renewing
      <3> QED
        BY <1>5, <3>1, <3>2, <3>3
    <2> QED
      BY <2>1, <2>2 DEF Ordinary
  <1>6. CASE Close \/ CloseTransport \/ Administer \/ Tick \/ UNCHANGED vars
    BY <1>1, <1>6 DEF Close, CloseTransport, Administer, Tick, vars, calls
  <1> QED
    BY <1>1, <1>2, <1>3, <1>4, <1>5, <1>6 DEF Next

\* Every step keeps the ordinary work of two sessions apart.
LEMMA OrdinaryStep ==
  ASSUME WeakTypeOK, WeakTypeOK', FreshInv, OrdinaryWorkIsSerial, RegisteredIsAlone', [Next]_vars
  PROVE  OrdinaryWorkIsSerial'
  <1> SUFFICES ASSUME NEW s \in Sessions, NEW t \in Sessions, s # t, Ordinary(s)'
               PROVE  ~ Ordinary(t)' /\ ~ Available(t)'
    BY DEF OrdinaryWorkIsSerial
  <1>1. ~ Available(t)'
    BY DEF RegisteredIsAlone, Available
  <1>2. ASSUME Ordinary(t)' PROVE FALSE
    <2>1. (Ordinary(s) \/ st'[s] = "registered") /\ (Ordinary(t) \/ st'[t] = "registered")
      BY <1>2, OrdinaryStarts
    <2> QED
      BY <1>2, <2>1 DEF OrdinaryWorkIsSerial, RegisteredIsAlone
  <1> QED
    BY <1>1, <1>2

\* Neither the handlers, nor teardown, nor retirement, extend a lease.
LEMMA NothingGranted ==
  ASSUME WeakTypeOK, PlaceInv,
         \/ \E s \in Sessions :
              \/ HelloFails(s) \/ Publish(s) \/ waitPredecessors(s) \/ Interrupted(s)
              \/ OnExecutorConnected(s) \/ Abandons(s) \/ Leave(s) \/ Join(s)
              \/ OnExecutorDisconnected(s) \/ Forget(s) \/ ExpireOwner(s) \/ ExpiryRemoves(s)
              \/ ConfirmStep(s) \/ AdmitMutation(s) \/ Fork(s) \/ Finish(s)
         \/ Close \/ CloseTransport
  PROVE  GrantsNothing /\ UNCHANGED <<phase, until, awaited, offer, sent, renewal, probe, bound, cert>>
  <1>0. /\ st \in [Sessions -> {"none", "active", "registered", "retired"}]
        /\ deadline \in [Sessions -> 0..LeaseDuration]
        /\ lapsed \in [Sessions -> 0..(LeaseDuration + RequestTimeout - 1)]
    BY DEF WeakTypeOK, OwnerType, LeaseType
  <1>1. UNCHANGED <<phase, until, awaited, offer, sent, renewal, probe, bound, cert>>
    BY DEF HelloFails, Publish, waitPredecessors, Interrupted, OnExecutorConnected, Abandons,
           Leave, Join, OnExecutorDisconnected, Forget, ExpireOwner, ExpiryRemoves, ConfirmStep,
           Confirm, ConfirmRefused, ConfirmAnswer, Binds, AdmitMutation, Fork, Finish, Close,
           CloseTransport, calls, executor, enrolment
  <1>2. ASSUME UNCHANGED <<st, deadline, lapsed>> PROVE GrantsNothing
    BY <1>2 DEF GrantsNothing
  <1>3. ASSUME NEW t, Retires(t) PROVE GrantsNothing
    BY <1>0, <1>3 DEF GrantsNothing, Retires, Retired, NoLease
  <1>4. ASSUME NEW t, RemoveClient(t) PROVE GrantsNothing
    BY <1>2, <1>3, <1>4 DEF RemoveClient, retireLocked, owner, lease
  <1>5. ASSUME NEW s \in Sessions, Publish(s) PROVE GrantsNothing
    BY <1>0, <1>5 DEF GrantsNothing, Publish, Retired, NoLease, PlaceInv, OwnerPlace
  <1>6. ASSUME NEW s \in Sessions, Abandons(s) \/ Leave(s) \/ ExpireOwner(s) \/ ExpiryRemoves(s)
        PROVE  GrantsNothing
    BY <1>3, <1>4, <1>6 DEF Abandons, Leave, ExpireOwner, ExpiryRemoves
  <1>7. ASSUME Close \/ CloseTransport PROVE GrantsNothing
    BY <1>2, <1>3, <1>4, <1>7 DEF Close, CloseTransport, owner, lease
  <1>8. ASSUME NEW s \in Sessions,
               \/ HelloFails(s) \/ waitPredecessors(s) \/ Interrupted(s) \/ OnExecutorConnected(s)
               \/ Join(s) \/ OnExecutorDisconnected(s) \/ Forget(s)
        PROVE  GrantsNothing
    BY <1>2, <1>8
    DEF HelloFails, waitPredecessors, Interrupted, OnExecutorConnected, Join,
        OnExecutorDisconnected, Forget, Finishes, owner, lease
  <1>9. ASSUME NEW s \in Sessions, ConfirmStep(s) \/ AdmitMutation(s) \/ Fork(s) \/ Finish(s)
        PROVE  GrantsNothing
    BY <1>2, <1>9
    DEF ConfirmStep, Confirm, ConfirmRefused, ConfirmAnswer, AdmitMutation, Fork, Finish,
        Reserves, Finishes, owner, lease
  <1> QED
    BY <1>1, <1>5, <1>6, <1>7, <1>8, <1>9

\* Every step keeps the executor's deadlines within the dispatcher's.
LEMMA NestedStep ==
  ASSUME WeakTypeOK, WeakTypeOK', PlaceInv, PhaseInv, NestedInv, [Next]_vars
  PROVE  NestedInv'
  <1>0. /\ st \in [Sessions -> {"none", "active", "registered", "retired"}]
        /\ deadline \in [Sessions -> 0..LeaseDuration]
        /\ renewal \in [Sessions \X Renewals -> Renewal]
        /\ phase \in [Sessions -> {"none", "offered", "armed", "negotiated", "closed"}]
        /\ until \in [Sessions -> 0..LeaseDuration] /\ offer \in [Sessions -> 0..LeaseDuration]
        /\ sent \in [Sessions -> 0..MaxWork] /\ awaited \in [Sessions -> BOOLEAN]
        /\ LeaseDuration \in Nat
    BY SessionAssumption DEF WeakTypeOK, OwnerType, LeaseType, CallType, ExecutorType
  <1>1. ASSUME GrantsNothing, UNCHANGED <<phase, until, awaited, offer, sent, renewal>>
        PROVE  NestedInv'
    BY <1>1 DEF GrantsNothing, NestedInv
  <1>2. ASSUME NEW s \in Sessions, Hello(s) PROVE NestedInv'
    BY <1>0, <1>2 DEF Hello, NestedInv, PhaseInv, owner, lease, calls
  <1>3. ASSUME NEW s \in Sessions, MarkRegistered(s) PROVE NestedInv'
    BY <1>0, <1>3 DEF MarkRegistered, NestedInv, executor, calls
  <1>4. ASSUME NEW s \in Sessions, BindSent(s) \/ Negotiated(s) PROVE NestedInv'
    BY <1>0, <1>4 DEF BindSent, Negotiated, Binds, NestedInv, PhaseInv, owner, lease
  <1>5. ASSUME NEW s \in Sessions, RenewSend(s) PROVE NestedInv'
    <2>1. sent[s] + 1 \in Renewals
      BY <1>0, <1>5, SessionAssumption DEF RenewSend, WeakTypeOK, ExecutorType, CallType, Renewals
    <2> QED
      BY <1>0, <1>5, <2>1 DEF RenewSend, NestedInv, owner, lease
  <1>6. ASSUME NEW s \in Sessions, RenewReturns(s) PROVE NestedInv'
    BY <1>0, <1>6 DEF RenewReturns, Leased, NestedInv, owner, lease
  <1>7. ASSUME NEW s \in Sessions, Stop(s) PROVE NestedInv'
    BY <1>0, <1>7 DEF Stop, NestedInv, owner, lease
  <1>8. ASSUME NEW s \in Sessions, NEW q \in Renewals,
               RenewAdmitted(s, q) \/ ProbeSession(s, q) \/ RenewFails(s, q)
        PROVE  NestedInv'
    <2>1. UNCHANGED <<st, deadline, phase, until, awaited, offer, sent>>
      BY <1>8 DEF RenewAdmitted, ProbeSession, RenewFails, Reserves, Finishes, owner, lease, executor
    <2>2. \A p \in Sessions \X Renewals : renewal'[p] = "acked" => renewal[p] = "acked"
      BY <1>0, <1>8 DEF RenewAdmitted, ProbeSession, RenewFails, Renews
    <2> QED
      BY <2>1, <2>2 DEF NestedInv
  <1>9. ASSUME NEW s \in Sessions, NEW q \in Renewals, CommitLease(s, q) PROVE NestedInv'
    BY <1>0, <1>9 DEF CommitLease, Renews, Finishes, NestedInv, executor
  <1>10. CASE Tick
    BY <1>0, <1>10 DEF Tick, Less, NestedInv, owner
  <1>11. CASE Administer \/ UNCHANGED vars
    BY <1>11 DEF Administer, NestedInv, vars, owner, lease, calls, executor
  <1>12. ASSUME \/ \E s \in Sessions :
                    \/ HelloFails(s) \/ Publish(s) \/ waitPredecessors(s) \/ Interrupted(s)
                    \/ OnExecutorConnected(s) \/ Abandons(s) \/ Leave(s) \/ Join(s)
                    \/ OnExecutorDisconnected(s) \/ Forget(s) \/ ExpireOwner(s) \/ ExpiryRemoves(s)
                    \/ ConfirmStep(s) \/ AdmitMutation(s) \/ Fork(s) \/ Finish(s)
                \/ Close \/ CloseTransport
         PROVE  NestedInv'
    BY <1>1, <1>12, NothingGranted
  <1> QED
    BY <1>2, <1>3, <1>4, <1>5, <1>6, <1>7, <1>8, <1>9, <1>10, <1>11, <1>12
    DEF Next, HandlerStep, Watch, ConnLost, RenewStep

\* Every step keeps what a lapsed session can still gain within the bound.
LEMMA LapseStep ==
  ASSUME WeakTypeOK, WeakTypeOK', PlaceInv, PhaseInv, LapseInv, [Next]_vars
  PROVE  LapseInv'
  <1>0. /\ st \in [Sessions -> {"none", "active", "registered", "retired"}]
        /\ deadline \in [Sessions -> 0..LeaseDuration]
        /\ lapsed \in [Sessions -> 0..(LeaseDuration + RequestTimeout - 1)]
        /\ renewal \in [Sessions \X Renewals -> Renewal]
        /\ probe \in [Sessions \X Renewals -> 0..RequestTimeout]
        /\ phase \in [Sessions -> {"none", "offered", "armed", "negotiated", "closed"}]
        /\ cert \in [Sessions -> Certs \cup {0}]
        /\ LeaseDuration \in Nat /\ RequestTimeout \in Nat /\ RequestTimeout >= 1
    BY SessionAssumption
    DEF WeakTypeOK, OwnerType, LeaseType, CallType, ExecutorType, EnrolmentType
  <1>1. ASSUME GrantsNothing, UNCHANGED <<phase, renewal, probe, bound, cert>>
        PROVE  LapseInv'
    BY <1>1 DEF GrantsNothing, LapseInv, Enrolled
  <1>2. ASSUME NEW s \in Sessions, Hello(s) PROVE LapseInv'
    <2>1. ASSUME NEW t \in Sessions, st[t] = "registered" PROVE t < s /\ phase[t] = "closed"
      <3>1. phase[s] = "none" /\ (\A u \in Sessions : u < s => phase[u] = "closed")
        BY <1>2 DEF Hello
      <3>2. phase[t] # "none" /\ ~ (t > s)
        BY <2>1, <3>1 DEF PhaseInv
      <3>3. t \in Int /\ s \in Int
        BY DEF Sessions
      <3> QED
        BY <3>1, <3>2, <3>3
    <2> QED
      BY <1>0, <1>2, <2>1 DEF Hello, LapseInv, Enrolled, owner, lease, calls
  <1>3. ASSUME NEW s \in Sessions, MarkRegistered(s) PROVE LapseInv'
    BY <1>0, <1>3 DEF MarkRegistered, LapseInv, Enrolled, executor, calls, enrolment
  <1>4. ASSUME NEW s \in Sessions, BindSent(s) \/ Negotiated(s) PROVE LapseInv'
    BY <1>0, <1>4 DEF BindSent, Negotiated, Binds, LapseInv, Enrolled, owner, lease, enrolment
  <1>5. ASSUME NEW s \in Sessions, RenewSend(s) \/ RenewReturns(s) \/ Stop(s) PROVE LapseInv'
    <2>1. UNCHANGED <<st, deadline, lapsed, probe, bound, cert>>
      BY <1>5 DEF RenewSend, RenewReturns, Stop, owner, lease, enrolment
    <2>2. \A p \in Sessions \X Renewals :
            renewal'[p] \in {"probing", "probed"} => renewal'[p] = renewal[p]
      BY ZenonT(60), <1>0, <1>5 DEF RenewSend, RenewReturns, Stop
    <2>3. \A t \in Sessions : phase'[t] = phase[t] \/ phase'[t] = "closed"
      BY <1>0, <1>5 DEF RenewSend, RenewReturns, Stop
    <2> QED
      BY <2>1, <2>2, <2>3 DEF LapseInv, Enrolled
  <1>6. ASSUME NEW s \in Sessions, NEW q \in Renewals, RenewAdmitted(s, q) PROVE LapseInv'
    BY <1>0, <1>6
    DEF RenewAdmitted, Renews, Reserves, stillEnrolled, LapseInv, Enrolled, lease, enrolment, executor
  <1>7. ASSUME NEW s \in Sessions, NEW q \in Renewals, ProbeSession(s, q) PROVE LapseInv'
    BY <1>0, <1>7
    DEF ProbeSession, Renews, Leased, LapseInv, Enrolled, owner, lease, enrolment, executor
  <1>8. ASSUME NEW s \in Sessions, NEW q \in Renewals, CommitLease(s, q) PROVE LapseInv'
    BY <1>0, <1>8
    DEF CommitLease, Commits, Renews, Available, Finishes, LapseInv, Enrolled, enrolment, executor
  <1>9. ASSUME NEW s \in Sessions, NEW q \in Renewals, RenewFails(s, q) PROVE LapseInv'
    BY <1>0, <1>9
    DEF RenewFails, Renews, Finishes, LapseInv, Enrolled, owner, lease, enrolment, executor
  <1>10. CASE Administer
    BY <1>0, <1>10 DEF Administer, LapseInv, Enrolled, owner, calls, executor
  <1>11. CASE Tick
    BY <1>0, <1>11 DEF Tick, Less, Overdue, LapseInv, Enrolled, owner
  <1>12. CASE UNCHANGED vars
    BY <1>12 DEF LapseInv, Enrolled, vars, owner, lease, calls, enrolment, executor
  <1>13. ASSUME \/ \E s \in Sessions :
                    \/ HelloFails(s) \/ Publish(s) \/ waitPredecessors(s) \/ Interrupted(s)
                    \/ OnExecutorConnected(s) \/ Abandons(s) \/ Leave(s) \/ Join(s)
                    \/ OnExecutorDisconnected(s) \/ Forget(s) \/ ExpireOwner(s) \/ ExpiryRemoves(s)
                    \/ ConfirmStep(s) \/ AdmitMutation(s) \/ Fork(s) \/ Finish(s)
                \/ Close \/ CloseTransport
         PROVE  LapseInv'
    BY <1>1, <1>13, NothingGranted
  <1> QED
    BY <1>2, <1>3, <1>4, <1>5, <1>6, <1>7, <1>8, <1>9, <1>10, <1>11, <1>12, <1>13
    DEF Next, HandlerStep, Watch, ConnLost, RenewStep

-----------------------------------------------------------------------------
(* The inductive invariant, and what it says.  *)

IInv ==
  /\ WeakTypeOK /\ PlaceInv /\ PhaseInv /\ FreshInv /\ CountInv
  /\ PredsInv /\ AloneInv /\ OrdinaryWorkIsSerial /\ LaneKept
  /\ NestedInv /\ LapseInv

\* The lane is there while there is a current client.
LEMMA LaneStep ==
  ASSUME PlaceInv, PlaceInv', LaneKept, [Next]_vars
  PROVE  LaneKept'
  <1>0. current = client /\ current' = client'
    BY DEF PlaceInv
  <1>1. ASSUME UNCHANGED <<client, lane>> PROVE LaneKept'
    BY <1>1 DEF LaneKept
  <1>2. ASSUME NEW s, RemoveClient(s) PROVE LaneKept'
    BY <1>2 DEF RemoveClient, LaneKept
  <1>3. ASSUME NEW s \in Sessions, Publish(s) \/ Forget(s) PROVE LaneKept'
    BY <1>0, <1>3 DEF Publish, Forget, LaneIsKept, LaneKept
  <1>4. ASSUME NEW s \in Sessions, Abandons(s) \/ Leave(s) \/ ExpiryRemoves(s) PROVE LaneKept'
    BY <1>2, <1>4 DEF Abandons, Leave, ExpiryRemoves
  <1>5. CASE CloseTransport
    BY <1>1, <1>2, <1>5 DEF CloseTransport
  <1>6. ASSUME NEW s \in Sessions,
               \/ Hello(s) \/ HelloFails(s) \/ waitPredecessors(s) \/ Interrupted(s)
               \/ OnExecutorConnected(s) \/ MarkRegistered(s) \/ Join(s)
               \/ OnExecutorDisconnected(s) \/ ExpireOwner(s) \/ ConfirmStep(s)
        PROVE  UNCHANGED <<client, lane>>
    BY <1>6
    DEF Hello, HelloFails, waitPredecessors, Interrupted, OnExecutorConnected, MarkRegistered,
        Join, OnExecutorDisconnected, ExpireOwner, ConfirmStep, Confirm, ConfirmRefused,
        ConfirmAnswer, transport
  <1>7. ASSUME NEW s \in Sessions,
               \/ BindSent(s) \/ Negotiated(s) \/ RenewSend(s) \/ RenewReturns(s) \/ Stop(s)
               \/ AdmitMutation(s) \/ Fork(s) \/ Finish(s)
               \/ \E q \in Renewals : RenewStep(s, q)
        PROVE  UNCHANGED <<client, lane>>
    BY <1>7
    DEF BindSent, Negotiated, RenewSend, RenewReturns, Stop, AdmitMutation, Fork, Finish,
        RenewStep, RenewAdmitted, ProbeSession, CommitLease, RenewFails, transport
  <1>8. CASE Close \/ Administer \/ Tick \/ UNCHANGED vars
    BY <1>1, <1>8 DEF Close, Administer, Tick, vars, transport
  <1> QED
    BY <1>1, <1>3, <1>4, <1>5, <1>6, <1>7, <1>8 DEF Next, HandlerStep, Watch, ConnLost

\* The invariant holds initially ...
LEMMA InitIInv == Init => IInv
  <1> SUFFICES ASSUME Init PROVE IInv
    OBVIOUS
  <1> USE SessionAssumption DEF Init
  <1>1. WeakTypeOK
    <2>1. OwnerType /\ EnrolmentType
      BY DEF OwnerType, EnrolmentType
    <2>2. TransportType /\ DispatcherType
      BY DEF TransportType, DispatcherType
    <2>3. InvocationType
      BY DEF InvocationType, Handler
    <2>4. 0 \in 0..LeaseDuration /\ 0 \in 0..RequestTimeout /\ 0 \in 0..MaxWork
          /\ 0 \in 0..(LeaseDuration + RequestTimeout - 1) /\ 0 \in 0..(MaxWork + MaxForks)
      OBVIOUS
    <2>5. LeaseType
      BY <2>4 DEF LeaseType
    <2>6. CallType
      BY <2>4 DEF CallType, Bind, Renewal
    <2>7. ExecutorType
      BY <2>4 DEF ExecutorType
    <2> QED
      BY <2>1, <2>2, <2>3, <2>5, <2>6, <2>7 DEF WeakTypeOK
  <1>2. PlaceInv
    BY DEF PlaceInv, OwnerPlace, EntryPlace, SetupPlace, Active, Sessions
  <1>3. PhaseInv /\ FreshInv /\ PredsInv /\ AloneInv /\ LaneKept
    BY DEF PhaseInv, FreshInv, PredsInv, AloneInv, LaneKept, Active
  <1>4. ASSUME NEW s \in Sessions PROVE Renewing(s) = {} /\ ~ Ordinary(s) /\ Holders(s) = 0
    <2>1. Renewing(s) = {}
      BY DEF Renewing
    <2>2. Cardinality(Renewing(s)) = 0
      BY <2>1, FS_EmptySet
    <2> QED
      BY <2>1, <2>2 DEF Ordinary, Holders
  <1>5. CountInv /\ OrdinaryWorkIsSerial
    BY <1>4 DEF CountInv, CountAt, OrdinaryWorkIsSerial
  <1>6. NestedInv /\ LapseInv
    BY DEF NestedInv, LapseInv
  <1> QED
    BY <1>1, <1>2, <1>3, <1>5, <1>6 DEF IInv

\* ... and every step keeps it.
LEMMA IInvStep ==
  ASSUME IInv, [Next]_vars
  PROVE  IInv'
  <1> USE DEF IInv
  <1>1. WeakTypeOK'
    BY WeakTypeStep
  <1>2. PlaceInv'
    BY PlaceStep
  <1>3. PhaseInv'
    BY PhaseStep
  <1>4. FreshInv'
    BY FreshStep
  <1>5. CountInv'
    BY <1>1, CountStep
  <1>6. PredsInv' /\ AloneInv'
    BY SerialStep
  <1>7. RegisteredIsAlone'
    <2>1. (WeakTypeOK /\ PlaceInv /\ CountInv /\ AloneInv => RegisteredIsAlone)'
      BY RegisteredAlone, PTL
    <2> QED
      BY <1>1, <1>2, <1>5, <1>6, <2>1
  <1>8. OrdinaryWorkIsSerial'
    BY <1>1, <1>7, OrdinaryStep
  <1>9. LaneKept'
    BY <1>2, LaneStep
  <1>10. NestedInv'
    BY <1>1, NestedStep
  <1>11. LapseInv'
    BY <1>1, LapseStep
  <1> QED
    BY <1>1, <1>2, <1>3, <1>4, <1>5, <1>6, <1>8, <1>9, <1>10, <1>11

\* The inductive invariant holds of every behaviour.
THEOREM SessionInvariant == Spec => []IInv
  BY InitIInv, IInvStep, PTL DEF Spec

\* What the invariant says of the order of sessions.
LEMMA SerialFromIInv == IInv => SessionsAreSerial
  <1> SUFFICES ASSUME IInv PROVE SessionsAreSerial
    OBVIOUS
  <1> USE DEF IInv
  <1>1. refs \in [Sessions -> Nat]
    <2>1. ASSUME NEW s \in Sessions PROVE refs[s] \in Nat
      <3>1. held[s] \in Nat
        BY DEF WeakTypeOK, CallType
      <3>2. Holders(s) \in Nat
        BY <3>1, HoldersNat
      <3> QED
        BY <3>2 DEF CountInv, CountAt
    <2> QED
      BY <2>1 DEF WeakTypeOK, OwnerType
  <1>2. TypeOK
    BY <1>1 DEF TypeOK, WeakTypeOK, OwnerType, LeaseType, TransportType, InvocationType, CallType,
                DispatcherType, EnrolmentType, ExecutorType
  <1>3. DrainedIsExact
    BY DEF DrainedIsExact, CountInv, CountAt
  <1>4. RegisteredIsListed
    BY DEF RegisteredIsListed, PlaceInv, EntryPlace
  <1>5. LaneIsThere
    BY DEF LaneIsThere, LaneKept, Sessions
  <1> QED
    BY <1>2, <1>3, <1>4, <1>5 DEF SessionsAreSerial

\* What it says of leases.
LEMMA AuthorityFromIInv == IInv => AuthorityEnds
  <1> SUFFICES ASSUME IInv PROVE AuthorityEnds
    OBVIOUS
  <1>1. LeaseIsNested
    BY DEF IInv, LeaseIsNested, NestedInv
  <1>2. LapsedIsBounded
    BY SessionAssumption DEF IInv, LapsedIsBounded, LapseInv, Available, Overdue, WeakTypeOK, LeaseType
  <1> QED
    BY <1>1, <1>2 DEF AuthorityEnds

\* However many sessions of an executor ID overlap in their teardown, their ordinary work
\* never does, an owner has drained exactly when its last mutation is finished, the
\* registry lists who is registered, and a waiting session finds its lane.
THEOREM SessionsFollowOneAnother == Spec => []SessionsAreSerial
  BY SessionInvariant, SerialFromIInv, PTL

\* For any lease and any timeout within it, the executor's belief in its lease ends no
\* later than the dispatcher's grant, and a session without standing is not available a
\* lease and a probe later.
THEOREM AuthorityIsBounded == Spec => []AuthorityEnds
  BY SessionInvariant, AuthorityFromIInv, PTL

=============================================================================
