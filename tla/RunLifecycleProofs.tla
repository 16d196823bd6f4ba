------------------------ MODULE RunLifecycleProofs ------------------------
(***************************************************************************)
(* What the dispatcher records of a run is true of it, for any number of   *)
(* runs, submitters, sessions, cancellations and failures: an acknowledged *)
(* cancellation stopped the run, an observed exit is evidence, capacity is *)
(* held exactly while it may be used, and the records implement            *)
(* RunContract.  EndsArrive and CancellationReturns are liveness and stay  *)
(* with TLC.                                                               *)
(***************************************************************************)
EXTENDS RunLifecycle, TLAPS

-----------------------------------------------------------------------------
(* Types, in parts.  *)
RecordTypes ==
  /\ row \in [Runs -> States] /\ observed \in [Runs -> {"none", "zero", "failed"}]
  /\ binding \in [Runs -> Nat] /\ requested \in [Runs -> BOOLEAN]
  /\ attempted \in [Runs -> BOOLEAN] /\ acked \in [Runs -> BOOLEAN]
  /\ failure \in [Runs -> {"", "already_terminal", "original_binding_unavailable",
                           "executor_refused", "transport_outcome_unknown"}]
  /\ decided \in [Runs -> BOOLEAN] /\ reclaimed \in [Runs -> BOOLEAN]
AccountTypes ==
  order \in [Runs -> {"outstanding", "credited", "refunded"}] /\ txn \in {"paid", "refunded"}
MemoryTypes ==
  /\ floor \in [Runs -> BOOLEAN] /\ share \in [Runs -> BOOLEAN] /\ listed \subseteq Runs
  /\ serving \in BOOLEAN /\ base \in Nat
HandlerTypes ==
  /\ sub \in [Submitters -> {"idle", "refused", "uploading", "cleanup", "refunding", "done"}]
  /\ upload \in [Runs -> {"idle", "sent", "accepted", "ok", "refused", "unknown", "unsent"}]
  /\ hp \in [Actors \X Runs -> Phases] /\ seen \in [Actors \X Runs -> States]
  /\ answer \in [Actors \X Runs -> {"none", "ack", "notfound", "refused", "lost"}]
  /\ alloc \in [Runs -> {"idle", "asked", "checked", "granted", "denied"}]
  /\ updates \in [Runs -> SUBSET {"initializing", "started"}]
ExecTypes ==
  /\ posted \in [Runs -> BOOLEAN]
  /\ ex \in [Runs -> Executing \cup {"absent", "queued", "reporting", "gone"}]
  /\ stop \in [Runs -> BOOLEAN] /\ result \in [Runs -> {"none", "zero", "failed"}]
  /\ kept \in [Runs -> {"none", "yes", "unwritten", "released"}]
  /\ sending \in [Runs -> {"no", "sent", "failed"}]
WorldTypes ==
  /\ window \in {"open", "ended", "over"} /\ sess \in Nat /\ live \in BOOLEAN
  /\ cancels \in [Runs -> Nat] /\ unseen \subseteq Runs /\ mishaps \in Nat
TypeParts ==
  /\ RecordTypes /\ AccountTypes /\ MemoryTypes /\ HandlerTypes /\ ExecTypes /\ WorldTypes

-----------------------------------------------------------------------------
(* The batch is admitted whole, and before that nothing knows its runs.  *)
Untouched(r) ==
  /\ observed[r] = "none" /\ ~ decided[r] /\ ~ reclaimed[r] /\ ~ acked[r]
  /\ upload[r] = "idle" /\ updates[r] = {} /\ ~ posted[r] /\ ex[r] = "absent"
  /\ result[r] = "none" /\ \A a \in Actors : hp[<<a, r>>] = "idle"
BatchInv == \A r, s \in Runs : row[r] = "absent" => row[s] = "absent" /\ Untouched(r)
ListedInv == \A r \in listed : row[r] # "absent"
BindingInv == \A r \in Runs : binding[r] <= sess

(* One request owns the batch: it uploads it, and cleans up after a failure. *)
Owns(c) == sub[c] \in {"uploading", "cleanup"}
OwnerInv == \A c \in Submitters, r \in Runs : Owns(c) => row[r] # "absent"
OneOwner == \A c, d \in Submitters : Owns(c) /\ Owns(d) => c = d
UploadsFirst ==
  \A c \in Submitters, r \in Runs : sub[c] = "uploading" => hp[<<"cleanup", r>>] = "idle"
CleanupInv == (\E c \in Submitters : sub[c] = "cleanup") => \E r \in Runs : UploadFailed(r)

(* One result per run: what has one does not execute again.  *)
ResultInv ==
  \A r \in Runs :
    result[r] # "none" => ex[r] \in {"reporting", "gone"} \/ (ex[r] = "queued" /\ ~ Bound(r))
KeptInv == \A r \in Runs : kept[r] # "none" => result[r] # "none"
ReportInv == \A r \in Runs : \A a \in {"report", "late"} : hp[<<a, r>>] # "idle" => result[r] # "none"

(* What an answer proves. *)
RefusedInv == \A r \in Runs : upload[r] = "refused" => ex[r] = "absent" /\ ~ posted[r]
AnswerInv == \A r \in Runs : \A a \in Actors : answer[<<a, r>>] = "ack" => ex[r] = "gone"
CompleteInv ==
  \A r \in Runs : \A a \in Cancelling :
    hp[<<a, r>>] = "complete" => acked[r] \/ upload[r] = "refused"
EvidenceInv ==
  \A r \in Runs :
    /\ observed[r] = "zero" => result[r] = "zero"
    /\ observed[r] = "failed" => result[r] = "failed" \/ acked[r] \/ upload[r] = "refused"

(* The record of an end, and the handlers that rely on it. *)
DecisionInv ==
  \A r \in Runs :
    /\ decided[r] => row[r] = "exited" /\ observed[r] = "none"
    /\ observed[r] # "none" => row[r] = "exited"
SeenInv == \A r \in Runs : \A a \in Actors : seen[<<a, r>>] = "exited" => row[r] = "exited"
EndedInv ==
  \A r \in Runs : \A a \in Actors : hp[<<a, r>>] \in {"settle", "release", "ok"} => row[r] = "exited"
Success(r) == ~ decided[r] /\ observed[r] = "zero"
SettleInv ==
  \A r \in Runs : \A a \in Actors :
    hp[<<a, r>>] = "settle" => (Success(r) /\ code(a, r) = "zero") \/ (~ Success(r) /\ code(a, r) # "zero")

IInv ==
  /\ TypeParts
  /\ BatchInv /\ ListedInv /\ BindingInv
  /\ OwnerInv /\ OneOwner /\ UploadsFirst /\ CleanupInv
  /\ ResultInv /\ KeptInv /\ ReportInv
  /\ RefusedInv /\ AnswerInv /\ CompleteInv /\ EvidenceInv
  /\ DecisionInv /\ SeenInv /\ EndedInv /\ SettleInv
  /\ AcknowledgedMeansStopped /\ ReleasedIsRecorded /\ TerminalHoldsNothing
  /\ LiveRunsAreCounted /\ RefundedBatchFailed

-----------------------------------------------------------------------------
(* The step of one handler.  *)

\* The actors by name.
LEMMA ActorFacts ==
  /\ "report" \in Actors /\ "late" \in Actors /\ "client" \in Actors /\ "cleanup" \in Actors
  /\ \A a \in Cancelling : a \in Actors /\ a \notin {"report", "late"}
  BY DEF Actors, Cancelling

\* Only the handler of a for r moves, into one of the phases P.
Moves(a, r, P) ==
  \A b \in Actors, s \in Runs :
    hp'[<<b, s>>] = hp[<<b, s>>] \/ (b = a /\ s = r /\ hp'[<<b, s>>] \in P)

\* Nothing is due before admission once the batch is admitted.
LEMMA MoveBatch ==
  ASSUME \A s \in Runs : row'[s] # "absent"
  PROVE  BatchInv'
  BY DEF BatchInv

\* A cleanup that moves was already at work.
LEMMA MoveUploads ==
  ASSUME UploadsFirst, sub' = sub, NEW a \in Actors, NEW r \in Runs, NEW P, Moves(a, r, P),
         hp[<<a, r>>] # "idle"
  PROVE  UploadsFirst'
  BY ActorFacts DEF UploadsFirst, Moves

\* A report that moves has a result.
LEMMA MoveReport ==
  ASSUME ReportInv, result' = result, NEW a \in Actors, NEW r \in Runs, NEW P, Moves(a, r, P),
         hp[<<a, r>>] # "idle"
  PROVE  ReportInv'
  BY ZenonT(60), ActorFacts DEF ReportInv, Moves

\* A cancellation comes to its end with proof.
LEMMA MoveComplete ==
  ASSUME CompleteInv, upload' = upload, \A s \in Runs : acked[s] => acked'[s],
         NEW a \in Actors, NEW r \in Runs, NEW P, Moves(a, r, P),
         hp'[<<a, r>>] = "complete" => acked'[r] \/ upload[r] = "refused"
  PROVE  CompleteInv'
  BY ActorFacts DEF CompleteInv, Moves

\* A handler releases what has ended.
LEMMA MoveEnded ==
  ASSUME EndedInv, row' = row, NEW a \in Actors, NEW r \in Runs, NEW P, Moves(a, r, P),
         hp'[<<a, r>>] \in {"settle", "release", "ok"} => row[r] = "exited"
  PROVE  EndedInv'
  BY DEF EndedInv, Moves

\* No handler comes to settle.
LEMMA MoveSettle ==
  ASSUME SettleInv, decided' = decided, observed' = observed, result' = result,
         NEW a \in Actors, NEW r \in Runs, NEW P, Moves(a, r, P), hp'[<<a, r>>] # "settle"
  PROVE  SettleInv'
  BY DEF SettleInv, Success, code, Moves

\* The handler that moves was not closing.
LEMMA MoveTerminal ==
  ASSUME TerminalHoldsNothing, row' = row, reclaimed' = reclaimed, unseen' = unseen,
         floor' = floor, share' = share, NEW a \in Actors, NEW r \in Runs, NEW P, Moves(a, r, P),
         hp[<<a, r>>] \notin {"settle", "release"}
  PROVE  TerminalHoldsNothing'
  BY DEF TerminalHoldsNothing, Closing, Moves

-----------------------------------------------------------------------------
(* A step that leaves the variables of a conjunct alone keeps it.  *)

\* RecordTypes rests on these variables alone.
LEMMA RecordTypesUnchanged ==
  ASSUME RecordTypes, UNCHANGED <<row, observed, binding, requested, attempted, acked, failure, decided,
                      reclaimed>>
  PROVE  RecordTypes'
  BY DEF RecordTypes

\* AccountTypes rests on these variables alone.
LEMMA AccountTypesUnchanged ==
  ASSUME AccountTypes, UNCHANGED <<order, txn>>
  PROVE  AccountTypes'
  BY DEF AccountTypes

\* MemoryTypes rests on these variables alone.
LEMMA MemoryTypesUnchanged ==
  ASSUME MemoryTypes, UNCHANGED <<floor, share, listed, serving, base>>
  PROVE  MemoryTypes'
  BY DEF MemoryTypes

\* HandlerTypes rests on these variables alone.
LEMMA HandlerTypesUnchanged ==
  ASSUME HandlerTypes, UNCHANGED <<sub, upload, hp, seen, answer, alloc, updates>>
  PROVE  HandlerTypes'
  BY DEF HandlerTypes

\* ExecTypes rests on these variables alone.
LEMMA ExecTypesUnchanged ==
  ASSUME ExecTypes, UNCHANGED <<posted, ex, stop, result, kept, sending>>
  PROVE  ExecTypes'
  BY DEF ExecTypes

\* WorldTypes rests on these variables alone.
LEMMA WorldTypesUnchanged ==
  ASSUME WorldTypes, UNCHANGED <<window, sess, live, cancels, unseen, mishaps>>
  PROVE  WorldTypes'
  BY DEF WorldTypes

\* BatchInv rests on these variables alone.
LEMMA BatchInvUnchanged ==
  ASSUME BatchInv, UNCHANGED <<row, observed, decided, reclaimed, acked, upload, updates, posted, ex, result,
                      hp>>
  PROVE  BatchInv'
  BY DEF BatchInv, Untouched

\* ListedInv rests on these variables alone.
LEMMA ListedInvUnchanged ==
  ASSUME ListedInv, UNCHANGED <<listed, row>>
  PROVE  ListedInv'
  BY DEF ListedInv

\* BindingInv rests on these variables alone.
LEMMA BindingInvUnchanged ==
  ASSUME BindingInv, UNCHANGED <<binding, sess>>
  PROVE  BindingInv'
  BY DEF BindingInv

\* OwnerInv rests on these variables alone.
LEMMA OwnerInvUnchanged ==
  ASSUME OwnerInv, UNCHANGED <<sub, row>>
  PROVE  OwnerInv'
  BY DEF OwnerInv, Owns

\* OneOwner rests on these variables alone.
LEMMA OneOwnerUnchanged ==
  ASSUME OneOwner, UNCHANGED <<sub>>
  PROVE  OneOwner'
  BY DEF OneOwner, Owns

\* UploadsFirst rests on these variables alone.
LEMMA UploadsFirstUnchanged ==
  ASSUME UploadsFirst, UNCHANGED <<sub, hp>>
  PROVE  UploadsFirst'
  BY DEF UploadsFirst

\* CleanupInv rests on these variables alone.
LEMMA CleanupInvUnchanged ==
  ASSUME CleanupInv, UNCHANGED <<sub, upload>>
  PROVE  CleanupInv'
  BY DEF CleanupInv, UploadFailed

\* ResultInv rests on these variables alone.
LEMMA ResultInvUnchanged ==
  ASSUME ResultInv, UNCHANGED <<result, ex, live, binding, sess>>
  PROVE  ResultInv'
  BY DEF ResultInv, Bound

\* KeptInv rests on these variables alone.
LEMMA KeptInvUnchanged ==
  ASSUME KeptInv, UNCHANGED <<kept, result>>
  PROVE  KeptInv'
  BY DEF KeptInv

\* ReportInv rests on these variables alone.
LEMMA ReportInvUnchanged ==
  ASSUME ReportInv, UNCHANGED <<hp, result>>
  PROVE  ReportInv'
  BY DEF ReportInv

\* RefusedInv rests on these variables alone.
LEMMA RefusedInvUnchanged ==
  ASSUME RefusedInv, UNCHANGED <<upload, ex, posted>>
  PROVE  RefusedInv'
  BY DEF RefusedInv

\* AnswerInv rests on these variables alone.
LEMMA AnswerInvUnchanged ==
  ASSUME AnswerInv, UNCHANGED <<answer, ex>>
  PROVE  AnswerInv'
  BY DEF AnswerInv

\* CompleteInv rests on these variables alone.
LEMMA CompleteInvUnchanged ==
  ASSUME CompleteInv, UNCHANGED <<hp, acked, upload>>
  PROVE  CompleteInv'
  BY DEF CompleteInv, Cancelling

\* EvidenceInv rests on these variables alone.
LEMMA EvidenceInvUnchanged ==
  ASSUME EvidenceInv, UNCHANGED <<observed, result, acked, upload>>
  PROVE  EvidenceInv'
  BY DEF EvidenceInv

\* DecisionInv rests on these variables alone.
LEMMA DecisionInvUnchanged ==
  ASSUME DecisionInv, UNCHANGED <<decided, observed, row>>
  PROVE  DecisionInv'
  BY DEF DecisionInv

\* SeenInv rests on these variables alone.
LEMMA SeenInvUnchanged ==
  ASSUME SeenInv, UNCHANGED <<seen, row>>
  PROVE  SeenInv'
  BY DEF SeenInv

\* EndedInv rests on these variables alone.
LEMMA EndedInvUnchanged ==
  ASSUME EndedInv, UNCHANGED <<hp, row>>
  PROVE  EndedInv'
  BY DEF EndedInv

\* SettleInv rests on these variables alone.
LEMMA SettleInvUnchanged ==
  ASSUME SettleInv, UNCHANGED <<hp, decided, observed, result>>
  PROVE  SettleInv'
  BY DEF SettleInv, Success, code

\* AcknowledgedMeansStopped rests on these variables alone.
LEMMA AcknowledgedUnchanged ==
  ASSUME AcknowledgedMeansStopped, UNCHANGED <<acked, ex>>
  PROVE  AcknowledgedMeansStopped'
  BY DEF AcknowledgedMeansStopped

\* ReleasedIsRecorded rests on these variables alone.
LEMMA ReleasedUnchanged ==
  ASSUME ReleasedIsRecorded, UNCHANGED <<kept, row>>
  PROVE  ReleasedIsRecorded'
  BY DEF ReleasedIsRecorded

\* TerminalHoldsNothing rests on these variables alone.
LEMMA TerminalUnchanged ==
  ASSUME TerminalHoldsNothing, UNCHANGED <<row, reclaimed, hp, unseen, floor, share>>
  PROVE  TerminalHoldsNothing'
  BY DEF TerminalHoldsNothing, Closing

\* LiveRunsAreCounted rests on these variables alone.
LEMMA LiveUnchanged ==
  ASSUME LiveRunsAreCounted, UNCHANGED <<serving, row, reclaimed, binding, base, floor>>
  PROVE  LiveRunsAreCounted'
  BY DEF LiveRunsAreCounted, Admitted

\* RefundedBatchFailed rests on these variables alone.
LEMMA RefundedUnchanged ==
  ASSUME RefundedBatchFailed, UNCHANGED <<txn, row, upload>>
  PROVE  RefundedBatchFailed'
  BY DEF RefundedBatchFailed, Admitted, UploadFailed

-----------------------------------------------------------------------------
(* What each step does to the conjuncts it disturbs.  *)

\* Admission: the runs it writes were untouched, so nothing of them can contradict the rows.
LEMMA AdmitKeeps ==
  ASSUME IInv, NEW c \in Submitters, Admit(c)
  PROVE  IInv'
  <1> USE DEF IInv, TypeParts
  <1>1. UNCHANGED <<observed, requested, attempted, acked, failure, decided, reclaimed, order, txn, share,
            listed, serving, base, upload, hp, seen, answer, alloc, updates, posted, ex, stop,
            result, kept, sending, window, sess, live, cancels, unseen, mishaps>>
    BY DEF Admit, Admitted, records, accounts, memory, handlers, executor, world, Quiet
  <1>2. /\ row \in [Runs -> States]
        /\ binding \in [Runs -> Nat]
        /\ floor \in [Runs -> BOOLEAN]
        /\ sub \in [Submitters -> {"idle", "refused", "uploading", "cleanup", "refunding", "done"}]
        /\ sess \in Nat
        /\ listed \subseteq Runs
    BY DEF RecordTypes, MemoryTypes, HandlerTypes, WorldTypes
  <1>3. Runs # {} /\ \A r \in Runs : row[r] = "absent" /\ Untouched(r)
    BY LifecycleAssumption DEF Admit, Admitted, BatchInv
  <1>4. \A r \in Runs : hp[<<"cleanup", r>>] = "idle"
    BY <1>3 DEF Untouched, Actors
  <1>5. RecordTypes'
    BY <1>1, <1>2, <1>3, <1>4 DEF Admit, Admitted, RecordTypes, States
  <1>6. MemoryTypes'
    BY <1>1, <1>2, <1>3, <1>4 DEF Admit, Admitted, MemoryTypes
  <1>7. HandlerTypes'
    BY <1>1, <1>2, <1>3, <1>4 DEF Admit, Admitted, HandlerTypes
  <1>8. BatchInv'
    BY <1>1, <1>2, <1>3, <1>4 DEF Admit, Admitted, BatchInv, Untouched
  <1>9. ListedInv'
    BY <1>1, <1>2, <1>3, <1>4 DEF Admit, Admitted, ListedInv
  <1>10. BindingInv'
    BY <1>1, <1>2, <1>3, <1>4 DEF Admit, Admitted, BindingInv
  <1>11. OwnerInv'
    BY <1>1, <1>2, <1>3, <1>4 DEF Admit, Admitted, OwnerInv, Owns
  <1>12. OneOwner'
    BY <1>1, <1>2, <1>3, <1>4 DEF Admit, Admitted, OneOwner, Owns, OwnerInv
  <1>13. UploadsFirst'
    BY <1>1, <1>2, <1>3, <1>4 DEF Admit, Admitted, UploadsFirst
  <1>14. CleanupInv'
    BY <1>1, <1>2, <1>3, <1>4 DEF Admit, Admitted, CleanupInv, UploadFailed
  <1>15. ResultInv'
    BY <1>1, <1>2, <1>3, <1>4 DEF Admit, Admitted, ResultInv, Bound, Untouched
  <1>16. DecisionInv'
    BY <1>1, <1>2, <1>3, <1>4 DEF Admit, Admitted, DecisionInv
  <1>17. SeenInv'
    BY <1>1, <1>2, <1>3, <1>4 DEF Admit, Admitted, SeenInv
  <1>18. EndedInv'
    BY <1>1, <1>2, <1>3, <1>4 DEF Admit, Admitted, EndedInv
  <1>19. ReleasedIsRecorded'
    BY <1>1, <1>2, <1>3, <1>4 DEF Admit, Admitted, ReleasedIsRecorded
  <1>20. TerminalHoldsNothing'
    BY <1>1, <1>2, <1>3, <1>4 DEF Admit, Admitted, TerminalHoldsNothing, Closing, Untouched
  <1>21. LiveRunsAreCounted'
    BY <1>1, <1>2, <1>3, <1>4 DEF Admit, Admitted, LiveRunsAreCounted
  <1>22. RefundedBatchFailed'
    BY <1>1, <1>2, <1>3, <1>4 DEF Admit, Admitted, RefundedBatchFailed, UploadFailed
  <1> QED
    BY <1>1, <1>5, <1>6, <1>7, <1>8, <1>9, <1>10, <1>11, <1>12, <1>13, <1>14, <1>15, <1>16,
      <1>17, <1>18, <1>19, <1>20, <1>21, <1>22, AccountTypesUnchanged, ExecTypesUnchanged,
      WorldTypesUnchanged, KeptInvUnchanged, ReportInvUnchanged, RefusedInvUnchanged,
      AnswerInvUnchanged, CompleteInvUnchanged, EvidenceInvUnchanged, SettleInvUnchanged,
      AcknowledgedUnchanged

\* A refusal changes only the request.
LEMMA AdmitRefusedKeeps ==
  ASSUME IInv, NEW c \in Submitters, AdmitRefused(c)
  PROVE  IInv'
  <1> USE DEF IInv, TypeParts
  <1>1. UNCHANGED <<row, observed, binding, requested, attempted, acked, failure, decided, reclaimed, order,
            txn, floor, share, listed, serving, base, upload, hp, seen, answer, alloc, updates,
            posted, ex, stop, result, kept, sending, window, sess, live, cancels, unseen, mishaps>>
    BY DEF AdmitRefused, Admitted, records, accounts, memory, handlers, executor, world, Quiet
  <1>2. /\ sub \in [Submitters -> {"idle", "refused", "uploading", "cleanup", "refunding", "done"}]
    BY DEF HandlerTypes
  <1>3. HandlerTypes'
    BY <1>1, <1>2 DEF AdmitRefused, Admitted, HandlerTypes
  <1>4. OwnerInv'
    BY <1>1, <1>2 DEF AdmitRefused, Admitted, OwnerInv, Owns
  <1>5. OneOwner'
    BY <1>1, <1>2 DEF AdmitRefused, Admitted, OneOwner, Owns
  <1>6. UploadsFirst'
    BY <1>1, <1>2 DEF AdmitRefused, Admitted, UploadsFirst
  <1>7. CleanupInv'
    BY <1>1, <1>2 DEF AdmitRefused, Admitted, CleanupInv, UploadFailed
  <1> QED
    BY <1>1, <1>3, <1>4, <1>5, <1>6, <1>7, RecordTypesUnchanged, AccountTypesUnchanged,
      MemoryTypesUnchanged, ExecTypesUnchanged, WorldTypesUnchanged, BatchInvUnchanged,
      ListedInvUnchanged, BindingInvUnchanged, ResultInvUnchanged, KeptInvUnchanged,
      ReportInvUnchanged, RefusedInvUnchanged, AnswerInvUnchanged, CompleteInvUnchanged,
      EvidenceInvUnchanged, DecisionInvUnchanged, SeenInvUnchanged, EndedInvUnchanged,
      SettleInvUnchanged, AcknowledgedUnchanged, ReleasedUnchanged, TerminalUnchanged,
      LiveUnchanged, RefundedUnchanged

\* An answer changes only the request.
LEMMA AnswerRecordedKeeps ==
  ASSUME IInv, NEW c \in Submitters, AnswerRecorded(c)
  PROVE  IInv'
  <1> USE DEF IInv, TypeParts
  <1>1. UNCHANGED <<row, observed, binding, requested, attempted, acked, failure, decided, reclaimed, order,
            txn, floor, share, listed, serving, base, upload, hp, seen, answer, alloc, updates,
            posted, ex, stop, result, kept, sending, window, sess, live, cancels, unseen, mishaps>>
    BY DEF AnswerRecorded, Admitted, records, accounts, memory, handlers, executor, world, Quiet
  <1>2. /\ sub \in [Submitters -> {"idle", "refused", "uploading", "cleanup", "refunding", "done"}]
    BY DEF HandlerTypes
  <1>3. HandlerTypes'
    BY <1>1, <1>2 DEF AnswerRecorded, Admitted, HandlerTypes
  <1>4. OwnerInv'
    BY <1>1, <1>2 DEF AnswerRecorded, Admitted, OwnerInv, Owns
  <1>5. OneOwner'
    BY <1>1, <1>2 DEF AnswerRecorded, Admitted, OneOwner, Owns
  <1>6. UploadsFirst'
    BY <1>1, <1>2 DEF AnswerRecorded, Admitted, UploadsFirst
  <1>7. CleanupInv'
    BY <1>1, <1>2 DEF AnswerRecorded, Admitted, CleanupInv, UploadFailed
  <1> QED
    BY <1>1, <1>3, <1>4, <1>5, <1>6, <1>7, RecordTypesUnchanged, AccountTypesUnchanged,
      MemoryTypesUnchanged, ExecTypesUnchanged, WorldTypesUnchanged, BatchInvUnchanged,
      ListedInvUnchanged, BindingInvUnchanged, ResultInvUnchanged, KeptInvUnchanged,
      ReportInvUnchanged, RefusedInvUnchanged, AnswerInvUnchanged, CompleteInvUnchanged,
      EvidenceInvUnchanged, DecisionInvUnchanged, SeenInvUnchanged, EndedInvUnchanged,
      SettleInvUnchanged, AcknowledgedUnchanged, ReleasedUnchanged, TerminalUnchanged,
      LiveUnchanged, RefundedUnchanged

\* The conditional refund: no run is admitted under the transaction it refunds.
LEMMA RefundUnadmittedKeeps ==
  ASSUME IInv, NEW c \in Submitters, RefundUnadmitted(c)
  PROVE  IInv'
  <1> USE DEF IInv, TypeParts
  <1>1. UNCHANGED <<row, observed, binding, requested, attempted, acked, failure, decided, reclaimed, floor,
            share, listed, serving, base, upload, hp, seen, answer, alloc, updates, posted, ex,
            stop, result, kept, sending, window, sess, live, cancels, unseen, mishaps>>
    BY DEF RefundUnadmitted, Unclaimed, Admitted, RefundOutstanding, records, accounts, memory, handlers,
      executor, world, Quiet
  <1>2. /\ txn \in {"paid", "refunded"}
        /\ order \in [Runs -> {"outstanding", "credited", "refunded"}]
        /\ sub \in [Submitters -> {"idle", "refused", "uploading", "cleanup", "refunding", "done"}]
    BY DEF AccountTypes, HandlerTypes
  <1>3. AccountTypes'
    BY <1>1, <1>2 DEF RefundUnadmitted, Unclaimed, Admitted, RefundOutstanding, AccountTypes,
      accounts
  <1>4. HandlerTypes'
    BY <1>1, <1>2 DEF RefundUnadmitted, Unclaimed, Admitted, RefundOutstanding, HandlerTypes
  <1>5. OwnerInv'
    BY <1>1, <1>2 DEF RefundUnadmitted, Unclaimed, Admitted, RefundOutstanding, OwnerInv, Owns
  <1>6. OneOwner'
    BY <1>1, <1>2 DEF RefundUnadmitted, Unclaimed, Admitted, RefundOutstanding, OneOwner, Owns
  <1>7. UploadsFirst'
    BY <1>1, <1>2 DEF RefundUnadmitted, Unclaimed, Admitted, RefundOutstanding, UploadsFirst
  <1>8. CleanupInv'
    BY <1>1, <1>2 DEF RefundUnadmitted, Unclaimed, Admitted, RefundOutstanding, CleanupInv,
      UploadFailed
  <1>9. RefundedBatchFailed'
    BY <1>1, <1>2 DEF RefundUnadmitted, Unclaimed, Admitted, RefundOutstanding,
      RefundedBatchFailed, UploadFailed, accounts
  <1> QED
    BY <1>1, <1>3, <1>4, <1>5, <1>6, <1>7, <1>8, <1>9, RecordTypesUnchanged,
      MemoryTypesUnchanged, ExecTypesUnchanged, WorldTypesUnchanged, BatchInvUnchanged,
      ListedInvUnchanged, BindingInvUnchanged, ResultInvUnchanged, KeptInvUnchanged,
      ReportInvUnchanged, RefusedInvUnchanged, AnswerInvUnchanged, CompleteInvUnchanged,
      EvidenceInvUnchanged, DecisionInvUnchanged, SeenInvUnchanged, EndedInvUnchanged,
      SettleInvUnchanged, AcknowledgedUnchanged, ReleasedUnchanged, TerminalUnchanged, LiveUnchanged
     

\* The owner starts the cleanups: none was at work, and an upload has failed.
LEMMA BatchUploadedKeeps ==
  ASSUME IInv, NEW c \in Submitters, BatchUploaded(c)
  PROVE  IInv'
  <1> USE DEF IInv, TypeParts
  <1>1. UNCHANGED <<row, observed, binding, requested, attempted, acked, failure, decided, reclaimed, order,
            txn, floor, share, listed, serving, base, upload, seen, answer, alloc, updates, posted,
            ex, stop, result, kept, sending, window, sess, live, cancels, unseen, mishaps>>
    BY DEF BatchUploaded, UploadFailed, records, accounts, memory, handlers, executor, world, Quiet
  <1>2. /\ sub \in [Submitters -> {"idle", "refused", "uploading", "cleanup", "refunding", "done"}]
        /\ hp \in [Actors \X Runs -> Phases]
    BY DEF HandlerTypes
  <1>3. \A s \in Runs : hp[<<"cleanup", s>>] = "idle"
    BY DEF BatchUploaded, UploadsFirst
  <1>4. \A a \in Actors, s \in Runs : hp'[<<a, s>>] = hp[<<a, s>>] \/ (a = "cleanup" /\ hp'[<<a, s>>] = "read")
    BY <1>2 DEF BatchUploaded, Actors
  <1>5. \A s \in Runs : row[s] # "absent"
    BY DEF BatchUploaded, OwnerInv, Owns
  <1>6. HandlerTypes'
    BY <1>1, <1>2, <1>3, <1>4, <1>5 DEF BatchUploaded, UploadFailed, HandlerTypes, Actors,
      Phases
  <1>7. BatchInv'
    BY <1>1, <1>2, <1>3, <1>4, <1>5 DEF BatchInv, Untouched, Actors
  <1>8. OwnerInv'
    BY <1>1, <1>2, <1>3, <1>4, <1>5 DEF BatchUploaded, UploadFailed, OwnerInv, Owns
  <1>9. OneOwner'
    BY <1>1, <1>2, <1>3, <1>4, <1>5 DEF BatchUploaded, UploadFailed, OneOwner, Owns
  <1>10. UploadsFirst'
    BY <1>1, <1>2, <1>3, <1>4, <1>5 DEF BatchUploaded, UploadFailed, UploadsFirst, Actors,
      OneOwner, Owns
  <1>11. CleanupInv'
    BY <1>1, <1>2, <1>3, <1>4, <1>5 DEF BatchUploaded, UploadFailed, CleanupInv
  <1>12. ReportInv'
    BY <1>1, <1>2, <1>3, <1>4, <1>5 DEF ReportInv, Actors
  <1>13. CompleteInv'
    BY <1>1, <1>2, <1>3, <1>4, <1>5 DEF CompleteInv, Cancelling, Actors
  <1>14. EndedInv'
    BY <1>1, <1>2, <1>3, <1>4, <1>5 DEF EndedInv, Actors
  <1>15. SettleInv'
    BY <1>1, <1>4 DEF SettleInv, Success, code
  <1>16. TerminalHoldsNothing'
    BY <1>1, <1>2, <1>3, <1>4, <1>5 DEF TerminalHoldsNothing, Closing, Actors
  <1> QED
    BY <1>1, <1>6, <1>7, <1>8, <1>9, <1>10, <1>11, <1>12, <1>13, <1>14, <1>15, <1>16,
      RecordTypesUnchanged, AccountTypesUnchanged, MemoryTypesUnchanged, ExecTypesUnchanged,
      WorldTypesUnchanged, ListedInvUnchanged, BindingInvUnchanged, ResultInvUnchanged,
      KeptInvUnchanged, RefusedInvUnchanged, AnswerInvUnchanged, EvidenceInvUnchanged,
      DecisionInvUnchanged, SeenInvUnchanged, AcknowledgedUnchanged, ReleasedUnchanged,
      LiveUnchanged, RefundedUnchanged

\* The refund of a batch belongs to an owner whose upload failed.
LEMMA RefundBatchKeeps ==
  ASSUME IInv, NEW c \in Submitters, RefundBatch(c)
  PROVE  IInv'
  <1> USE DEF IInv, TypeParts
  <1>1. UNCHANGED <<row, observed, binding, requested, attempted, acked, failure, decided, reclaimed, floor,
            share, listed, serving, base, upload, hp, seen, answer, alloc, updates, posted, ex,
            stop, result, kept, sending, window, sess, live, cancels, unseen, mishaps>>
    BY DEF RefundBatch, RefundOutstanding, records, accounts, memory, handlers, executor, world, Quiet
  <1>2. /\ txn \in {"paid", "refunded"}
        /\ order \in [Runs -> {"outstanding", "credited", "refunded"}]
        /\ sub \in [Submitters -> {"idle", "refused", "uploading", "cleanup", "refunding", "done"}]
    BY DEF AccountTypes, HandlerTypes
  <1>3. AccountTypes'
    BY <1>1, <1>2 DEF RefundBatch, RefundOutstanding, AccountTypes, accounts
  <1>4. HandlerTypes'
    BY <1>1, <1>2 DEF RefundBatch, RefundOutstanding, HandlerTypes
  <1>5. OwnerInv'
    BY <1>1, <1>2 DEF RefundBatch, RefundOutstanding, OwnerInv, Owns
  <1>6. OneOwner'
    BY <1>1, <1>2 DEF RefundBatch, RefundOutstanding, OneOwner, Owns
  <1>7. UploadsFirst'
    BY <1>1, <1>2 DEF RefundBatch, RefundOutstanding, UploadsFirst
  <1>8. CleanupInv'
    BY <1>1, <1>2 DEF RefundBatch, RefundOutstanding, CleanupInv, UploadFailed
  <1>9. RefundedBatchFailed'
    BY <1>1, <1>2 DEF RefundBatch, RefundOutstanding, RefundedBatchFailed, Admitted,
      UploadFailed, accounts, CleanupInv
  <1> QED
    BY <1>1, <1>3, <1>4, <1>5, <1>6, <1>7, <1>8, <1>9, RecordTypesUnchanged,
      MemoryTypesUnchanged, ExecTypesUnchanged, WorldTypesUnchanged, BatchInvUnchanged,
      ListedInvUnchanged, BindingInvUnchanged, ResultInvUnchanged, KeptInvUnchanged,
      ReportInvUnchanged, RefusedInvUnchanged, AnswerInvUnchanged, CompleteInvUnchanged,
      EvidenceInvUnchanged, DecisionInvUnchanged, SeenInvUnchanged, EndedInvUnchanged,
      SettleInvUnchanged, AcknowledgedUnchanged, ReleasedUnchanged, TerminalUnchanged, LiveUnchanged
     

\* Only the owner of an admitted batch uploads.
LEMMA UploadSendKeeps ==
  ASSUME IInv, NEW r \in Runs, UploadSend(r)
  PROVE  IInv'
  <1> USE DEF IInv, TypeParts
  <1>1. UNCHANGED <<row, observed, binding, requested, attempted, acked, failure, decided, reclaimed, order,
            txn, floor, share, listed, serving, base, sub, hp, seen, answer, alloc, updates, ex,
            stop, result, kept, sending, window, sess, live, cancels, unseen, mishaps>>
    BY DEF UploadSend, Uploading, Uploads, Bound, records, accounts, memory, handlers, executor, world,
      Quiet
  <1>2. /\ upload \in [Runs -> {"idle", "sent", "accepted", "ok", "refused", "unknown", "unsent"}]
        /\ posted \in [Runs -> BOOLEAN]
    BY DEF HandlerTypes, ExecTypes
  <1>3. \A s \in Runs : row[s] # "absent"
    BY DEF UploadSend, Uploading, OwnerInv, Owns
  <1>4. HandlerTypes'
    BY <1>1, <1>2, <1>3 DEF UploadSend, Uploading, Uploads, Bound, HandlerTypes
  <1>5. ExecTypes'
    BY <1>1, <1>2, <1>3 DEF UploadSend, Uploading, Uploads, Bound, ExecTypes
  <1>6. BatchInv'
    BY <1>1, <1>2, <1>3 DEF UploadSend, Uploading, Uploads, Bound, BatchInv, Untouched
  <1>7. CleanupInv'
    BY <1>1, <1>2, <1>3 DEF UploadSend, Uploading, Uploads, Bound, CleanupInv, UploadFailed
  <1>8. RefusedInv'
    BY <1>1, <1>2, <1>3 DEF UploadSend, Uploading, Uploads, Bound, RefusedInv
  <1>9. CompleteInv'
    BY <1>1, <1>2, <1>3 DEF UploadSend, Uploading, Uploads, Bound, CompleteInv, Cancelling
  <1>10. EvidenceInv'
    BY <1>1, <1>2, <1>3 DEF UploadSend, Uploading, Uploads, Bound, EvidenceInv
  <1>11. RefundedBatchFailed'
    BY <1>1, <1>2, <1>3 DEF UploadSend, Uploading, Uploads, Bound, RefundedBatchFailed,
      Admitted, UploadFailed
  <1> QED
    BY <1>1, <1>4, <1>5, <1>6, <1>7, <1>8, <1>9, <1>10, <1>11, RecordTypesUnchanged,
      AccountTypesUnchanged, MemoryTypesUnchanged, WorldTypesUnchanged, ListedInvUnchanged,
      BindingInvUnchanged, OwnerInvUnchanged, OneOwnerUnchanged, UploadsFirstUnchanged,
      ResultInvUnchanged, KeptInvUnchanged, ReportInvUnchanged, AnswerInvUnchanged,
      DecisionInvUnchanged, SeenInvUnchanged, EndedInvUnchanged, SettleInvUnchanged,
      AcknowledgedUnchanged, ReleasedUnchanged, TerminalUnchanged, LiveUnchanged

\* The rank guard leaves an ended run ended.
LEMMA RecordUploadedKeeps ==
  ASSUME IInv, NEW r \in Runs, RecordUploaded(r)
  PROVE  IInv'
  <1> USE DEF IInv, TypeParts
  <1>1. UNCHANGED <<observed, binding, requested, attempted, acked, failure, decided, reclaimed, order, txn,
            floor, share, listed, serving, base, sub, hp, seen, answer, alloc, updates, posted, ex,
            stop, result, kept, sending, window, sess, live, cancels, unseen, mishaps>>
    BY DEF RecordUploaded, Uploading, Uploads, records, accounts, memory, handlers, executor, world, Quiet
  <1>2. /\ upload \in [Runs -> {"idle", "sent", "accepted", "ok", "refused", "unknown", "unsent"}]
        /\ row \in [Runs -> States]
        /\ listed \subseteq Runs
    BY DEF HandlerTypes, RecordTypes, MemoryTypes
  <1>3. \A s \in Runs : row[s] # "absent"
    BY DEF RecordUploaded, Uploading, OwnerInv, Owns
  <1>4. \A t \in Runs : row'[t] # "absent" /\ (row'[t] = "exited" <=> row[t] = "exited")
    BY <1>2, <1>3 DEF RecordUploaded, rank, States
  <1>5. RecordTypes'
    BY <1>1, <1>2, <1>3, <1>4 DEF RecordUploaded, Uploading, Uploads, RecordTypes, States
  <1>6. HandlerTypes'
    BY <1>1, <1>2, <1>3, <1>4 DEF RecordUploaded, Uploading, Uploads, HandlerTypes
  <1>7. BatchInv'
    BY <1>1, <1>2, <1>3, <1>4 DEF RecordUploaded, Uploading, Uploads, BatchInv, Untouched
  <1>8. ListedInv'
    BY <1>1, <1>2, <1>3, <1>4 DEF ListedInv
  <1>9. OwnerInv'
    BY <1>1, <1>2, <1>3, <1>4 DEF OwnerInv, Owns
  <1>10. CleanupInv'
    BY <1>1, <1>2, <1>3, <1>4 DEF RecordUploaded, Uploading, Uploads, CleanupInv, UploadFailed
  <1>11. RefusedInv'
    BY <1>1, <1>2, <1>3, <1>4 DEF RecordUploaded, Uploading, Uploads, RefusedInv
  <1>12. CompleteInv'
    BY ZenonT(60), <1>1, <1>2, <1>3, <1>4 DEF RecordUploaded, Uploading, Uploads, CompleteInv, Cancelling
  <1>13. EvidenceInv'
    BY <1>1, <1>2, <1>3, <1>4 DEF RecordUploaded, Uploading, Uploads, EvidenceInv
  <1>14. DecisionInv'
    BY <1>1, <1>2, <1>3, <1>4 DEF DecisionInv
  <1>15. SeenInv'
    BY <1>1, <1>2, <1>3, <1>4 DEF SeenInv
  <1>16. EndedInv'
    BY <1>1, <1>2, <1>3, <1>4 DEF RecordUploaded, Uploading, Uploads, EndedInv
  <1>17. ReleasedIsRecorded'
    BY <1>1, <1>2, <1>3, <1>4 DEF ReleasedIsRecorded
  <1>18. TerminalHoldsNothing'
    BY <1>1, <1>2, <1>3, <1>4 DEF RecordUploaded, Uploading, Uploads, TerminalHoldsNothing,
      Closing
  <1>19. LiveRunsAreCounted'
    BY <1>1, <1>2, <1>3, <1>4 DEF LiveRunsAreCounted, Admitted
  <1>20. RefundedBatchFailed'
    BY <1>1, <1>2, <1>3, <1>4 DEF RecordUploaded, Uploading, Uploads, RefundedBatchFailed,
      Admitted, UploadFailed
  <1> QED
    BY <1>1, <1>5, <1>6, <1>7, <1>8, <1>9, <1>10, <1>11, <1>12, <1>13, <1>14, <1>15, <1>16,
      <1>17, <1>18, <1>19, <1>20, AccountTypesUnchanged, MemoryTypesUnchanged, ExecTypesUnchanged,
      WorldTypesUnchanged, BindingInvUnchanged, OneOwnerUnchanged, UploadsFirstUnchanged,
      ResultInvUnchanged, KeptInvUnchanged, ReportInvUnchanged, AnswerInvUnchanged,
      SettleInvUnchanged, AcknowledgedUnchanged

\* A lost upload is unknown, never refused.
LEMMA UploadLostKeeps ==
  ASSUME IInv, NEW r \in Runs, UploadLost(r)
  PROVE  IInv'
  <1> USE DEF IInv, TypeParts
  <1>1. UNCHANGED <<row, observed, binding, requested, attempted, acked, failure, decided, reclaimed, order,
            txn, floor, share, listed, serving, base, sub, hp, seen, answer, alloc, updates, posted,
            ex, stop, result, kept, sending, window, sess, live, cancels, unseen>>
    BY DEF UploadLost, Uploading, Uploads, Fault, Mishap, UploadFailed, records, accounts, memory,
      handlers, executor, world, Quiet
  <1>2. /\ upload \in [Runs -> {"idle", "sent", "accepted", "ok", "refused", "unknown", "unsent"}]
    BY DEF HandlerTypes
  <1>3. \A s \in Runs : row[s] # "absent"
    BY DEF UploadLost, Uploading, OwnerInv, Owns
  <1>4. HandlerTypes'
    BY <1>1, <1>2, <1>3 DEF UploadLost, Uploading, Uploads, Fault, Mishap, UploadFailed,
      HandlerTypes
  <1>5. WorldTypes'
    BY <1>1, <1>2, <1>3 DEF UploadLost, Uploading, Uploads, Fault, Mishap, UploadFailed,
      WorldTypes
  <1>6. BatchInv'
    BY <1>1, <1>2, <1>3 DEF UploadLost, Uploading, Uploads, Fault, Mishap, UploadFailed,
      BatchInv, Untouched
  <1>7. CleanupInv'
    BY <1>1, <1>2, <1>3 DEF UploadLost, Uploading, Uploads, Fault, Mishap, UploadFailed,
      CleanupInv
  <1>8. RefusedInv'
    BY <1>1, <1>2, <1>3 DEF UploadLost, Uploading, Uploads, Fault, Mishap, UploadFailed,
      RefusedInv
  <1>9. CompleteInv'
    BY <1>1, <1>2, <1>3 DEF UploadLost, Uploading, Uploads, Fault, Mishap, UploadFailed,
      CompleteInv, Cancelling
  <1>10. EvidenceInv'
    BY <1>1, <1>2, <1>3 DEF UploadLost, Uploading, Uploads, Fault, Mishap, UploadFailed,
      EvidenceInv
  <1>11. RefundedBatchFailed'
    BY <1>1, <1>2, <1>3 DEF UploadLost, Uploading, Uploads, Fault, Mishap, UploadFailed,
      RefundedBatchFailed, Admitted
  <1> QED
    BY <1>1, <1>4, <1>5, <1>6, <1>7, <1>8, <1>9, <1>10, <1>11, RecordTypesUnchanged,
      AccountTypesUnchanged, MemoryTypesUnchanged, ExecTypesUnchanged, ListedInvUnchanged,
      BindingInvUnchanged, OwnerInvUnchanged, OneOwnerUnchanged, UploadsFirstUnchanged,
      ResultInvUnchanged, KeptInvUnchanged, ReportInvUnchanged, AnswerInvUnchanged,
      DecisionInvUnchanged, SeenInvUnchanged, EndedInvUnchanged, SettleInvUnchanged,
      AcknowledgedUnchanged, ReleasedUnchanged, TerminalUnchanged, LiveUnchanged

\* What the executor takes it has not refused, and has no result of.
LEMMA ExecAcceptKeeps ==
  ASSUME IInv, NEW r \in Runs, ExecAccept(r)
  PROVE  IInv'
  <1> USE DEF IInv, TypeParts
  <1>1. UNCHANGED <<row, observed, binding, requested, attempted, acked, failure, decided, reclaimed, order,
            txn, floor, share, listed, serving, base, sub, hp, seen, answer, alloc, updates, stop,
            result, kept, sending, window, sess, live, cancels, unseen, mishaps>>
    BY DEF ExecAccept, Bound, records, accounts, memory, handlers, executor, world, Quiet
  <1>2. /\ posted \in [Runs -> BOOLEAN]
        /\ ex \in [Runs -> Executing \cup {"absent", "queued", "reporting", "gone"}]
        /\ upload \in [Runs -> {"idle", "sent", "accepted", "ok", "refused", "unknown", "unsent"}]
    BY DEF ExecTypes, HandlerTypes
  <1>3. \A s \in Runs : row[s] # "absent"
    BY DEF ExecAccept, BatchInv, Untouched
  <1>4. HandlerTypes'
    BY <1>1, <1>2, <1>3 DEF ExecAccept, Bound, HandlerTypes
  <1>5. ExecTypes'
    BY <1>1, <1>2, <1>3 DEF ExecAccept, Bound, ExecTypes, Executing
  <1>6. BatchInv'
    BY <1>1, <1>2, <1>3 DEF ExecAccept, Bound, BatchInv, Untouched
  <1>7. CleanupInv'
    BY <1>1, <1>2, <1>3 DEF ExecAccept, Bound, CleanupInv, UploadFailed
  <1>8. ResultInv'
    BY <1>1, <1>2, <1>3 DEF ExecAccept, Bound, ResultInv
  <1>9. RefusedInv'
    BY <1>1, <1>2, <1>3 DEF ExecAccept, Bound, RefusedInv
  <1>10. AnswerInv'
    BY <1>1, <1>2, <1>3 DEF ExecAccept, Bound, AnswerInv
  <1>11. CompleteInv'
    BY <1>1, <1>2, <1>3 DEF ExecAccept, Bound, CompleteInv, Cancelling
  <1>12. EvidenceInv'
    BY <1>1, <1>2, <1>3 DEF ExecAccept, Bound, EvidenceInv
  <1>13. AcknowledgedMeansStopped'
    BY <1>1, <1>2, <1>3 DEF ExecAccept, Bound, AcknowledgedMeansStopped
  <1>14. RefundedBatchFailed'
    BY <1>1, <1>2, <1>3 DEF ExecAccept, Bound, RefundedBatchFailed, Admitted, UploadFailed
  <1> QED
    BY <1>1, <1>4, <1>5, <1>6, <1>7, <1>8, <1>9, <1>10, <1>11, <1>12, <1>13, <1>14,
      RecordTypesUnchanged, AccountTypesUnchanged, MemoryTypesUnchanged, WorldTypesUnchanged,
      ListedInvUnchanged, BindingInvUnchanged, OwnerInvUnchanged, OneOwnerUnchanged,
      UploadsFirstUnchanged, KeptInvUnchanged, ReportInvUnchanged, DecisionInvUnchanged,
      SeenInvUnchanged, EndedInvUnchanged, SettleInvUnchanged, ReleasedUnchanged, TerminalUnchanged,
      LiveUnchanged

\* What the executor refuses it does not hold, and nothing is on its way.
LEMMA ExecRefuseKeeps ==
  ASSUME IInv, NEW r \in Runs, ExecRefuse(r)
  PROVE  IInv'
  <1> USE DEF IInv, TypeParts
  <1>1. UNCHANGED <<row, observed, binding, requested, attempted, acked, failure, decided, reclaimed, order,
            txn, floor, share, listed, serving, base, sub, hp, seen, answer, alloc, updates, ex,
            stop, result, kept, sending, window, sess, live, cancels, unseen, mishaps>>
    BY DEF ExecRefuse, Bound, records, accounts, memory, handlers, executor, world, Quiet
  <1>2. /\ posted \in [Runs -> BOOLEAN]
        /\ upload \in [Runs -> {"idle", "sent", "accepted", "ok", "refused", "unknown", "unsent"}]
    BY DEF ExecTypes, HandlerTypes
  <1>3. \A s \in Runs : row[s] # "absent"
    BY DEF ExecRefuse, BatchInv, Untouched
  <1>4. HandlerTypes'
    BY <1>1, <1>2, <1>3 DEF ExecRefuse, Bound, HandlerTypes
  <1>5. ExecTypes'
    BY <1>1, <1>2, <1>3 DEF ExecRefuse, Bound, ExecTypes
  <1>6. BatchInv'
    BY <1>1, <1>2, <1>3 DEF ExecRefuse, Bound, BatchInv, Untouched
  <1>7. CleanupInv'
    BY <1>1, <1>2, <1>3 DEF ExecRefuse, Bound, CleanupInv, UploadFailed
  <1>8. RefusedInv'
    BY <1>1, <1>2, <1>3 DEF ExecRefuse, Bound, RefusedInv
  <1>9. CompleteInv'
    BY <1>1, <1>2, <1>3 DEF ExecRefuse, Bound, CompleteInv, Cancelling
  <1>10. EvidenceInv'
    BY <1>1, <1>2, <1>3 DEF ExecRefuse, Bound, EvidenceInv
  <1>11. RefundedBatchFailed'
    BY <1>1, <1>2, <1>3 DEF ExecRefuse, Bound, RefundedBatchFailed, Admitted, UploadFailed
  <1> QED
    BY <1>1, <1>4, <1>5, <1>6, <1>7, <1>8, <1>9, <1>10, <1>11, RecordTypesUnchanged,
      AccountTypesUnchanged, MemoryTypesUnchanged, WorldTypesUnchanged, ListedInvUnchanged,
      BindingInvUnchanged, OwnerInvUnchanged, OneOwnerUnchanged, UploadsFirstUnchanged,
      ResultInvUnchanged, KeptInvUnchanged, ReportInvUnchanged, AnswerInvUnchanged,
      DecisionInvUnchanged, SeenInvUnchanged, EndedInvUnchanged, SettleInvUnchanged,
      AcknowledgedUnchanged, ReleasedUnchanged, TerminalUnchanged, LiveUnchanged

\* What begins is bound to the live session, so it has no result yet.
LEMMA BeginKeeps ==
  ASSUME IInv, NEW r \in Runs, Begin(r)
  PROVE  IInv'
  <1> USE DEF IInv, TypeParts
  <1>1. UNCHANGED <<row, observed, binding, requested, attempted, acked, failure, decided, reclaimed, order,
            txn, floor, share, listed, serving, base, sub, upload, hp, seen, answer, updates,
            posted, stop, result, kept, sending, window, sess, live, cancels, unseen, mishaps>>
    BY DEF Begin, ExStep, Bound, records, accounts, memory, handlers, executor, world, Quiet
  <1>2. /\ ex \in [Runs -> Executing \cup {"absent", "queued", "reporting", "gone"}]
        /\ alloc \in [Runs -> {"idle", "asked", "checked", "granted", "denied"}]
    BY DEF ExecTypes, HandlerTypes
  <1>3. \A s \in Runs : row[s] # "absent"
    BY DEF Begin, BatchInv, Untouched, ExStep
  <1>4. HandlerTypes'
    BY <1>1, <1>2, <1>3 DEF Begin, ExStep, Bound, HandlerTypes
  <1>5. ExecTypes'
    BY <1>1, <1>2, <1>3 DEF Begin, ExStep, Bound, ExecTypes, Executing
  <1>6. BatchInv'
    BY <1>1, <1>2, <1>3 DEF Begin, ExStep, Bound, BatchInv, Untouched
  <1>7. ResultInv'
    BY <1>1, <1>2, <1>3 DEF Begin, ExStep, Bound, ResultInv
  <1>8. RefusedInv'
    BY <1>1, <1>2, <1>3 DEF Begin, ExStep, Bound, RefusedInv
  <1>9. AnswerInv'
    BY <1>1, <1>2, <1>3 DEF Begin, ExStep, Bound, AnswerInv
  <1>10. AcknowledgedMeansStopped'
    BY <1>1, <1>2, <1>3 DEF Begin, ExStep, Bound, AcknowledgedMeansStopped
  <1> QED
    BY <1>1, <1>4, <1>5, <1>6, <1>7, <1>8, <1>9, <1>10, RecordTypesUnchanged,
      AccountTypesUnchanged, MemoryTypesUnchanged, WorldTypesUnchanged, ListedInvUnchanged,
      BindingInvUnchanged, OwnerInvUnchanged, OneOwnerUnchanged, UploadsFirstUnchanged,
      CleanupInvUnchanged, KeptInvUnchanged, ReportInvUnchanged, CompleteInvUnchanged,
      EvidenceInvUnchanged, DecisionInvUnchanged, SeenInvUnchanged, EndedInvUnchanged,
      SettleInvUnchanged, ReleasedUnchanged, TerminalUnchanged, LiveUnchanged, RefundedUnchanged DEF
      IInv, TypeParts

\* The check of an allocation changes only its handler.
LEMMA AllocReadKeeps ==
  ASSUME IInv, NEW r \in Runs, AllocRead(r)
  PROVE  IInv'
  <1> USE DEF IInv, TypeParts
  <1>1. UNCHANGED <<row, observed, binding, requested, attempted, acked, failure, decided, reclaimed, order,
            txn, floor, share, listed, serving, base, sub, upload, hp, seen, answer, updates,
            posted, ex, stop, result, kept, sending, window, sess, live, cancels, unseen, mishaps>>
    BY DEF AllocRead, Allocates, records, accounts, memory, handlers, executor, world, Quiet
  <1>2. /\ alloc \in [Runs -> {"idle", "asked", "checked", "granted", "denied"}]
    BY DEF HandlerTypes
  <1>3. HandlerTypes'
    BY <1>1, <1>2 DEF AllocRead, Allocates, HandlerTypes
  <1> QED
    BY <1>1, <1>3, RecordTypesUnchanged, AccountTypesUnchanged, MemoryTypesUnchanged,
      ExecTypesUnchanged, WorldTypesUnchanged, BatchInvUnchanged, ListedInvUnchanged,
      BindingInvUnchanged, OwnerInvUnchanged, OneOwnerUnchanged, UploadsFirstUnchanged,
      CleanupInvUnchanged, ResultInvUnchanged, KeptInvUnchanged, ReportInvUnchanged,
      RefusedInvUnchanged, AnswerInvUnchanged, CompleteInvUnchanged, EvidenceInvUnchanged,
      DecisionInvUnchanged, SeenInvUnchanged, EndedInvUnchanged, SettleInvUnchanged,
      AcknowledgedUnchanged, ReleasedUnchanged, TerminalUnchanged, LiveUnchanged, RefundedUnchanged
     

\* The charge is fenced by the end and the reclamation of the run.
LEMMA AllocCommitKeeps ==
  ASSUME IInv, NEW r \in Runs, AllocCommit(r)
  PROVE  IInv'
  <1> USE DEF IInv, TypeParts
  <1>1. UNCHANGED <<row, observed, binding, requested, attempted, acked, failure, decided, reclaimed, order,
            txn, floor, listed, serving, base, sub, upload, hp, seen, answer, updates, posted, ex,
            stop, result, kept, sending, window, sess, live, cancels, unseen, mishaps>>
    BY DEF AllocCommit, Allocates, Allocatable, records, accounts, memory, handlers, executor, world, Quiet
  <1>2. /\ share \in [Runs -> BOOLEAN]
        /\ alloc \in [Runs -> {"idle", "asked", "checked", "granted", "denied"}]
    BY DEF MemoryTypes, HandlerTypes
  <1>3. MemoryTypes'
    BY <1>1, <1>2 DEF AllocCommit, Allocates, Allocatable, MemoryTypes
  <1>4. HandlerTypes'
    BY <1>1, <1>2 DEF AllocCommit, Allocates, Allocatable, HandlerTypes
  <1>5. TerminalHoldsNothing'
    BY <1>1, <1>2 DEF AllocCommit, Allocates, Allocatable, TerminalHoldsNothing, Closing
  <1> QED
    BY <1>1, <1>3, <1>4, <1>5, RecordTypesUnchanged, AccountTypesUnchanged, ExecTypesUnchanged,
      WorldTypesUnchanged, BatchInvUnchanged, ListedInvUnchanged, BindingInvUnchanged,
      OwnerInvUnchanged, OneOwnerUnchanged, UploadsFirstUnchanged, CleanupInvUnchanged,
      ResultInvUnchanged, KeptInvUnchanged, ReportInvUnchanged, RefusedInvUnchanged,
      AnswerInvUnchanged, CompleteInvUnchanged, EvidenceInvUnchanged, DecisionInvUnchanged,
      SeenInvUnchanged, EndedInvUnchanged, SettleInvUnchanged, AcknowledgedUnchanged,
      ReleasedUnchanged, LiveUnchanged, RefundedUnchanged

\* A started run goes on.
LEMMA InitializeKeeps ==
  ASSUME IInv, NEW r \in Runs, Initialize(r)
  PROVE  IInv'
  <1> USE DEF IInv, TypeParts
  <1>1. UNCHANGED <<row, observed, binding, requested, attempted, acked, failure, decided, reclaimed, order,
            txn, floor, share, listed, serving, base, sub, upload, hp, seen, answer, alloc, posted,
            stop, result, kept, sending, window, sess, live, cancels, unseen, mishaps>>
    BY DEF Initialize, ExStep, Reports, Bound, records, accounts, memory, handlers, executor, world, Quiet
  <1>2. /\ ex \in [Runs -> Executing \cup {"absent", "queued", "reporting", "gone"}]
        /\ updates \in [Runs -> SUBSET {"initializing", "started"}]
    BY DEF ExecTypes, HandlerTypes
  <1>3. \A s \in Runs : row[s] # "absent"
    BY DEF Initialize, BatchInv, Untouched, ExStep
  <1>4. HandlerTypes'
    BY <1>1, <1>2, <1>3 DEF Initialize, ExStep, Reports, Bound, HandlerTypes
  <1>5. ExecTypes'
    BY <1>1, <1>2, <1>3 DEF Initialize, ExStep, Reports, Bound, ExecTypes, Executing
  <1>6. BatchInv'
    BY <1>1, <1>2, <1>3 DEF Initialize, ExStep, Reports, Bound, BatchInv, Untouched
  <1>7. ResultInv'
    BY <1>1, <1>2, <1>3 DEF Initialize, ExStep, Reports, Bound, ResultInv
  <1>8. RefusedInv'
    BY <1>1, <1>2, <1>3 DEF Initialize, ExStep, Reports, Bound, RefusedInv
  <1>9. AnswerInv'
    BY <1>1, <1>2, <1>3 DEF Initialize, ExStep, Reports, Bound, AnswerInv
  <1>10. AcknowledgedMeansStopped'
    BY <1>1, <1>2, <1>3 DEF Initialize, ExStep, Reports, Bound, AcknowledgedMeansStopped
  <1> QED
    BY <1>1, <1>4, <1>5, <1>6, <1>7, <1>8, <1>9, <1>10, RecordTypesUnchanged,
      AccountTypesUnchanged, MemoryTypesUnchanged, WorldTypesUnchanged, ListedInvUnchanged,
      BindingInvUnchanged, OwnerInvUnchanged, OneOwnerUnchanged, UploadsFirstUnchanged,
      CleanupInvUnchanged, KeptInvUnchanged, ReportInvUnchanged, CompleteInvUnchanged,
      EvidenceInvUnchanged, DecisionInvUnchanged, SeenInvUnchanged, EndedInvUnchanged,
      SettleInvUnchanged, ReleasedUnchanged, TerminalUnchanged, LiveUnchanged, RefundedUnchanged DEF
      IInv, TypeParts

\* A prepared run goes on.
LEMMA RunKeeps ==
  ASSUME IInv, NEW r \in Runs, Run(r)
  PROVE  IInv'
  <1> USE DEF IInv, TypeParts
  <1>1. UNCHANGED <<row, observed, binding, requested, attempted, acked, failure, decided, reclaimed, order,
            txn, floor, share, listed, serving, base, sub, upload, hp, seen, answer, alloc, posted,
            stop, result, kept, sending, window, sess, live, cancels, unseen, mishaps>>
    BY DEF Run, ExStep, Reports, Bound, records, accounts, memory, handlers, executor, world, Quiet
  <1>2. /\ ex \in [Runs -> Executing \cup {"absent", "queued", "reporting", "gone"}]
        /\ updates \in [Runs -> SUBSET {"initializing", "started"}]
    BY DEF ExecTypes, HandlerTypes
  <1>3. \A s \in Runs : row[s] # "absent"
    BY DEF Run, BatchInv, Untouched, ExStep
  <1>4. HandlerTypes'
    BY <1>1, <1>2, <1>3 DEF Run, ExStep, Reports, Bound, HandlerTypes
  <1>5. ExecTypes'
    BY <1>1, <1>2, <1>3 DEF Run, ExStep, Reports, Bound, ExecTypes, Executing
  <1>6. BatchInv'
    BY <1>1, <1>2, <1>3 DEF Run, ExStep, Reports, Bound, BatchInv, Untouched
  <1>7. ResultInv'
    BY <1>1, <1>2, <1>3 DEF Run, ExStep, Reports, Bound, ResultInv
  <1>8. RefusedInv'
    BY <1>1, <1>2, <1>3 DEF Run, ExStep, Reports, Bound, RefusedInv
  <1>9. AnswerInv'
    BY <1>1, <1>2, <1>3 DEF Run, ExStep, Reports, Bound, AnswerInv
  <1>10. AcknowledgedMeansStopped'
    BY <1>1, <1>2, <1>3 DEF Run, ExStep, Reports, Bound, AcknowledgedMeansStopped
  <1> QED
    BY <1>1, <1>4, <1>5, <1>6, <1>7, <1>8, <1>9, <1>10, RecordTypesUnchanged,
      AccountTypesUnchanged, MemoryTypesUnchanged, WorldTypesUnchanged, ListedInvUnchanged,
      BindingInvUnchanged, OwnerInvUnchanged, OneOwnerUnchanged, UploadsFirstUnchanged,
      CleanupInvUnchanged, KeptInvUnchanged, ReportInvUnchanged, CompleteInvUnchanged,
      EvidenceInvUnchanged, DecisionInvUnchanged, SeenInvUnchanged, EndedInvUnchanged,
      SettleInvUnchanged, ReleasedUnchanged, TerminalUnchanged, LiveUnchanged, RefundedUnchanged DEF
      IInv, TypeParts

\* The rank guard leaves an ended run ended.
LEMMA OnDebugletStateKeeps ==
  ASSUME IInv, NEW r \in Runs, NEW s \in {"initializing", "started"}, OnDebugletState(r, s)
  PROVE  IInv'
  <1> USE DEF IInv, TypeParts
  <1>1. UNCHANGED <<observed, binding, requested, attempted, acked, failure, decided, reclaimed, order, txn,
            floor, share, listed, serving, base, sub, upload, hp, seen, answer, alloc, posted, ex,
            stop, result, kept, sending, window, sess, live, cancels, unseen, mishaps>>
    BY DEF OnDebugletState, records, accounts, memory, handlers, executor, world, Quiet
  <1>2. /\ updates \in [Runs -> SUBSET {"initializing", "started"}]
        /\ row \in [Runs -> States]
        /\ listed \subseteq Runs
    BY DEF HandlerTypes, RecordTypes, MemoryTypes
  <1>3. \A t \in Runs : row[t] # "absent"
    BY DEF OnDebugletState, BatchInv, Untouched
  <1>4. \A t \in Runs : row'[t] # "absent" /\ (row'[t] = "exited" <=> row[t] = "exited")
    BY <1>2, <1>3 DEF OnDebugletState, rank, States
  <1>5. RecordTypes'
    BY <1>1, <1>2, <1>3, <1>4 DEF OnDebugletState, RecordTypes, States
  <1>6. HandlerTypes'
    BY <1>1, <1>2, <1>3, <1>4 DEF OnDebugletState, HandlerTypes
  <1>7. BatchInv'
    BY <1>1, <1>2, <1>3, <1>4 DEF OnDebugletState, BatchInv, Untouched
  <1>8. ListedInv'
    BY <1>1, <1>2, <1>3, <1>4 DEF ListedInv
  <1>9. OwnerInv'
    BY <1>1, <1>2, <1>3, <1>4 DEF OwnerInv, Owns
  <1>10. DecisionInv'
    BY <1>1, <1>2, <1>3, <1>4 DEF DecisionInv
  <1>11. SeenInv'
    BY <1>1, <1>2, <1>3, <1>4 DEF SeenInv
  <1>12. EndedInv'
    BY <1>1, <1>2, <1>3, <1>4 DEF OnDebugletState, EndedInv
  <1>13. ReleasedIsRecorded'
    BY <1>1, <1>2, <1>3, <1>4 DEF ReleasedIsRecorded
  <1>14. TerminalHoldsNothing'
    BY <1>1, <1>2, <1>3, <1>4 DEF OnDebugletState, TerminalHoldsNothing, Closing
  <1>15. LiveRunsAreCounted'
    BY <1>1, <1>2, <1>3, <1>4 DEF LiveRunsAreCounted, Admitted
  <1>16. RefundedBatchFailed'
    BY <1>1, <1>2, <1>3, <1>4 DEF OnDebugletState, RefundedBatchFailed, Admitted, UploadFailed
  <1> QED
    BY <1>1, <1>5, <1>6, <1>7, <1>8, <1>9, <1>10, <1>11, <1>12, <1>13, <1>14, <1>15, <1>16,
      AccountTypesUnchanged, MemoryTypesUnchanged, ExecTypesUnchanged, WorldTypesUnchanged,
      BindingInvUnchanged, OneOwnerUnchanged, UploadsFirstUnchanged, CleanupInvUnchanged,
      ResultInvUnchanged, KeptInvUnchanged, ReportInvUnchanged, RefusedInvUnchanged,
      AnswerInvUnchanged, CompleteInvUnchanged, EvidenceInvUnchanged, SettleInvUnchanged,
      AcknowledgedUnchanged

\* The first and only result of the run: no report and no observation relied on one before.
LEMMA EndKeeps ==
  ASSUME IInv, NEW r \in Runs, NEW c \in {"zero", "failed"}, End(r, c)
  PROVE  IInv'
  <1> USE DEF IInv, TypeParts
  <1>1. UNCHANGED <<row, observed, binding, requested, attempted, acked, failure, decided, reclaimed, order,
            txn, floor, share, listed, serving, base, sub, upload, hp, seen, answer, alloc, updates,
            posted, stop, sending, window, sess, live, cancels, unseen>>
    BY DEF End, Mishap, records, accounts, memory, handlers, executor, world, Quiet
  <1>2. /\ result \in [Runs -> {"none", "zero", "failed"}]
        /\ ex \in [Runs -> Executing \cup {"absent", "queued", "reporting", "gone"}]
        /\ kept \in [Runs -> {"none", "yes", "unwritten", "released"}]
    BY DEF ExecTypes
  <1>3. \A s \in Runs : row[s] # "absent"
    BY DEF End, BatchInv, Untouched, Executing
  <1>4. result[r] = "none"
    BY DEF End, ResultInv, Executing
  <1>5. ExecTypes'
    BY <1>1, <1>2, <1>3, <1>4 DEF End, Mishap, ExecTypes, Executing
  <1>6. WorldTypes'
    BY <1>1, <1>2, <1>3, <1>4 DEF End, Mishap, WorldTypes
  <1>7. BatchInv'
    BY <1>1, <1>2, <1>3, <1>4 DEF End, Mishap, BatchInv, Untouched
  <1>8. ResultInv'
    BY <1>1, <1>2, <1>3, <1>4 DEF End, Mishap, ResultInv, Bound
  <1>9. KeptInv'
    BY <1>1, <1>2, <1>3, <1>4 DEF End, Mishap, KeptInv
  <1>10. ReportInv'
    BY <1>1, <1>2, <1>3, <1>4 DEF End, Mishap, ReportInv
  <1>11. RefusedInv'
    BY <1>1, <1>2, <1>3, <1>4 DEF End, Mishap, RefusedInv, Executing
  <1>12. AnswerInv'
    BY <1>1, <1>2, <1>3, <1>4 DEF End, Mishap, AnswerInv, Executing
  <1>13. EvidenceInv'
    BY <1>1, <1>2, <1>3, <1>4 DEF End, Mishap, EvidenceInv
  <1>14. SettleInv'
    BY <1>1, <1>2, <1>3, <1>4 DEF End, Mishap, SettleInv, Success, code, ReportInv
  <1>15. AcknowledgedMeansStopped'
    BY <1>1, <1>2, <1>3, <1>4 DEF End, Mishap, AcknowledgedMeansStopped, Executing
  <1>16. ReleasedIsRecorded'
    BY <1>1, <1>2, <1>3, <1>4 DEF End, Mishap, ReleasedIsRecorded
  <1> QED
    BY <1>1, <1>5, <1>6, <1>7, <1>8, <1>9, <1>10, <1>11, <1>12, <1>13, <1>14, <1>15, <1>16,
      RecordTypesUnchanged, AccountTypesUnchanged, MemoryTypesUnchanged, HandlerTypesUnchanged,
      ListedInvUnchanged, BindingInvUnchanged, OwnerInvUnchanged, OneOwnerUnchanged,
      UploadsFirstUnchanged, CleanupInvUnchanged, CompleteInvUnchanged, DecisionInvUnchanged,
      SeenInvUnchanged, EndedInvUnchanged, TerminalUnchanged, LiveUnchanged, RefundedUnchanged DEF
      IInv, TypeParts

\* A report carries a selected result.
LEMMA DeliverKeeps ==
  ASSUME IInv, NEW r \in Runs, Deliver(r)
  PROVE  IInv'
  <1> USE DEF IInv, TypeParts
  <1>1. UNCHANGED <<row, observed, binding, requested, attempted, acked, failure, decided, reclaimed, order,
            txn, floor, share, listed, serving, base, sub, upload, seen, answer, alloc, updates,
            posted, ex, stop, result, kept, window, sess, live, cancels, unseen, mishaps>>
    BY DEF Deliver, Deliverable, Bound, Goes, KeepOthers, records, accounts, memory, handlers, executor,
      world, Quiet
  <1>2. /\ sending \in [Runs -> {"no", "sent", "failed"}]
        /\ hp \in [Actors \X Runs -> Phases]
    BY DEF ExecTypes, HandlerTypes
  <1>3. result[r] # "none"
    BY DEF Deliver, Deliverable, KeptInv
  <1>4. \A s \in Runs : row[s] # "absent"
    BY <1>3 DEF BatchInv, Untouched
  <1>5. HandlerTypes'
    BY <1>1, <1>2, <1>3, <1>4 DEF Deliver, Deliverable, Bound, Goes, KeepOthers, HandlerTypes,
      Actors, Phases
  <1>6. ExecTypes'
    BY <1>1, <1>2, <1>3, <1>4 DEF Deliver, Deliverable, Bound, Goes, KeepOthers, ExecTypes
  <1>7. BatchInv'
    BY <1>1, <1>2, <1>3, <1>4 DEF Deliver, Deliverable, Bound, Goes, KeepOthers, BatchInv,
      Untouched, Actors
  <1>8. UploadsFirst'
    BY <1>1, <1>2, <1>3, <1>4 DEF Deliver, Deliverable, Bound, Goes, KeepOthers, UploadsFirst,
      Actors
  <1>9. ReportInv'
    BY <1>1, <1>2, <1>3, <1>4 DEF Deliver, Deliverable, Bound, Goes, KeepOthers, ReportInv,
      Actors
  <1>10. CompleteInv'
    BY <1>1, <1>2, <1>3, <1>4 DEF Deliver, Deliverable, Bound, Goes, KeepOthers, CompleteInv,
      Cancelling, Actors
  <1>11. EndedInv'
    BY <1>1, <1>2, <1>3, <1>4 DEF Deliver, Deliverable, Bound, Goes, KeepOthers, EndedInv,
      Actors
  <1>12. SettleInv'
    BY ZenonT(60), <1>1, <1>2, <1>3, <1>4 DEF Deliver, Deliverable, Bound, Goes, KeepOthers, SettleInv,
      Success, code, Actors
  <1>13. TerminalHoldsNothing'
    BY <1>1, <1>2, <1>3, <1>4 DEF Deliver, Deliverable, Bound, Goes, KeepOthers,
      TerminalHoldsNothing, Closing, Actors
  <1> QED
    BY <1>1, <1>5, <1>6, <1>7, <1>8, <1>9, <1>10, <1>11, <1>12, <1>13, RecordTypesUnchanged,
      AccountTypesUnchanged, MemoryTypesUnchanged, WorldTypesUnchanged, ListedInvUnchanged,
      BindingInvUnchanged, OwnerInvUnchanged, OneOwnerUnchanged, CleanupInvUnchanged,
      ResultInvUnchanged, KeptInvUnchanged, RefusedInvUnchanged, AnswerInvUnchanged,
      EvidenceInvUnchanged, DecisionInvUnchanged, SeenInvUnchanged, AcknowledgedUnchanged,
      ReleasedUnchanged, LiveUnchanged, RefundedUnchanged

\* The handler nobody waits for is the one that was at work.
LEMMA DeliverLostKeeps ==
  ASSUME IInv, NEW r \in Runs, DeliverLost(r)
  PROVE  IInv'
  <1> USE DEF IInv, TypeParts
  <1>1. UNCHANGED <<row, observed, binding, requested, attempted, acked, failure, decided, reclaimed, order,
            txn, floor, share, listed, serving, base, sub, upload, seen, answer, alloc, updates,
            posted, ex, stop, result, kept, window, sess, live, cancels, unseen>>
    BY DEF DeliverLost, Fault, Mishap, KeepOthers, Unheard, records, accounts, memory, handlers, executor,
      world, Quiet
  <1>2. /\ sending \in [Runs -> {"no", "sent", "failed"}]
        /\ hp \in [Actors \X Runs -> Phases]
    BY DEF ExecTypes, HandlerTypes
  <1>3. \A b \in Actors, s \in Runs :
          \/ hp'[<<b, s>>] = hp[<<b, s>>]
          \/ s = r /\ b \in {"report", "late"} /\ hp'[<<b, s>>] \in {"idle", hp[<<"report", r>>]}
    BY <1>2 DEF DeliverLost, Unheard, Actors
  <1>4. HandlerTypes'
    BY ZenonT(60), <1>1, <1>2 DEF DeliverLost, Fault, Mishap, KeepOthers, Unheard, HandlerTypes, Actors,
      Phases
  <1>5. ExecTypes'
    BY <1>1, <1>2 DEF DeliverLost, Fault, Mishap, KeepOthers, Unheard, ExecTypes
  <1>6. WorldTypes'
    BY <1>1, <1>2 DEF DeliverLost, Fault, Mishap, KeepOthers, Unheard, WorldTypes
  <1>7. BatchInv'
    BY <1>1, <1>2, <1>3 DEF BatchInv, Untouched, Actors
  <1>8. UploadsFirst'
    BY <1>1, <1>2 DEF DeliverLost, Fault, Mishap, KeepOthers, Unheard, UploadsFirst, Actors
  <1>9. ReportInv'
    BY <1>1, <1>2 DEF DeliverLost, Fault, Mishap, KeepOthers, Unheard, ReportInv, Actors
  <1>10. CompleteInv'
    BY <1>1, <1>2 DEF DeliverLost, Fault, Mishap, KeepOthers, Unheard, CompleteInv,
      Cancelling, Actors
  <1>11. EndedInv'
    BY <1>1, <1>2 DEF DeliverLost, Fault, Mishap, KeepOthers, Unheard, EndedInv, Actors
  <1>12. SettleInv'
    BY ZenonT(60), <1>1, <1>2 DEF DeliverLost, Fault, Mishap, KeepOthers, Unheard, SettleInv, Success,
      code, Actors
  <1>13. TerminalHoldsNothing'
    BY <1>1, <1>2 DEF DeliverLost, Fault, Mishap, KeepOthers, Unheard, TerminalHoldsNothing,
      Closing, Actors
  <1> QED
    BY <1>1, <1>4, <1>5, <1>6, <1>7, <1>8, <1>9, <1>10, <1>11, <1>12, <1>13,
      RecordTypesUnchanged, AccountTypesUnchanged, MemoryTypesUnchanged, ListedInvUnchanged,
      BindingInvUnchanged, OwnerInvUnchanged, OneOwnerUnchanged, CleanupInvUnchanged,
      ResultInvUnchanged, KeptInvUnchanged, RefusedInvUnchanged, AnswerInvUnchanged,
      EvidenceInvUnchanged, DecisionInvUnchanged, SeenInvUnchanged, AcknowledgedUnchanged,
      ReleasedUnchanged, LiveUnchanged, RefundedUnchanged

\* An acknowledged report found the end recorded.
LEMMA DeliverAnswerKeeps ==
  ASSUME IInv, NEW r \in Runs, DeliverAnswer(r)
  PROVE  IInv'
  <1> USE DEF IInv, TypeParts
  <1>1. UNCHANGED <<row, observed, binding, requested, attempted, acked, failure, decided, reclaimed, order,
            txn, floor, share, listed, serving, base, sub, upload, seen, answer, alloc, updates,
            posted, stop, result, window, sess, live, cancels, unseen>>
    BY DEF DeliverAnswer, Mishap, Goes, KeepOthers, Acknowledged, records, accounts, memory, handlers,
      executor, world, Quiet
  <1>2. /\ hp \in [Actors \X Runs -> Phases]
        /\ sending \in [Runs -> {"no", "sent", "failed"}]
        /\ kept \in [Runs -> {"none", "yes", "unwritten", "released"}]
        /\ ex \in [Runs -> Executing \cup {"absent", "queued", "reporting", "gone"}]
    BY DEF HandlerTypes, ExecTypes
  <1>3. \A s \in Runs : row[s] # "absent"
    BY DEF DeliverAnswer, BatchInv, Untouched, Actors
  <1>4. ex[r] # "absent"
    BY DEF DeliverAnswer, ReportInv, ResultInv
  <1>5. hp[<<"report", r>>] \in {"ok", "err"}
    BY DEF DeliverAnswer
  <1>6. Moves("report", r, {"idle"}) /\ hp'[<<"report", r>>] \in {"idle"}
    BY <1>2, ActorFacts DEF DeliverAnswer, Goes, Moves
  <1>7. HandlerTypes'
    BY <1>1, <1>2, <1>3, <1>4 DEF DeliverAnswer, Mishap, Goes, KeepOthers, Acknowledged,
      HandlerTypes, Actors, Phases
  <1>8. ExecTypes'
    BY <1>1, <1>2, <1>3, <1>4 DEF DeliverAnswer, Mishap, Goes, KeepOthers, Acknowledged,
      ExecTypes, Executing
  <1>9. WorldTypes'
    BY <1>1, <1>2, <1>3, <1>4 DEF DeliverAnswer, Mishap, Goes, KeepOthers, Acknowledged,
      WorldTypes
  <1>10. BatchInv'
    BY <1>1, <1>3, <1>4, <1>5, <1>6, MoveBatch
  <1>11. UploadsFirst'
    BY <1>1, <1>3, <1>4, <1>5, <1>6, MoveUploads, ActorFacts
  <1>12. ResultInv'
    BY <1>1, <1>2, <1>3, <1>4 DEF DeliverAnswer, Mishap, Goes, KeepOthers, Acknowledged,
      ResultInv, Bound
  <1>13. KeptInv'
    BY <1>1, <1>2, <1>3, <1>4 DEF DeliverAnswer, Mishap, Goes, KeepOthers, Acknowledged,
      KeptInv
  <1>14. ReportInv'
    BY <1>1, <1>3, <1>4, <1>5, <1>6, MoveReport, ActorFacts
  <1>15. RefusedInv'
    BY <1>1, <1>2, <1>3, <1>4 DEF DeliverAnswer, Mishap, Goes, KeepOthers, Acknowledged,
      RefusedInv
  <1>16. AnswerInv'
    BY <1>1, <1>2, <1>3, <1>4 DEF DeliverAnswer, Mishap, Goes, KeepOthers, Acknowledged,
      AnswerInv
  <1>17. CompleteInv'
    BY <1>1, <1>3, <1>4, <1>5, <1>6, MoveComplete, ActorFacts
  <1>18. EndedInv'
    BY <1>1, <1>3, <1>4, <1>5, <1>6, MoveEnded, ActorFacts
  <1>19. SettleInv'
    BY <1>1, <1>3, <1>4, <1>5, <1>6, MoveSettle, ActorFacts
  <1>20. AcknowledgedMeansStopped'
    BY <1>1, <1>2, <1>3, <1>4 DEF DeliverAnswer, Mishap, Goes, KeepOthers, Acknowledged,
      AcknowledgedMeansStopped
  <1>21. ReleasedIsRecorded'
    BY <1>1, <1>2 DEF DeliverAnswer, Mishap, Goes, KeepOthers, Acknowledged,
      ReleasedIsRecorded, EndedInv, Actors
  <1>22. TerminalHoldsNothing'
    BY <1>1, <1>3, <1>4, <1>5, <1>6, MoveTerminal, ActorFacts
  <1> QED
    BY <1>1, <1>7, <1>8, <1>9, <1>10, <1>11, <1>12, <1>13, <1>14, <1>15, <1>16, <1>17, <1>18,
      <1>19, <1>20, <1>21, <1>22, RecordTypesUnchanged, AccountTypesUnchanged, MemoryTypesUnchanged,
      ListedInvUnchanged, BindingInvUnchanged, OwnerInvUnchanged, OneOwnerUnchanged,
      CleanupInvUnchanged, EvidenceInvUnchanged, DecisionInvUnchanged, SeenInvUnchanged,
      LiveUnchanged, RefundedUnchanged

\* A retry changes only the delivery.
LEMMA RetryKeeps ==
  ASSUME IInv, NEW r \in Runs, Retry(r)
  PROVE  IInv'
  <1> USE DEF IInv, TypeParts
  <1>1. UNCHANGED <<row, observed, binding, requested, attempted, acked, failure, decided, reclaimed, order,
            txn, floor, share, listed, serving, base, sub, upload, hp, seen, answer, alloc, updates,
            posted, ex, stop, result, kept, window, sess, live, cancels, unseen, mishaps>>
    BY DEF Retry, records, accounts, memory, handlers, executor, world, Quiet
  <1>2. /\ sending \in [Runs -> {"no", "sent", "failed"}]
    BY DEF ExecTypes
  <1>3. ExecTypes'
    BY <1>1, <1>2 DEF Retry, ExecTypes
  <1> QED
    BY <1>1, <1>3, RecordTypesUnchanged, AccountTypesUnchanged, MemoryTypesUnchanged,
      HandlerTypesUnchanged, WorldTypesUnchanged, BatchInvUnchanged, ListedInvUnchanged,
      BindingInvUnchanged, OwnerInvUnchanged, OneOwnerUnchanged, UploadsFirstUnchanged,
      CleanupInvUnchanged, ResultInvUnchanged, KeptInvUnchanged, ReportInvUnchanged,
      RefusedInvUnchanged, AnswerInvUnchanged, CompleteInvUnchanged, EvidenceInvUnchanged,
      DecisionInvUnchanged, SeenInvUnchanged, EndedInvUnchanged, SettleInvUnchanged,
      AcknowledgedUnchanged, ReleasedUnchanged, TerminalUnchanged, LiveUnchanged, RefundedUnchanged
     

\* The callback returns; what it leaves is not executed again.
LEMMA GiveUpKeeps ==
  ASSUME IInv, NEW r \in Runs, GiveUp(r)
  PROVE  IInv'
  <1> USE DEF IInv, TypeParts
  <1>1. UNCHANGED <<row, observed, binding, requested, attempted, acked, failure, decided, reclaimed, order,
            txn, floor, share, listed, serving, base, sub, upload, hp, seen, answer, alloc, updates,
            posted, stop, result, kept, window, sess, live, cancels, unseen, mishaps>>
    BY DEF GiveUp, records, accounts, memory, handlers, executor, world, Quiet
  <1>2. /\ ex \in [Runs -> Executing \cup {"absent", "queued", "reporting", "gone"}]
        /\ sending \in [Runs -> {"no", "sent", "failed"}]
    BY DEF ExecTypes
  <1>3. \A s \in Runs : row[s] # "absent"
    BY DEF GiveUp, BatchInv, Untouched
  <1>4. ExecTypes'
    BY <1>1, <1>2, <1>3 DEF GiveUp, ExecTypes, Executing
  <1>5. BatchInv'
    BY <1>1, <1>2, <1>3 DEF GiveUp, BatchInv, Untouched
  <1>6. ResultInv'
    BY <1>1, <1>2, <1>3 DEF GiveUp, ResultInv, Bound
  <1>7. RefusedInv'
    BY <1>1, <1>2, <1>3 DEF GiveUp, RefusedInv
  <1>8. AnswerInv'
    BY <1>1, <1>2, <1>3 DEF GiveUp, AnswerInv
  <1>9. AcknowledgedMeansStopped'
    BY <1>1, <1>2, <1>3 DEF GiveUp, AcknowledgedMeansStopped
  <1> QED
    BY <1>1, <1>4, <1>5, <1>6, <1>7, <1>8, <1>9, RecordTypesUnchanged, AccountTypesUnchanged,
      MemoryTypesUnchanged, HandlerTypesUnchanged, WorldTypesUnchanged, ListedInvUnchanged,
      BindingInvUnchanged, OwnerInvUnchanged, OneOwnerUnchanged, UploadsFirstUnchanged,
      CleanupInvUnchanged, KeptInvUnchanged, ReportInvUnchanged, CompleteInvUnchanged,
      EvidenceInvUnchanged, DecisionInvUnchanged, SeenInvUnchanged, EndedInvUnchanged,
      SettleInvUnchanged, ReleasedUnchanged, TerminalUnchanged, LiveUnchanged, RefundedUnchanged DEF
      IInv, TypeParts

\* The first writer records what its request proves; nobody settled before it.
LEMMA CompleteKeeps ==
  ASSUME IInv, NEW a \in Actors, NEW r \in Runs, Complete(a, r)
  PROVE  IInv'
  <1> USE DEF IInv, TypeParts
  <1>1. UNCHANGED <<binding, requested, attempted, acked, failure, decided, reclaimed, order, txn, floor,
            share, listed, serving, base, sub, upload, seen, answer, alloc, updates, posted, ex,
            stop, result, kept, sending, window, sess, live, cancels>>
    BY DEF Complete, RecordExit, Goes, KeepOthers, Mishap, AfterFailure, records, accounts, memory,
      handlers, executor, world, Quiet
  <1>2. /\ row \in [Runs -> States]
        /\ observed \in [Runs -> {"none", "zero", "failed"}]
        /\ hp \in [Actors \X Runs -> Phases]
        /\ unseen \subseteq Runs
        /\ decided \in [Runs -> BOOLEAN]
        /\ result \in [Runs -> {"none", "zero", "failed"}]
        /\ listed \subseteq Runs
    BY DEF RecordTypes, HandlerTypes, WorldTypes, ExecTypes, MemoryTypes
  <1>3. hp[<<a, r>>] = "complete"
    BY DEF Complete
  <1>4. \A s \in Runs : row[s] # "absent"
    BY <1>3 DEF BatchInv, Untouched
  <1>5. Moves(a, r, {"settle", "release", "err", "mark", "idle"}) /\ hp'[<<a, r>>] \in {"settle", "release", "err", "mark", "idle"}
    BY <1>2 DEF Complete, Goes, AfterFailure, Moves
  <1>6. (row' = row /\ observed' = observed) \/ (row[r] # "exited" /\ RecordExit(a, r))
    BY DEF Complete, records
  <1>7. \A s \in Runs : row'[s] = row[s] \/ (s = r /\ row[s] # "exited" /\ row'[s] = "exited")
    BY <1>2, <1>6 DEF RecordExit
  <1>8. row'[r] = row[r] \/ hp'[<<a, r>>] = "settle" \/ r \in unseen'
    BY <1>2 DEF Complete, Goes, records
  <1>9. (hp'[<<a, r>>] = "settle" => row[r] # "exited" /\ RecordExit(a, r))
          /\ (hp'[<<a, r>>] = "release" => row[r] = "exited")
    BY <1>2 DEF Complete, Goes, AfterFailure
  <1>10. \A s \in unseen : s \in unseen'
    BY DEF Complete, Quiet
  <1>11. RecordTypes'
    <2>1. code(a, r) \in {"none", "zero", "failed"}
      BY <1>2 DEF code
    <2>2. row' \in [Runs -> States] /\ observed' \in [Runs -> {"none", "zero", "failed"}]
      BY <1>2, <1>6, <2>1 DEF RecordExit, States
    <2> QED
      BY <1>1, <2>2 DEF RecordTypes
  <1>12. HandlerTypes'
    <2>1. hp' \in [Actors \X Runs -> Phases]
      BY <1>2 DEF Complete, Goes, AfterFailure, Phases
    <2> QED
      BY <1>1, <2>1 DEF HandlerTypes
  <1>13. WorldTypes'
    <2>1. mishaps' \in Nat
      BY DEF Complete, Mishap, Quiet, WorldTypes
    <2>2. unseen' \subseteq Runs
      BY DEF Complete, Quiet, WorldTypes
    <2> QED
      BY <1>1, <2>1, <2>2 DEF WorldTypes
  <1>14. BatchInv'
    BY <1>4, <1>7, MoveBatch
  <1>15. ListedInv'
    BY <1>1, <1>2, <1>4, <1>7 DEF ListedInv
  <1>16. OwnerInv'
    BY <1>1, <1>2, <1>4, <1>7 DEF OwnerInv, Owns
  <1>17. UploadsFirst'
    BY <1>1, <1>3, <1>5, MoveUploads
  <1>18. ReportInv'
    BY <1>1, <1>3, <1>5, MoveReport
  <1>19. CompleteInv'
    BY <1>1, <1>3, <1>5, MoveComplete
  <1>20. EvidenceInv'
    <2>1. code(a, r) = result[r] \/ (code(a, r) = "failed" /\ (acked[r] \/ upload[r] = "refused"))
      BY <1>3 DEF code, CompleteInv, Cancelling, Actors
    <2> QED
      BY <2>1, <1>1, <1>2, <1>6 DEF RecordExit, EvidenceInv
  <1>21. DecisionInv'
    BY <1>1, <1>2, <1>6 DEF DecisionInv, RecordExit, code
  <1>22. SeenInv'
    BY <1>1, <1>2, <1>4, <1>7 DEF SeenInv
  <1>23. EndedInv'
    <2> SUFFICES ASSUME NEW s \in Runs, NEW b \in Actors, hp'[<<b, s>>] \in {"settle", "release", "ok"}
                 PROVE  row'[s] = "exited"
      BY DEF EndedInv
    <2>1. CASE b = a /\ s = r
      <3>1. row[r] = "exited" \/ RecordExit(a, r)
        BY <2>1, <1>5, <1>9 DEF RecordExit
      <3> QED
        BY <2>1, <3>1, <1>2, <1>7 DEF RecordExit
    <2>2. CASE ~ (b = a /\ s = r)
      <3>1. hp[<<b, s>>] = hp'[<<b, s>>]
        BY <2>2, <1>5 DEF Moves
      <3> QED
        BY <3>1, <1>7 DEF EndedInv
    <2> QED
      BY <2>1, <2>2
  <1>24. SettleInv'
    <2> SUFFICES ASSUME NEW s \in Runs, NEW b \in Actors, hp'[<<b, s>>] = "settle"
                 PROVE  (Success(s)' /\ code(b, s)' = "zero") \/ (~ Success(s)' /\ code(b, s)' # "zero")
      BY DEF SettleInv
    <2>1. CASE b = a /\ s = r
      <3>1. row[r] # "exited" /\ RecordExit(a, r)
        BY <2>1, <1>9 DEF RecordExit
      <3>2. ~ decided'[s]
        BY <2>1, <3>1, <1>1 DEF DecisionInv
      <3>3. observed'[s] = code(a, r) /\ code(b, s)' = code(a, r)
        BY <2>1, <3>1, <1>1, <1>2 DEF RecordExit, code
      <3> QED
        BY <3>2, <3>3 DEF Success
    <2>2. CASE ~ (b = a /\ s = r)
      <3>1. hp[<<b, s>>] = "settle"
        BY <2>2, <1>5 DEF Moves
      <3>2. row[s] = "exited"
        BY <3>1 DEF EndedInv
      <3>3. decided'[s] = decided[s] /\ observed'[s] = observed[s]
        BY <3>2, <1>1, <1>2, <1>6 DEF RecordExit
      <3> QED
        BY <3>1, <3>3, <1>1 DEF SettleInv, Success, code
    <2> QED
      BY <2>1, <2>2
  <1>25. ReleasedIsRecorded'
    BY <1>1, <1>2, <1>4, <1>7 DEF ReleasedIsRecorded
  <1>26. TerminalHoldsNothing'
    <2> SUFFICES ASSUME NEW s \in Runs, row'[s] = "exited" \/ reclaimed'[s], ~ Closing(s)', s \notin unseen'
                 PROVE  ~ floor'[s] /\ ~ share'[s]
      BY DEF TerminalHoldsNothing
    <2>1. ~ Closing(s)
      BY <1>3, <1>5 DEF Closing, Moves
    <2>2. s = r => row'[s] = row[s]
      BY <1>8 DEF Closing
    <2> QED
      BY <1>1, <1>7, <1>10, <2>1, <2>2 DEF TerminalHoldsNothing
  <1>27. LiveRunsAreCounted'
    BY <1>1, <1>2, <1>4, <1>7 DEF LiveRunsAreCounted, Admitted
  <1>28. RefundedBatchFailed'
    BY <1>1, <1>4 DEF RefundedBatchFailed, Admitted, UploadFailed
  <1> QED
    BY <1>1, <1>11, <1>12, <1>13, <1>14, <1>15, <1>16, <1>17, <1>18, <1>19, <1>20, <1>21, <1>22,
      <1>23, <1>24, <1>25, <1>26, <1>27, <1>28, AccountTypesUnchanged, MemoryTypesUnchanged,
      ExecTypesUnchanged, BindingInvUnchanged, OneOwnerUnchanged, CleanupInvUnchanged,
      ResultInvUnchanged, KeptInvUnchanged, RefusedInvUnchanged, AnswerInvUnchanged,
      AcknowledgedUnchanged

\* A settlement leaves the handler to release.
LEMMA SettleKeeps ==
  ASSUME IInv, NEW a \in Actors, NEW r \in Runs, Settle(a, r)
  PROVE  IInv'
  <1> USE DEF IInv, TypeParts
  <1>1. UNCHANGED <<row, observed, binding, requested, attempted, acked, failure, decided, reclaimed, txn,
            floor, share, listed, serving, base, sub, upload, seen, answer, alloc, updates, posted,
            ex, stop, result, kept, sending, window, sess, live, cancels, unseen>>
    BY DEF Settle, SettleOrder, Goes, KeepOthers, Mishap, records, accounts, memory, handlers, executor,
      world, Quiet
  <1>2. /\ order \in [Runs -> {"outstanding", "credited", "refunded"}]
        /\ hp \in [Actors \X Runs -> Phases]
    BY DEF AccountTypes, HandlerTypes
  <1>3. \A s \in Runs : row[s] # "absent"
    BY DEF Settle, BatchInv, Untouched
  <1>4. AccountTypes'
    BY <1>1, <1>2, <1>3 DEF Settle, SettleOrder, Goes, KeepOthers, Mishap, AccountTypes
  <1>5. HandlerTypes'
    BY <1>1, <1>2, <1>3 DEF Settle, SettleOrder, Goes, KeepOthers, Mishap, HandlerTypes,
      Actors, Phases
  <1>6. WorldTypes'
    BY <1>1, <1>2, <1>3 DEF Settle, SettleOrder, Goes, KeepOthers, Mishap, WorldTypes
  <1>7. BatchInv'
    BY <1>1, <1>2, <1>3 DEF Settle, SettleOrder, Goes, KeepOthers, Mishap, BatchInv,
      Untouched, Actors
  <1>8. UploadsFirst'
    BY <1>1, <1>2, <1>3 DEF Settle, SettleOrder, Goes, KeepOthers, Mishap, UploadsFirst,
      Actors
  <1>9. ReportInv'
    BY <1>1, <1>2, <1>3 DEF Settle, SettleOrder, Goes, KeepOthers, Mishap, ReportInv, Actors
  <1>10. CompleteInv'
    BY <1>1, <1>2, <1>3 DEF Settle, SettleOrder, Goes, KeepOthers, Mishap, CompleteInv,
      Cancelling, Actors
  <1>11. EndedInv'
    BY <1>1, <1>2, <1>3 DEF Settle, SettleOrder, Goes, KeepOthers, Mishap, EndedInv, Actors
  <1>12. SettleInv'
    BY <1>1, <1>2, <1>3 DEF Settle, SettleOrder, Goes, KeepOthers, Mishap, SettleInv, Success,
      code, Actors
  <1>13. TerminalHoldsNothing'
    BY <1>1, <1>2, <1>3 DEF Settle, SettleOrder, Goes, KeepOthers, Mishap,
      TerminalHoldsNothing, Closing, Actors
  <1> QED
    BY <1>1, <1>4, <1>5, <1>6, <1>7, <1>8, <1>9, <1>10, <1>11, <1>12, <1>13,
      RecordTypesUnchanged, MemoryTypesUnchanged, ExecTypesUnchanged, ListedInvUnchanged,
      BindingInvUnchanged, OwnerInvUnchanged, OneOwnerUnchanged, CleanupInvUnchanged,
      ResultInvUnchanged, KeptInvUnchanged, RefusedInvUnchanged, AnswerInvUnchanged,
      EvidenceInvUnchanged, DecisionInvUnchanged, SeenInvUnchanged, AcknowledgedUnchanged,
      ReleasedUnchanged, LiveUnchanged, RefundedUnchanged

\* What is released has ended.
LEMMA ReleaseKeeps ==
  ASSUME IInv, NEW a \in Actors, NEW r \in Runs, Release(a, r)
  PROVE  IInv'
  <1> USE DEF IInv, TypeParts
  <1>1. UNCHANGED <<row, observed, binding, requested, attempted, acked, failure, decided, reclaimed, order,
            txn, listed, serving, base, sub, upload, seen, answer, alloc, updates, posted, ex, stop,
            result, kept, sending, window, sess, live, cancels, mishaps>>
    BY DEF Release, Releases, Goes, KeepOthers, records, accounts, memory, handlers, executor, world, Quiet
  <1>2. /\ floor \in [Runs -> BOOLEAN]
        /\ share \in [Runs -> BOOLEAN]
        /\ unseen \subseteq Runs
        /\ hp \in [Actors \X Runs -> Phases]
    BY DEF MemoryTypes, WorldTypes, HandlerTypes
  <1>3. \A s \in Runs : row[s] # "absent"
    BY DEF Release, BatchInv, Untouched
  <1>4. MemoryTypes'
    BY <1>1, <1>2, <1>3 DEF Release, Releases, Goes, KeepOthers, MemoryTypes
  <1>5. HandlerTypes'
    BY <1>1, <1>2, <1>3 DEF Release, Releases, Goes, KeepOthers, HandlerTypes, Actors, Phases
  <1>6. WorldTypes'
    BY <1>1, <1>2, <1>3 DEF Release, Releases, Goes, KeepOthers, WorldTypes
  <1>7. BatchInv'
    BY <1>1, <1>2, <1>3 DEF Release, Releases, Goes, KeepOthers, BatchInv, Untouched, Actors
  <1>8. UploadsFirst'
    BY <1>1, <1>2, <1>3 DEF Release, Releases, Goes, KeepOthers, UploadsFirst, Actors
  <1>9. ReportInv'
    BY <1>1, <1>2, <1>3 DEF Release, Releases, Goes, KeepOthers, ReportInv, Actors
  <1>10. CompleteInv'
    BY <1>1, <1>2, <1>3 DEF Release, Releases, Goes, KeepOthers, CompleteInv, Cancelling,
      Actors
  <1>11. EndedInv'
    BY <1>1, <1>2, <1>3 DEF Release, Releases, Goes, KeepOthers, EndedInv, Actors
  <1>12. SettleInv'
    BY <1>1, <1>2, <1>3 DEF Release, Releases, Goes, KeepOthers, SettleInv, Success, code,
      Actors
  <1>13. TerminalHoldsNothing'
    BY <1>1, <1>2, <1>3 DEF Release, Releases, Goes, KeepOthers, TerminalHoldsNothing,
      Closing, Actors, EndedInv
  <1>14. LiveRunsAreCounted'
    BY <1>1, <1>2, <1>3 DEF Release, Releases, Goes, KeepOthers, LiveRunsAreCounted, Admitted,
      EndedInv
  <1> QED
    BY <1>1, <1>4, <1>5, <1>6, <1>7, <1>8, <1>9, <1>10, <1>11, <1>12, <1>13, <1>14,
      RecordTypesUnchanged, AccountTypesUnchanged, ExecTypesUnchanged, ListedInvUnchanged,
      BindingInvUnchanged, OwnerInvUnchanged, OneOwnerUnchanged, CleanupInvUnchanged,
      ResultInvUnchanged, KeptInvUnchanged, RefusedInvUnchanged, AnswerInvUnchanged,
      EvidenceInvUnchanged, DecisionInvUnchanged, SeenInvUnchanged, AcknowledgedUnchanged,
      ReleasedUnchanged, RefundedUnchanged

\* A cancellation is of an admitted run.
LEMMA AbortDebugletKeeps ==
  ASSUME IInv, NEW r \in Runs, AbortDebuglet(r)
  PROVE  IInv'
  <1> USE DEF IInv, TypeParts
  <1>1. UNCHANGED <<row, observed, binding, requested, attempted, acked, failure, decided, reclaimed, order,
            txn, floor, share, listed, serving, base, sub, upload, seen, answer, alloc, updates,
            posted, ex, stop, result, kept, sending, window, sess, live, unseen, mishaps>>
    BY DEF AbortDebuglet, Admitted, Bound, Goes, KeepOthers, records, accounts, memory, handlers, executor,
      world, Quiet
  <1>2. /\ cancels \in [Runs -> Nat]
        /\ hp \in [Actors \X Runs -> Phases]
    BY DEF WorldTypes, HandlerTypes
  <1>3. \A s \in Runs : row[s] # "absent"
    BY DEF AbortDebuglet, Admitted, BatchInv
  <1>4. HandlerTypes'
    BY <1>1, <1>2, <1>3 DEF AbortDebuglet, Admitted, Bound, Goes, KeepOthers, HandlerTypes,
      Actors, Phases
  <1>5. WorldTypes'
    BY <1>1, <1>2, <1>3 DEF AbortDebuglet, Admitted, Bound, Goes, KeepOthers, WorldTypes
  <1>6. BatchInv'
    BY <1>1, <1>2, <1>3 DEF AbortDebuglet, Admitted, Bound, Goes, KeepOthers, BatchInv,
      Untouched, Actors
  <1>7. UploadsFirst'
    BY <1>1, <1>2, <1>3 DEF AbortDebuglet, Admitted, Bound, Goes, KeepOthers, UploadsFirst,
      Actors
  <1>8. ReportInv'
    BY <1>1, <1>2, <1>3 DEF AbortDebuglet, Admitted, Bound, Goes, KeepOthers, ReportInv,
      Actors
  <1>9. CompleteInv'
    BY <1>1, <1>2, <1>3 DEF AbortDebuglet, Admitted, Bound, Goes, KeepOthers, CompleteInv,
      Cancelling, Actors
  <1>10. EndedInv'
    BY <1>1, <1>2, <1>3 DEF AbortDebuglet, Admitted, Bound, Goes, KeepOthers, EndedInv, Actors
  <1>11. SettleInv'
    BY <1>1, <1>2, <1>3 DEF AbortDebuglet, Admitted, Bound, Goes, KeepOthers, SettleInv,
      Success, code, Actors
  <1>12. TerminalHoldsNothing'
    BY <1>1, <1>2, <1>3 DEF AbortDebuglet, Admitted, Bound, Goes, KeepOthers,
      TerminalHoldsNothing, Closing, Actors
  <1> QED
    BY <1>1, <1>4, <1>5, <1>6, <1>7, <1>8, <1>9, <1>10, <1>11, <1>12, RecordTypesUnchanged,
      AccountTypesUnchanged, MemoryTypesUnchanged, ExecTypesUnchanged, ListedInvUnchanged,
      BindingInvUnchanged, OwnerInvUnchanged, OneOwnerUnchanged, CleanupInvUnchanged,
      ResultInvUnchanged, KeptInvUnchanged, RefusedInvUnchanged, AnswerInvUnchanged,
      EvidenceInvUnchanged, DecisionInvUnchanged, SeenInvUnchanged, AcknowledgedUnchanged,
      ReleasedUnchanged, LiveUnchanged, RefundedUnchanged

\* What a handler reads of an end stays true.
LEMMA AbortReadKeeps ==
  ASSUME IInv, NEW a \in Cancelling, NEW r \in Runs, AbortRead(a, r)
  PROVE  IInv'
  <1> USE DEF IInv, TypeParts
  <1>1. UNCHANGED <<row, observed, binding, requested, attempted, acked, failure, decided, reclaimed, order,
            txn, floor, share, listed, serving, base, sub, upload, answer, alloc, updates, posted,
            ex, stop, result, kept, sending, window, sess, live, cancels, unseen, mishaps>>
    BY DEF AbortRead, Goes, KeepOthers, records, accounts, memory, handlers, executor, world, Quiet
  <1>2. /\ seen \in [Actors \X Runs -> States]
        /\ hp \in [Actors \X Runs -> Phases]
        /\ row \in [Runs -> States]
    BY DEF HandlerTypes, RecordTypes
  <1>3. a \in Actors /\ a \notin {"report", "late"}
    BY ActorFacts
  <1>4. \A s \in Runs : row[s] # "absent"
    BY <1>3 DEF AbortRead, BatchInv, Untouched
  <1>5. hp[<<a, r>>] \in {"read", "uread"}
    BY DEF AbortRead
  <1>6. Moves(a, r, {"request", "urequest"}) /\ hp'[<<a, r>>] \in {"request", "urequest"}
    BY <1>2, <1>3 DEF AbortRead, Goes, Moves
  <1>7. HandlerTypes'
    <2>1. hp' \in [Actors \X Runs -> Phases]
      BY <1>2, <1>3 DEF AbortRead, Goes, Phases
    <2>2. seen' \in [Actors \X Runs -> States]
      BY <1>2, <1>3 DEF AbortRead, Goes, States
    <2> QED
      BY <1>1, <2>1, <2>2 DEF HandlerTypes
  <1>8. BatchInv'
    BY <1>1, <1>3, <1>4, <1>5, <1>6, MoveBatch
  <1>9. UploadsFirst'
    BY <1>1, <1>3, <1>4, <1>5, <1>6, MoveUploads
  <1>10. ReportInv'
    BY <1>1, <1>3, <1>4, <1>5, <1>6, MoveReport
  <1>11. CompleteInv'
    BY <1>1, <1>3, <1>4, <1>5, <1>6, MoveComplete
  <1>12. SeenInv'
    BY <1>1, <1>2, <1>3, <1>4 DEF AbortRead, Goes, KeepOthers, SeenInv, Actors
  <1>13. EndedInv'
    BY <1>1, <1>3, <1>4, <1>5, <1>6, MoveEnded
  <1>14. SettleInv'
    BY <1>1, <1>3, <1>4, <1>5, <1>6, MoveSettle
  <1>15. TerminalHoldsNothing'
    BY <1>1, <1>3, <1>4, <1>5, <1>6, MoveTerminal
  <1> QED
    BY <1>1, <1>7, <1>8, <1>9, <1>10, <1>11, <1>12, <1>13, <1>14, <1>15, RecordTypesUnchanged,
      AccountTypesUnchanged, MemoryTypesUnchanged, ExecTypesUnchanged, WorldTypesUnchanged,
      ListedInvUnchanged, BindingInvUnchanged, OwnerInvUnchanged, OneOwnerUnchanged,
      CleanupInvUnchanged, ResultInvUnchanged, KeptInvUnchanged, RefusedInvUnchanged,
      AnswerInvUnchanged, EvidenceInvUnchanged, DecisionInvUnchanged, AcknowledgedUnchanged,
      ReleasedUnchanged, LiveUnchanged, RefundedUnchanged

\* It releases what it saw ended and completes what is acknowledged.
LEMMA AbortRequestKeeps ==
  ASSUME IInv, NEW a \in Cancelling, NEW r \in Runs, AbortRequest(a, r)
  PROVE  IInv'
  <1> USE DEF IInv, TypeParts
  <1>1. UNCHANGED <<row, observed, binding, decided, reclaimed, order, txn, floor, share, listed, serving,
            base, sub, upload, answer, alloc, updates, posted, ex, stop, result, kept, sending,
            window, sess, live, cancels, unseen, mishaps>>
    BY DEF AbortRequest, Cancels, Goes, KeepOthers, records, accounts, memory, handlers, executor, world,
      Quiet
  <1>2. /\ requested \in [Runs -> BOOLEAN]
        /\ attempted \in [Runs -> BOOLEAN]
        /\ acked \in [Runs -> BOOLEAN]
        /\ failure \in [Runs -> {"", "already_terminal", "original_binding_unavailable", "executor_refused", "transport_outcome_unknown"}]
        /\ hp \in [Actors \X Runs -> Phases]
        /\ seen \in [Actors \X Runs -> States]
    BY DEF RecordTypes, HandlerTypes
  <1>3. a \in Actors /\ a \notin {"report", "late"}
    BY ActorFacts
  <1>4. \A s \in Runs : row[s] # "absent"
    BY <1>3 DEF AbortRequest, BatchInv, Untouched
  <1>5. acked' = acked
    BY <1>2 DEF AbortRequest, Cancels, Fails, RecordTypes
  <1>6. hp[<<a, r>>] = "request"
    BY DEF AbortRequest
  <1>7. Moves(a, r, {"release", "complete", "attempt"}) /\ hp'[<<a, r>>] \in {"release", "complete", "attempt"}
    BY <1>2, <1>3 DEF AbortRequest, Goes, Moves
  <1>8. hp'[<<a, r>>] = "release" => row[r] = "exited"
    BY <1>2, <1>3 DEF AbortRequest, Goes, SeenInv
  <1>9. hp'[<<a, r>>] = "complete" => acked[r]
    BY <1>2, <1>3 DEF AbortRequest, Goes
  <1>10. RecordTypes'
    BY <1>1, <1>2 DEF AbortRequest, Cancels, Fails, RecordTypes
  <1>11. HandlerTypes'
    <2>1. hp' \in [Actors \X Runs -> Phases]
      BY <1>2, <1>3 DEF AbortRequest, Goes, Phases
    <2>2. seen' \in [Actors \X Runs -> States]
      BY <1>2, <1>3 DEF AbortRequest, Goes, States
    <2> QED
      BY <1>1, <2>1, <2>2 DEF HandlerTypes
  <1>12. BatchInv'
    BY <1>1, <1>3, <1>4, <1>5, <1>6, <1>7, <1>8, <1>9, MoveBatch
  <1>13. UploadsFirst'
    BY <1>1, <1>3, <1>4, <1>5, <1>6, <1>7, <1>8, <1>9, MoveUploads
  <1>14. ReportInv'
    BY <1>1, <1>3, <1>4, <1>5, <1>6, <1>7, <1>8, <1>9, MoveReport
  <1>15. CompleteInv'
    BY <1>1, <1>3, <1>4, <1>5, <1>6, <1>7, <1>8, <1>9, MoveComplete
  <1>16. EvidenceInv'
    BY <1>1, <1>2, <1>3, <1>4, <1>5 DEF AbortRequest, Cancels, Goes, KeepOthers, EvidenceInv
  <1>17. SeenInv'
    BY ZenonT(60), <1>1, <1>2, <1>3, <1>4, <1>5 DEF AbortRequest, Cancels, Goes, KeepOthers, SeenInv,
      Actors
  <1>18. EndedInv'
    BY <1>1, <1>3, <1>4, <1>5, <1>6, <1>7, <1>8, <1>9, MoveEnded
  <1>19. SettleInv'
    BY <1>1, <1>3, <1>4, <1>5, <1>6, <1>7, <1>8, <1>9, MoveSettle
  <1>20. AcknowledgedMeansStopped'
    BY <1>1, <1>2, <1>3, <1>4, <1>5 DEF AbortRequest, Cancels, Goes, KeepOthers,
      AcknowledgedMeansStopped
  <1>21. TerminalHoldsNothing'
    BY <1>1, <1>3, <1>4, <1>5, <1>6, <1>7, <1>8, <1>9, MoveTerminal
  <1> QED
    BY <1>1, <1>10, <1>11, <1>12, <1>13, <1>14, <1>15, <1>16, <1>17, <1>18, <1>19, <1>20, <1>21,
      AccountTypesUnchanged, MemoryTypesUnchanged, ExecTypesUnchanged, WorldTypesUnchanged,
      ListedInvUnchanged, BindingInvUnchanged, OwnerInvUnchanged, OneOwnerUnchanged,
      CleanupInvUnchanged, ResultInvUnchanged, KeptInvUnchanged, RefusedInvUnchanged,
      AnswerInvUnchanged, DecisionInvUnchanged, ReleasedUnchanged, LiveUnchanged, RefundedUnchanged
     

\* The attempt leaves the acknowledgement alone.
LEMMA AbortAttemptKeeps ==
  ASSUME IInv, NEW a \in Cancelling, NEW r \in Runs, AbortAttempt(a, r)
  PROVE  IInv'
  <1> USE DEF IInv, TypeParts
  <1>1. UNCHANGED <<row, observed, binding, decided, reclaimed, order, txn, floor, share, listed, serving,
            base, sub, upload, seen, answer, alloc, updates, posted, ex, stop, result, kept,
            sending, window, sess, live, cancels, unseen, mishaps>>
    BY DEF AbortAttempt, Cancels, Fails, Goes, KeepOthers, HasClient, Bound, Returns, records, accounts,
      memory, handlers, executor, world, Quiet
  <1>2. /\ requested \in [Runs -> BOOLEAN]
        /\ attempted \in [Runs -> BOOLEAN]
        /\ acked \in [Runs -> BOOLEAN]
        /\ failure \in [Runs -> {"", "already_terminal", "original_binding_unavailable", "executor_refused", "transport_outcome_unknown"}]
        /\ hp \in [Actors \X Runs -> Phases]
    BY DEF RecordTypes, HandlerTypes
  <1>3. a \in Actors /\ a \notin {"report", "late"}
    BY ActorFacts
  <1>4. \A s \in Runs : row[s] # "absent"
    BY <1>3 DEF AbortAttempt, BatchInv, Untouched
  <1>5. acked' = acked
    BY <1>2 DEF AbortAttempt, Cancels, Fails, RecordTypes
  <1>6. hp[<<a, r>>] = "attempt"
    BY DEF AbortAttempt
  <1>7. Moves(a, r, {"asking", "mark", "idle"}) /\ hp'[<<a, r>>] \in {"asking", "mark", "idle"}
    BY <1>2, <1>3 DEF AbortAttempt, Goes, Returns, Moves
  <1>8. RecordTypes'
    <2>1. requested' \in [Runs -> BOOLEAN]
      BY <1>2 DEF AbortAttempt, Cancels, Fails
    <2>2. attempted' \in [Runs -> BOOLEAN]
      BY <1>2 DEF AbortAttempt, Cancels, Fails
    <2>3. acked' \in [Runs -> BOOLEAN]
      BY <1>2 DEF AbortAttempt, Cancels, Fails
    <2>4. failure' \in [Runs -> {"", "already_terminal", "original_binding_unavailable",
                               "executor_refused", "transport_outcome_unknown"}]
      BY <1>2 DEF AbortAttempt, Cancels, Fails
    <2> QED
      BY <1>1, <2>1, <2>2, <2>3, <2>4 DEF RecordTypes
  <1>9. HandlerTypes'
    <2>1. hp' \in [Actors \X Runs -> Phases]
      BY <1>2, <1>3 DEF AbortAttempt, Goes, Returns, Phases
    <2> QED
      BY <1>1, <2>1 DEF HandlerTypes
  <1>10. BatchInv'
    BY <1>1, <1>3, <1>4, <1>5, <1>6, <1>7, MoveBatch
  <1>11. UploadsFirst'
    BY <1>1, <1>3, <1>4, <1>5, <1>6, <1>7, MoveUploads
  <1>12. ReportInv'
    BY <1>1, <1>3, <1>4, <1>5, <1>6, <1>7, MoveReport
  <1>13. CompleteInv'
    BY <1>1, <1>3, <1>4, <1>5, <1>6, <1>7, MoveComplete
  <1>14. EvidenceInv'
    BY <1>1, <1>2, <1>3, <1>4, <1>5 DEF AbortAttempt, Cancels, Fails, Goes, KeepOthers,
      HasClient, Bound, Returns, EvidenceInv
  <1>15. EndedInv'
    BY <1>1, <1>3, <1>4, <1>5, <1>6, <1>7, MoveEnded
  <1>16. SettleInv'
    BY <1>1, <1>3, <1>4, <1>5, <1>6, <1>7, MoveSettle
  <1>17. AcknowledgedMeansStopped'
    BY <1>1, <1>2, <1>3, <1>4, <1>5 DEF AbortAttempt, Cancels, Fails, Goes, KeepOthers,
      HasClient, Bound, Returns, AcknowledgedMeansStopped
  <1>18. TerminalHoldsNothing'
    BY <1>1, <1>3, <1>4, <1>5, <1>6, <1>7, MoveTerminal
  <1> QED
    BY <1>1, <1>8, <1>9, <1>10, <1>11, <1>12, <1>13, <1>14, <1>15, <1>16, <1>17, <1>18,
      AccountTypesUnchanged, MemoryTypesUnchanged, ExecTypesUnchanged, WorldTypesUnchanged,
      ListedInvUnchanged, BindingInvUnchanged, OwnerInvUnchanged, OneOwnerUnchanged,
      CleanupInvUnchanged, ResultInvUnchanged, KeptInvUnchanged, RefusedInvUnchanged,
      AnswerInvUnchanged, DecisionInvUnchanged, SeenInvUnchanged, ReleasedUnchanged, LiveUnchanged,
      RefundedUnchanged

\* A handler that fails had nothing to close.
LEMMA AbortFailsKeeps ==
  ASSUME IInv, NEW a \in Cancelling, NEW r \in Runs, AbortFails(a, r)
  PROVE  IInv'
  <1> USE DEF IInv, TypeParts
  <1>1. UNCHANGED <<row, observed, binding, requested, attempted, acked, failure, decided, reclaimed, order,
            txn, floor, share, listed, serving, base, sub, upload, alloc, updates, posted, ex, stop,
            result, kept, sending, window, sess, live, cancels, unseen>>
    BY DEF AbortFails, Goes, KeepOthers, Returns, Mishap, records, accounts, memory, handlers, executor,
      world, Quiet
  <1>2. /\ hp \in [Actors \X Runs -> Phases]
        /\ seen \in [Actors \X Runs -> States]
        /\ answer \in [Actors \X Runs -> {"none", "ack", "notfound", "refused", "lost"}]
    BY DEF HandlerTypes
  <1>3. a \in Actors /\ a \notin {"report", "late"}
    BY ActorFacts
  <1>4. \A s \in Runs : row[s] # "absent"
    BY <1>3 DEF AbortFails, BatchInv, Untouched
  <1>5. hp[<<a, r>>] \in {"read", "request", "attempt", "answered", "uread", "urequest"}
    BY DEF AbortFails
  <1>6. Moves(a, r, {"mark", "idle"}) /\ hp'[<<a, r>>] \in {"mark", "idle"}
    BY <1>2, <1>3 DEF AbortFails, Goes, Returns, Moves
  <1>7. HandlerTypes'
    <2>1. hp' \in [Actors \X Runs -> Phases]
      BY <1>2, <1>3 DEF AbortFails, Goes, Returns, Phases
    <2>2. seen' \in [Actors \X Runs -> States]
      BY <1>2, <1>3 DEF AbortFails, Goes, Returns, States
    <2>3. answer' \in [Actors \X Runs -> {"none", "ack", "notfound", "refused", "lost"}]
      BY <1>2, <1>3 DEF AbortFails, Goes, Returns
    <2> QED
      BY <1>1, <2>1, <2>2, <2>3 DEF HandlerTypes
  <1>8. WorldTypes'
    BY <1>1, <1>2, <1>3, <1>4 DEF AbortFails, Goes, KeepOthers, Returns, Mishap, WorldTypes
  <1>9. BatchInv'
    BY <1>1, <1>3, <1>4, <1>5, <1>6, MoveBatch
  <1>10. UploadsFirst'
    BY <1>1, <1>3, <1>4, <1>5, <1>6, MoveUploads
  <1>11. ReportInv'
    BY <1>1, <1>3, <1>4, <1>5, <1>6, MoveReport
  <1>12. AnswerInv'
    BY <1>1, <1>2, <1>3, <1>4 DEF AbortFails, Goes, KeepOthers, Returns, Mishap, AnswerInv,
      Actors
  <1>13. CompleteInv'
    BY <1>1, <1>3, <1>4, <1>5, <1>6, MoveComplete
  <1>14. SeenInv'
    BY <1>1, <1>2, <1>3, <1>4 DEF AbortFails, Goes, KeepOthers, Returns, Mishap, SeenInv,
      Actors
  <1>15. EndedInv'
    BY <1>1, <1>3, <1>4, <1>5, <1>6, MoveEnded
  <1>16. SettleInv'
    BY <1>1, <1>3, <1>4, <1>5, <1>6, MoveSettle
  <1>17. TerminalHoldsNothing'
    BY <1>1, <1>3, <1>4, <1>5, <1>6, MoveTerminal
  <1> QED
    BY <1>1, <1>7, <1>8, <1>9, <1>10, <1>11, <1>12, <1>13, <1>14, <1>15, <1>16, <1>17,
      RecordTypesUnchanged, AccountTypesUnchanged, MemoryTypesUnchanged, ExecTypesUnchanged,
      ListedInvUnchanged, BindingInvUnchanged, OwnerInvUnchanged, OneOwnerUnchanged,
      CleanupInvUnchanged, ResultInvUnchanged, KeptInvUnchanged, RefusedInvUnchanged,
      EvidenceInvUnchanged, DecisionInvUnchanged, AcknowledgedUnchanged, ReleasedUnchanged,
      LiveUnchanged, RefundedUnchanged

\* Only a bound run is signalled, which has no result yet if it is queued.
LEMMA OnAbortKeeps ==
  ASSUME IInv, NEW a \in Cancelling, NEW r \in Runs, OnAbort(a, r)
  PROVE  IInv'
  <1> USE DEF IInv, TypeParts
  <1>1. UNCHANGED <<row, observed, binding, requested, attempted, acked, failure, decided, reclaimed, order,
            txn, floor, share, listed, serving, base, sub, upload, seen, alloc, updates, posted,
            result, kept, sending, window, sess, live, cancels, unseen, mishaps>>
    BY DEF OnAbort, Answers, Signals, Goes, KeepOthers, Bound, records, accounts, memory, handlers,
      executor, world, Quiet
  <1>2. /\ answer \in [Actors \X Runs -> {"none", "ack", "notfound", "refused", "lost"}]
        /\ hp \in [Actors \X Runs -> Phases]
        /\ stop \in [Runs -> BOOLEAN]
        /\ ex \in [Runs -> Executing \cup {"absent", "queued", "reporting", "gone"}]
    BY DEF HandlerTypes, ExecTypes
  <1>3. a \in Actors /\ a \notin {"report", "late"}
    BY ActorFacts
  <1>4. \A s \in Runs : row[s] # "absent"
    BY <1>3 DEF OnAbort, BatchInv, Untouched
  <1>5. hp[<<a, r>>] = "asking"
    BY DEF OnAbort
  <1>6. Moves(a, r, {"answered", "joining"}) /\ hp'[<<a, r>>] \in {"answered", "joining"}
    BY <1>2, <1>3 DEF OnAbort, Answers, Goes, Moves
  <1>7. \A s \in Runs : ex'[s] = ex[s] \/ (s = r /\ ex[s] = "queued" /\ ex'[s] = "cancelled" /\ Bound(r))
    BY <1>2 DEF OnAbort, Signals, executor
  <1>8. \A b \in Actors, s \in Runs : answer'[<<b, s>>] \in {answer[<<b, s>>], "notfound"}
    BY <1>2 DEF OnAbort, Answers
  <1>9. HandlerTypes'
    <2>1. hp' \in [Actors \X Runs -> Phases]
      BY <1>2, <1>3 DEF OnAbort, Answers, Goes, Phases
    <2>2. answer' \in [Actors \X Runs -> {"none", "ack", "notfound", "refused", "lost"}]
      BY <1>2, <1>3 DEF OnAbort, Answers, Goes
    <2> QED
      BY <1>1, <2>1, <2>2 DEF HandlerTypes
  <1>10. ExecTypes'
    BY <1>1, <1>2 DEF OnAbort, Signals, executor, Executing, ExecTypes
  <1>11. BatchInv'
    BY <1>1, <1>3, <1>4, <1>5, <1>6, <1>7, <1>8, MoveBatch
  <1>12. UploadsFirst'
    BY <1>1, <1>3, <1>4, <1>5, <1>6, <1>7, <1>8, MoveUploads
  <1>13. ResultInv'
    BY <1>1, <1>7, <1>8 DEF ResultInv, Bound
  <1>14. ReportInv'
    BY <1>1, <1>3, <1>4, <1>5, <1>6, <1>7, <1>8, MoveReport
  <1>15. RefusedInv'
    BY <1>1, <1>7, <1>8 DEF RefusedInv
  <1>16. AnswerInv'
    BY <1>1, <1>7, <1>8 DEF AnswerInv
  <1>17. CompleteInv'
    BY <1>1, <1>3, <1>4, <1>5, <1>6, <1>7, <1>8, MoveComplete
  <1>18. EndedInv'
    BY <1>1, <1>3, <1>4, <1>5, <1>6, <1>7, <1>8, MoveEnded
  <1>19. SettleInv'
    BY <1>1, <1>3, <1>4, <1>5, <1>6, <1>7, <1>8, MoveSettle
  <1>20. AcknowledgedMeansStopped'
    BY <1>1, <1>7, <1>8 DEF AcknowledgedMeansStopped
  <1>21. TerminalHoldsNothing'
    BY <1>1, <1>3, <1>4, <1>5, <1>6, <1>7, <1>8, MoveTerminal
  <1> QED
    BY <1>1, <1>9, <1>10, <1>11, <1>12, <1>13, <1>14, <1>15, <1>16, <1>17, <1>18, <1>19, <1>20,
      <1>21, RecordTypesUnchanged, AccountTypesUnchanged, MemoryTypesUnchanged, WorldTypesUnchanged,
      ListedInvUnchanged, BindingInvUnchanged, OwnerInvUnchanged, OneOwnerUnchanged,
      CleanupInvUnchanged, KeptInvUnchanged, EvidenceInvUnchanged, DecisionInvUnchanged,
      SeenInvUnchanged, ReleasedUnchanged, LiveUnchanged, RefundedUnchanged

\* The acknowledgement is given after the end.
LEMMA AbortJoinedKeeps ==
  ASSUME IInv, NEW a \in Cancelling, NEW r \in Runs, AbortJoined(a, r)
  PROVE  IInv'
  <1> USE DEF IInv, TypeParts
  <1>1. UNCHANGED <<row, observed, binding, requested, attempted, acked, failure, decided, reclaimed, order,
            txn, floor, share, listed, serving, base, sub, upload, seen, alloc, updates, posted, ex,
            stop, result, kept, sending, window, sess, live, cancels, unseen>>
    BY DEF AbortJoined, Answers, Goes, KeepOthers, Mishap, records, accounts, memory, handlers, executor,
      world, Quiet
  <1>2. /\ answer \in [Actors \X Runs -> {"none", "ack", "notfound", "refused", "lost"}]
        /\ hp \in [Actors \X Runs -> Phases]
    BY DEF HandlerTypes
  <1>3. a \in Actors /\ a \notin {"report", "late"}
    BY ActorFacts
  <1>4. \A s \in Runs : row[s] # "absent"
    BY <1>3 DEF AbortJoined, BatchInv, Untouched
  <1>5. hp[<<a, r>>] = "joining"
    BY DEF AbortJoined
  <1>6. Moves(a, r, {"answered"}) /\ hp'[<<a, r>>] \in {"answered"}
    BY <1>2, <1>3 DEF AbortJoined, Answers, Goes, Moves
  <1>7. HandlerTypes'
    <2>1. hp' \in [Actors \X Runs -> Phases]
      BY <1>2, <1>3 DEF AbortJoined, Answers, Goes, Phases
    <2>2. answer' \in [Actors \X Runs -> {"none", "ack", "notfound", "refused", "lost"}]
      BY <1>2, <1>3 DEF AbortJoined, Answers, Goes
    <2> QED
      BY <1>1, <2>1, <2>2 DEF HandlerTypes
  <1>8. WorldTypes'
    BY <1>1, <1>2, <1>3, <1>4 DEF AbortJoined, Answers, Goes, KeepOthers, Mishap, WorldTypes
  <1>9. BatchInv'
    BY <1>1, <1>3, <1>4, <1>5, <1>6, MoveBatch
  <1>10. UploadsFirst'
    BY <1>1, <1>3, <1>4, <1>5, <1>6, MoveUploads
  <1>11. ReportInv'
    BY <1>1, <1>3, <1>4, <1>5, <1>6, MoveReport
  <1>12. AnswerInv'
    BY <1>1, <1>2, <1>3, <1>4 DEF AbortJoined, Answers, Goes, KeepOthers, Mishap, AnswerInv,
      Actors
  <1>13. CompleteInv'
    BY <1>1, <1>3, <1>4, <1>5, <1>6, MoveComplete
  <1>14. EndedInv'
    BY <1>1, <1>3, <1>4, <1>5, <1>6, MoveEnded
  <1>15. SettleInv'
    BY <1>1, <1>3, <1>4, <1>5, <1>6, MoveSettle
  <1>16. TerminalHoldsNothing'
    BY <1>1, <1>3, <1>4, <1>5, <1>6, MoveTerminal
  <1> QED
    BY <1>1, <1>7, <1>8, <1>9, <1>10, <1>11, <1>12, <1>13, <1>14, <1>15, <1>16,
      RecordTypesUnchanged, AccountTypesUnchanged, MemoryTypesUnchanged, ExecTypesUnchanged,
      ListedInvUnchanged, BindingInvUnchanged, OwnerInvUnchanged, OneOwnerUnchanged,
      CleanupInvUnchanged, ResultInvUnchanged, KeptInvUnchanged, RefusedInvUnchanged,
      EvidenceInvUnchanged, DecisionInvUnchanged, SeenInvUnchanged, AcknowledgedUnchanged,
      ReleasedUnchanged, LiveUnchanged, RefundedUnchanged

\* A lost answer acknowledges nothing.
LEMMA AbortLostKeeps ==
  ASSUME IInv, NEW a \in Cancelling, NEW r \in Runs, AbortLost(a, r)
  PROVE  IInv'
  <1> USE DEF IInv, TypeParts
  <1>1. UNCHANGED <<row, observed, binding, requested, attempted, acked, failure, decided, reclaimed, order,
            txn, floor, share, listed, serving, base, sub, upload, seen, alloc, updates, posted, ex,
            stop, result, kept, sending, window, sess, live, cancels, unseen>>
    BY DEF AbortLost, Answers, Goes, KeepOthers, Fault, Mishap, records, accounts, memory, handlers,
      executor, world, Quiet
  <1>2. /\ answer \in [Actors \X Runs -> {"none", "ack", "notfound", "refused", "lost"}]
        /\ hp \in [Actors \X Runs -> Phases]
    BY DEF HandlerTypes
  <1>3. a \in Actors /\ a \notin {"report", "late"}
    BY ActorFacts
  <1>4. \A s \in Runs : row[s] # "absent"
    BY <1>3 DEF AbortLost, BatchInv, Untouched
  <1>5. hp[<<a, r>>] \in {"asking", "joining"}
    BY DEF AbortLost
  <1>6. Moves(a, r, {"answered"}) /\ hp'[<<a, r>>] \in {"answered"}
    BY <1>2, <1>3 DEF AbortLost, Answers, Goes, Moves
  <1>7. HandlerTypes'
    <2>1. hp' \in [Actors \X Runs -> Phases]
      BY <1>2, <1>3 DEF AbortLost, Answers, Goes, Phases
    <2>2. answer' \in [Actors \X Runs -> {"none", "ack", "notfound", "refused", "lost"}]
      BY <1>2, <1>3 DEF AbortLost, Answers, Goes
    <2> QED
      BY <1>1, <2>1, <2>2 DEF HandlerTypes
  <1>8. WorldTypes'
    BY <1>1, <1>2, <1>3, <1>4 DEF AbortLost, Answers, Goes, KeepOthers, Fault, Mishap,
      WorldTypes
  <1>9. BatchInv'
    BY <1>1, <1>3, <1>4, <1>5, <1>6, MoveBatch
  <1>10. UploadsFirst'
    BY <1>1, <1>3, <1>4, <1>5, <1>6, MoveUploads
  <1>11. ReportInv'
    BY <1>1, <1>3, <1>4, <1>5, <1>6, MoveReport
  <1>12. AnswerInv'
    BY <1>1, <1>2, <1>3, <1>4 DEF AbortLost, Answers, Goes, KeepOthers, Fault, Mishap,
      AnswerInv, Actors
  <1>13. CompleteInv'
    BY <1>1, <1>3, <1>4, <1>5, <1>6, MoveComplete
  <1>14. EndedInv'
    BY <1>1, <1>3, <1>4, <1>5, <1>6, MoveEnded
  <1>15. SettleInv'
    BY <1>1, <1>3, <1>4, <1>5, <1>6, MoveSettle
  <1>16. TerminalHoldsNothing'
    BY <1>1, <1>3, <1>4, <1>5, <1>6, MoveTerminal
  <1> QED
    BY <1>1, <1>7, <1>8, <1>9, <1>10, <1>11, <1>12, <1>13, <1>14, <1>15, <1>16,
      RecordTypesUnchanged, AccountTypesUnchanged, MemoryTypesUnchanged, ExecTypesUnchanged,
      ListedInvUnchanged, BindingInvUnchanged, OwnerInvUnchanged, OneOwnerUnchanged,
      CleanupInvUnchanged, ResultInvUnchanged, KeptInvUnchanged, RefusedInvUnchanged,
      EvidenceInvUnchanged, DecisionInvUnchanged, SeenInvUnchanged, AcknowledgedUnchanged,
      ReleasedUnchanged, LiveUnchanged, RefundedUnchanged

\* A late request signals a bound run.
LEMMA LateAbortKeeps ==
  ASSUME IInv, NEW r \in Runs, LateAbort(r)
  PROVE  IInv'
  <1> USE DEF IInv, TypeParts
  <1>1. UNCHANGED <<row, observed, binding, requested, attempted, acked, failure, decided, reclaimed, order,
            txn, floor, share, listed, serving, base, sub, upload, hp, seen, answer, alloc, updates,
            posted, result, kept, sending, window, sess, live, cancels, unseen, mishaps>>
    BY DEF LateAbort, Signals, Bound, records, accounts, memory, handlers, executor, world, Quiet
  <1>2. /\ stop \in [Runs -> BOOLEAN]
        /\ ex \in [Runs -> Executing \cup {"absent", "queued", "reporting", "gone"}]
    BY DEF ExecTypes
  <1>3. \A s \in Runs : row[s] # "absent"
    BY DEF LateAbort, BatchInv, Untouched, Executing
  <1>4. ExecTypes'
    BY <1>1, <1>2, <1>3 DEF LateAbort, Signals, Bound, ExecTypes, Executing
  <1>5. BatchInv'
    BY <1>1, <1>2, <1>3 DEF LateAbort, Signals, Bound, BatchInv, Untouched
  <1>6. ResultInv'
    BY <1>1, <1>2, <1>3 DEF LateAbort, Signals, Bound, ResultInv
  <1>7. RefusedInv'
    BY <1>1, <1>2, <1>3 DEF LateAbort, Signals, Bound, RefusedInv
  <1>8. AnswerInv'
    BY <1>1, <1>2, <1>3 DEF LateAbort, Signals, Bound, AnswerInv
  <1>9. AcknowledgedMeansStopped'
    BY <1>1, <1>2, <1>3 DEF LateAbort, Signals, Bound, AcknowledgedMeansStopped
  <1> QED
    BY <1>1, <1>4, <1>5, <1>6, <1>7, <1>8, <1>9, RecordTypesUnchanged, AccountTypesUnchanged,
      MemoryTypesUnchanged, HandlerTypesUnchanged, WorldTypesUnchanged, ListedInvUnchanged,
      BindingInvUnchanged, OwnerInvUnchanged, OneOwnerUnchanged, UploadsFirstUnchanged,
      CleanupInvUnchanged, KeptInvUnchanged, ReportInvUnchanged, CompleteInvUnchanged,
      EvidenceInvUnchanged, DecisionInvUnchanged, SeenInvUnchanged, EndedInvUnchanged,
      SettleInvUnchanged, ReleasedUnchanged, TerminalUnchanged, LiveUnchanged, RefundedUnchanged DEF
      IInv, TypeParts

\* An acknowledgement is recorded from an answer; a refused upload is the other proof.
LEMMA AbortRecordKeeps ==
  ASSUME IInv, NEW a \in Cancelling, NEW r \in Runs, AbortRecord(a, r)
  PROVE  IInv'
  <1> USE DEF IInv, TypeParts
  <1>1. UNCHANGED <<row, observed, binding, decided, reclaimed, order, txn, floor, share, listed, serving,
            base, sub, upload, seen, alloc, updates, posted, ex, stop, result, kept, sending,
            window, sess, live, cancels, unseen, mishaps>>
    BY DEF AbortRecord, Cancels, Fails, Goes, KeepOthers, Returns, uploadRefused, records, accounts,
      memory, handlers, executor, world, Quiet
  <1>2. /\ requested \in [Runs -> BOOLEAN]
        /\ attempted \in [Runs -> BOOLEAN]
        /\ acked \in [Runs -> BOOLEAN]
        /\ failure \in [Runs -> {"", "already_terminal", "original_binding_unavailable", "executor_refused", "transport_outcome_unknown"}]
        /\ hp \in [Actors \X Runs -> Phases]
        /\ answer \in [Actors \X Runs -> {"none", "ack", "notfound", "refused", "lost"}]
    BY DEF RecordTypes, HandlerTypes
  <1>3. a \in Actors /\ a \notin {"report", "late"}
    BY ActorFacts
  <1>4. \A s \in Runs : row[s] # "absent"
    BY <1>3 DEF AbortRecord, BatchInv, Untouched
  <1>5. \A s \in Runs : acked[s] => acked'[s]
    BY <1>2 DEF AbortRecord, Cancels, Fails
  <1>6. hp[<<a, r>>] = "answered"
    BY DEF AbortRecord
  <1>7. Moves(a, r, {"complete", "mark", "idle"}) /\ hp'[<<a, r>>] \in {"complete", "mark", "idle"}
    BY ZenonT(60), <1>2, <1>3 DEF AbortRecord, Goes, Returns, Moves
  <1>8. hp'[<<a, r>>] = "complete" => acked'[r] \/ upload[r] = "refused"
    BY <1>2, <1>3 DEF AbortRecord, Goes, Cancels, Fails, Returns, uploadRefused
  <1>9. \A s \in Runs : acked'[s] => acked[s] \/ (s = r /\ answer[<<a, r>>] = "ack")
    BY <1>2 DEF AbortRecord, Cancels, Fails
  <1>10. \A b \in Actors, s \in Runs : answer'[<<b, s>>] \in {answer[<<b, s>>], "none"}
    BY <1>2 DEF AbortRecord
  <1>11. RecordTypes'
    <2>1. requested' \in [Runs -> BOOLEAN]
      BY <1>2 DEF AbortRecord, Cancels, Fails
    <2>2. attempted' \in [Runs -> BOOLEAN]
      BY <1>2 DEF AbortRecord, Cancels, Fails
    <2>3. acked' \in [Runs -> BOOLEAN]
      BY <1>2 DEF AbortRecord, Cancels, Fails
    <2>4. failure' \in [Runs -> {"", "already_terminal", "original_binding_unavailable",
                               "executor_refused", "transport_outcome_unknown"}]
      BY <1>2 DEF AbortRecord, Cancels, Fails
    <2> QED
      BY <1>1, <2>1, <2>2, <2>3, <2>4 DEF RecordTypes
  <1>12. HandlerTypes'
    <2>1. hp' \in [Actors \X Runs -> Phases]
      BY ZenonT(60), <1>2, <1>3 DEF AbortRecord, Goes, Returns, Phases
    <2>2. answer' \in [Actors \X Runs -> {"none", "ack", "notfound", "refused", "lost"}]
      BY <1>2, <1>3 DEF AbortRecord, Goes, Returns
    <2> QED
      BY <1>1, <2>1, <2>2 DEF HandlerTypes
  <1>13. BatchInv'
    BY <1>1, <1>3, <1>4, <1>5, <1>6, <1>7, <1>8, <1>9, <1>10, MoveBatch
  <1>14. UploadsFirst'
    BY <1>1, <1>3, <1>4, <1>5, <1>6, <1>7, <1>8, <1>9, <1>10, MoveUploads
  <1>15. ReportInv'
    BY <1>1, <1>3, <1>4, <1>5, <1>6, <1>7, <1>8, <1>9, <1>10, MoveReport
  <1>16. AnswerInv'
    BY <1>1, <1>10 DEF AnswerInv
  <1>17. CompleteInv'
    BY <1>1, <1>3, <1>4, <1>5, <1>6, <1>7, <1>8, <1>9, <1>10, MoveComplete
  <1>18. EvidenceInv'
    BY <1>1, <1>5 DEF EvidenceInv
  <1>19. EndedInv'
    BY <1>1, <1>3, <1>4, <1>5, <1>6, <1>7, <1>8, <1>9, <1>10, MoveEnded
  <1>20. SettleInv'
    BY <1>1, <1>3, <1>4, <1>5, <1>6, <1>7, <1>8, <1>9, <1>10, MoveSettle
  <1>21. AcknowledgedMeansStopped'
    BY <1>1, <1>2, <1>3, <1>4, <1>5, <1>6, <1>7, <1>8, <1>9, <1>10 DEF
      AcknowledgedMeansStopped, AnswerInv
  <1>22. TerminalHoldsNothing'
    BY <1>1, <1>3, <1>4, <1>5, <1>6, <1>7, <1>8, <1>9, <1>10, MoveTerminal
  <1> QED
    BY <1>1, <1>11, <1>12, <1>13, <1>14, <1>15, <1>16, <1>17, <1>18, <1>19, <1>20, <1>21, <1>22,
      AccountTypesUnchanged, MemoryTypesUnchanged, ExecTypesUnchanged, WorldTypesUnchanged,
      ListedInvUnchanged, BindingInvUnchanged, OwnerInvUnchanged, OneOwnerUnchanged,
      CleanupInvUnchanged, ResultInvUnchanged, KeptInvUnchanged, RefusedInvUnchanged,
      DecisionInvUnchanged, SeenInvUnchanged, ReleasedUnchanged, LiveUnchanged, RefundedUnchanged
     

\* The rank guard leaves an ended run ended.
LEMMA MarkUnreconciledKeeps ==
  ASSUME IInv, NEW r \in Runs, markUnreconciled(r)
  PROVE  IInv'
  <1> USE DEF IInv, TypeParts
  <1>1. UNCHANGED <<observed, binding, requested, attempted, acked, failure, decided, reclaimed, order, txn,
            floor, share, listed, serving, base, sub, upload, seen, answer, alloc, updates, posted,
            ex, stop, result, kept, sending, window, sess, live, cancels, unseen>>
    BY DEF markUnreconciled, Goes, KeepOthers, Mishap, records, accounts, memory, handlers, executor,
      world, Quiet
  <1>2. /\ row \in [Runs -> States]
        /\ hp \in [Actors \X Runs -> Phases]
        /\ listed \subseteq Runs
    BY DEF RecordTypes, HandlerTypes, MemoryTypes
  <1>3. \A s \in Runs : row[s] # "absent"
    BY ActorFacts DEF markUnreconciled, BatchInv, Untouched
  <1>4. \A t \in Runs : row'[t] # "absent" /\ (row'[t] = "exited" <=> row[t] = "exited")
    BY <1>2, <1>3 DEF markUnreconciled, rank, States
  <1>5. hp[<<"cleanup", r>>] = "mark" /\ Moves("cleanup", r, {"idle"}) /\ hp'[<<"cleanup", r>>] = "idle"
    BY <1>2, ActorFacts DEF markUnreconciled, Goes, Moves
  <1>6. RecordTypes'
    BY <1>1, <1>2, <1>3, <1>4 DEF markUnreconciled, Goes, KeepOthers, Mishap, RecordTypes,
      States
  <1>7. HandlerTypes'
    BY <1>1, <1>2, <1>3, <1>4 DEF markUnreconciled, Goes, KeepOthers, Mishap, HandlerTypes,
      Actors, Phases
  <1>8. WorldTypes'
    BY <1>1, <1>2, <1>3, <1>4 DEF markUnreconciled, Goes, KeepOthers, Mishap, WorldTypes
  <1>9. BatchInv'
    BY <1>1, <1>2, <1>3, <1>4 DEF markUnreconciled, Goes, KeepOthers, Mishap, BatchInv,
      Untouched, Actors
  <1>10. ListedInv'
    BY <1>1, <1>2, <1>3, <1>4, <1>5 DEF ListedInv
  <1>11. OwnerInv'
    BY <1>1, <1>2, <1>3, <1>4, <1>5 DEF OwnerInv, Owns
  <1>12. UploadsFirst'
    BY <1>1, <1>5, MoveUploads, ActorFacts
  <1>13. ReportInv'
    BY <1>1, <1>5, MoveReport, ActorFacts
  <1>14. CompleteInv'
    BY <1>1, <1>5, MoveComplete, ActorFacts
  <1>15. DecisionInv'
    BY <1>1, <1>2, <1>3, <1>4, <1>5 DEF DecisionInv
  <1>16. SeenInv'
    BY <1>1, <1>2, <1>3, <1>4, <1>5 DEF SeenInv
  <1>17. EndedInv'
    BY <1>1, <1>2, <1>3, <1>4 DEF markUnreconciled, Goes, KeepOthers, Mishap, EndedInv, Actors
  <1>18. SettleInv'
    BY <1>1, <1>5, MoveSettle, ActorFacts
  <1>19. ReleasedIsRecorded'
    BY <1>1, <1>2, <1>3, <1>4, <1>5 DEF ReleasedIsRecorded
  <1>20. TerminalHoldsNothing'
    BY <1>1, <1>2, <1>3, <1>4 DEF markUnreconciled, Goes, KeepOthers, Mishap,
      TerminalHoldsNothing, Closing, Actors
  <1>21. LiveRunsAreCounted'
    BY <1>1, <1>2, <1>3, <1>4, <1>5 DEF LiveRunsAreCounted, Admitted
  <1>22. RefundedBatchFailed'
    BY <1>1, <1>2, <1>3, <1>4 DEF markUnreconciled, Goes, KeepOthers, Mishap,
      RefundedBatchFailed, Admitted, UploadFailed
  <1> QED
    BY <1>1, <1>6, <1>7, <1>8, <1>9, <1>10, <1>11, <1>12, <1>13, <1>14, <1>15, <1>16, <1>17,
      <1>18, <1>19, <1>20, <1>21, <1>22, AccountTypesUnchanged, MemoryTypesUnchanged,
      ExecTypesUnchanged, BindingInvUnchanged, OneOwnerUnchanged, CleanupInvUnchanged,
      ResultInvUnchanged, KeptInvUnchanged, RefusedInvUnchanged, AnswerInvUnchanged,
      EvidenceInvUnchanged, AcknowledgedUnchanged

\* It releases what it saw ended.
LEMMA UnboundRequestKeeps ==
  ASSUME IInv, NEW r \in Runs, UnboundRequest(r)
  PROVE  IInv'
  <1> USE DEF IInv, TypeParts
  <1>1. UNCHANGED <<row, observed, binding, decided, reclaimed, order, txn, floor, share, listed, serving,
            base, sub, upload, answer, alloc, updates, posted, ex, stop, result, kept, sending,
            window, sess, live, cancels, unseen, mishaps>>
    BY DEF UnboundRequest, Cancels, Goes, KeepOthers, records, accounts, memory, handlers, executor, world,
      Quiet
  <1>2. /\ requested \in [Runs -> BOOLEAN]
        /\ attempted \in [Runs -> BOOLEAN]
        /\ acked \in [Runs -> BOOLEAN]
        /\ failure \in [Runs -> {"", "already_terminal", "original_binding_unavailable", "executor_refused", "transport_outcome_unknown"}]
        /\ hp \in [Actors \X Runs -> Phases]
        /\ seen \in [Actors \X Runs -> States]
    BY DEF RecordTypes, HandlerTypes
  <1>3. \A s \in Runs : row[s] # "absent"
    BY DEF UnboundRequest, BatchInv, Untouched, Actors
  <1>4. acked' = acked
    BY <1>2 DEF UnboundRequest, Cancels, Fails, RecordTypes
  <1>5. hp[<<"client", r>>] = "urequest"
    BY DEF UnboundRequest
  <1>6. Moves("client", r, {"release", "ucomplete"}) /\ hp'[<<"client", r>>] \in {"release", "ucomplete"}
    BY <1>2, ActorFacts DEF UnboundRequest, Goes, Moves
  <1>7. hp'[<<"client", r>>] = "release" => row[r] = "exited"
    BY <1>2, ActorFacts DEF UnboundRequest, Goes, SeenInv
  <1>8. RecordTypes'
    BY <1>1, <1>2, <1>3, <1>4 DEF UnboundRequest, Cancels, Goes, KeepOthers, RecordTypes
  <1>9. HandlerTypes'
    <2>1. hp' \in [Actors \X Runs -> Phases]
      BY <1>2, ActorFacts DEF UnboundRequest, Goes, Phases
    <2>2. seen' \in [Actors \X Runs -> States]
      BY <1>2, ActorFacts DEF UnboundRequest, Goes, States
    <2> QED
      BY <1>1, <2>1, <2>2 DEF HandlerTypes
  <1>10. BatchInv'
    BY <1>1, <1>3, <1>4, <1>5, <1>6, <1>7, MoveBatch
  <1>11. UploadsFirst'
    BY <1>1, <1>3, <1>4, <1>5, <1>6, <1>7, MoveUploads, ActorFacts
  <1>12. ReportInv'
    BY <1>1, <1>3, <1>4, <1>5, <1>6, <1>7, MoveReport, ActorFacts
  <1>13. CompleteInv'
    BY <1>1, <1>3, <1>4, <1>5, <1>6, <1>7, MoveComplete, ActorFacts
  <1>14. EvidenceInv'
    BY <1>1, <1>2, <1>3, <1>4 DEF UnboundRequest, Cancels, Goes, KeepOthers, EvidenceInv
  <1>15. SeenInv'
    BY <1>1, <1>2, <1>3, <1>4 DEF UnboundRequest, Cancels, Goes, KeepOthers, SeenInv, Actors
  <1>16. EndedInv'
    BY <1>1, <1>3, <1>4, <1>5, <1>6, <1>7, MoveEnded, ActorFacts
  <1>17. SettleInv'
    BY <1>1, <1>3, <1>4, <1>5, <1>6, <1>7, MoveSettle, ActorFacts
  <1>18. AcknowledgedMeansStopped'
    BY <1>1, <1>2, <1>3, <1>4 DEF UnboundRequest, Cancels, Goes, KeepOthers,
      AcknowledgedMeansStopped
  <1>19. TerminalHoldsNothing'
    BY <1>1, <1>3, <1>4, <1>5, <1>6, <1>7, MoveTerminal, ActorFacts
  <1> QED
    BY <1>1, <1>8, <1>9, <1>10, <1>11, <1>12, <1>13, <1>14, <1>15, <1>16, <1>17, <1>18, <1>19,
      AccountTypesUnchanged, MemoryTypesUnchanged, ExecTypesUnchanged, WorldTypesUnchanged,
      ListedInvUnchanged, BindingInvUnchanged, OwnerInvUnchanged, OneOwnerUnchanged,
      CleanupInvUnchanged, ResultInvUnchanged, KeptInvUnchanged, RefusedInvUnchanged,
      AnswerInvUnchanged, DecisionInvUnchanged, ReleasedUnchanged, LiveUnchanged, RefundedUnchanged
     

\* The decision is the first record of an end, and observes nothing.
LEMMA UnboundCompleteKeeps ==
  ASSUME IInv, NEW r \in Runs, UnboundComplete(r)
  PROVE  IInv'
  <1> USE DEF IInv, TypeParts
  <1>1. UNCHANGED <<observed, binding, requested, attempted, acked, failure, reclaimed, order, txn, floor,
            share, listed, serving, base, sub, upload, seen, answer, alloc, updates, posted, ex,
            stop, result, kept, sending, window, sess, live, cancels>>
    BY DEF UnboundComplete, DecideExit, Goes, KeepOthers, Mishap, records, accounts, memory, handlers,
      executor, world, Quiet
  <1>2. /\ row \in [Runs -> States]
        /\ decided \in [Runs -> BOOLEAN]
        /\ hp \in [Actors \X Runs -> Phases]
        /\ unseen \subseteq Runs
        /\ observed \in [Runs -> {"none", "zero", "failed"}]
        /\ listed \subseteq Runs
    BY DEF RecordTypes, HandlerTypes, WorldTypes, MemoryTypes
  <1>3. hp[<<"client", r>>] = "ucomplete"
    BY DEF UnboundComplete
  <1>4. \A s \in Runs : row[s] # "absent"
    BY <1>3, ActorFacts DEF BatchInv, Untouched
  <1>5. Moves("client", r, {"settle", "release", "idle"}) /\ hp'[<<"client", r>>] \in {"settle", "release", "idle"}
    BY <1>2, ActorFacts DEF UnboundComplete, Goes, Moves
  <1>6. (row' = row /\ decided' = decided) \/ (row[r] # "exited" /\ DecideExit(r))
    BY DEF UnboundComplete, records
  <1>7. \A s \in Runs : row'[s] = row[s] \/ (s = r /\ row[s] # "exited" /\ row'[s] = "exited")
    BY <1>2, <1>6 DEF DecideExit
  <1>8. row'[r] = row[r] \/ hp'[<<"client", r>>] = "settle" \/ r \in unseen'
    BY <1>2, ActorFacts DEF UnboundComplete, Goes, records
  <1>9. (hp'[<<"client", r>>] = "settle" => row[r] # "exited" /\ DecideExit(r))
          /\ (hp'[<<"client", r>>] = "release" => row[r] = "exited")
    BY <1>2, ActorFacts DEF UnboundComplete, Goes
  <1>10. \A s \in unseen : s \in unseen'
    BY DEF UnboundComplete, Quiet
  <1>11. RecordTypes'
    BY <1>1, <1>2, <1>6 DEF DecideExit, States, RecordTypes
  <1>12. HandlerTypes'
    <2>1. hp' \in [Actors \X Runs -> Phases]
      BY <1>2, ActorFacts DEF UnboundComplete, Goes, Phases
    <2> QED
      BY <1>1, <2>1 DEF HandlerTypes
  <1>13. WorldTypes'
    <2>1. mishaps' \in Nat
      BY DEF UnboundComplete, Mishap, Quiet, WorldTypes
    <2>2. unseen' \subseteq Runs
      BY DEF UnboundComplete, Quiet, WorldTypes
    <2> QED
      BY <1>1, <2>1, <2>2 DEF WorldTypes
  <1>14. BatchInv'
    BY <1>4, <1>7, MoveBatch
  <1>15. ListedInv'
    BY <1>1, <1>2, <1>4, <1>7 DEF ListedInv
  <1>16. OwnerInv'
    BY <1>1, <1>2, <1>4, <1>7 DEF OwnerInv, Owns
  <1>17. UploadsFirst'
    BY <1>1, <1>3, <1>5, MoveUploads, ActorFacts
  <1>18. ReportInv'
    BY <1>1, <1>3, <1>5, MoveReport, ActorFacts
  <1>19. CompleteInv'
    BY <1>1, <1>3, <1>5, MoveComplete, ActorFacts
  <1>20. DecisionInv'
    BY <1>1, <1>2, <1>6 DEF DecisionInv, DecideExit
  <1>21. SeenInv'
    BY <1>1, <1>2, <1>4, <1>7 DEF SeenInv
  <1>22. EndedInv'
    <2> SUFFICES ASSUME NEW s \in Runs, NEW b \in Actors, hp'[<<b, s>>] \in {"settle", "release", "ok"}
                 PROVE  row'[s] = "exited"
      BY DEF EndedInv
    <2>1. CASE b = "client" /\ s = r
      <3>1. row[r] = "exited" \/ DecideExit(r)
        BY <2>1, <1>5, <1>9 DEF DecideExit
      <3> QED
        BY <2>1, <3>1, <1>2, <1>7 DEF DecideExit
    <2>2. CASE ~ (b = "client" /\ s = r)
      <3>1. hp[<<b, s>>] = hp'[<<b, s>>]
        BY <2>2, <1>5 DEF Moves
      <3> QED
        BY <3>1, <1>7 DEF EndedInv
    <2> QED
      BY <2>1, <2>2
  <1>23. SettleInv'
    <2> SUFFICES ASSUME NEW s \in Runs, NEW b \in Actors, hp'[<<b, s>>] = "settle"
                 PROVE  (Success(s)' /\ code(b, s)' = "zero") \/ (~ Success(s)' /\ code(b, s)' # "zero")
      BY DEF SettleInv
    <2>1. CASE b = "client" /\ s = r
      <3>1. hp'[<<"client", r>>] = "settle"
        BY <2>1
      <3>2. decided'[s]
        BY <2>1, <3>1, <1>2, <1>9 DEF DecideExit
      <3> QED
        BY <2>1, <3>2 DEF Success, code
    <2>2. CASE ~ (b = "client" /\ s = r)
      <3>1. hp[<<b, s>>] = "settle"
        BY <2>2, <1>5 DEF Moves
      <3>2. row[s] = "exited"
        BY <3>1 DEF EndedInv
      <3>3. decided'[s] = decided[s] /\ observed'[s] = observed[s]
        BY <3>2, <1>1, <1>2, <1>6 DEF DecideExit
      <3> QED
        BY <3>1, <3>3, <1>1 DEF SettleInv, Success, code
    <2> QED
      BY <2>1, <2>2
  <1>24. ReleasedIsRecorded'
    BY <1>1, <1>2, <1>4, <1>7 DEF ReleasedIsRecorded
  <1>25. TerminalHoldsNothing'
    <2> SUFFICES ASSUME NEW s \in Runs, row'[s] = "exited" \/ reclaimed'[s], ~ Closing(s)', s \notin unseen'
                 PROVE  ~ floor'[s] /\ ~ share'[s]
      BY DEF TerminalHoldsNothing
    <2>1. ~ Closing(s)
      BY <1>3, <1>5 DEF Closing, Moves
    <2>2. s = r => row'[s] = row[s]
      BY <1>8, ActorFacts DEF Closing
    <2> QED
      BY <1>1, <1>7, <1>10, <2>1, <2>2 DEF TerminalHoldsNothing
  <1>26. LiveRunsAreCounted'
    BY <1>1, <1>2, <1>4, <1>7 DEF LiveRunsAreCounted, Admitted
  <1>27. RefundedBatchFailed'
    BY <1>1, <1>4 DEF RefundedBatchFailed, Admitted, UploadFailed
  <1> QED
    BY <1>1, <1>11, <1>12, <1>13, <1>14, <1>15, <1>16, <1>17, <1>18, <1>19, <1>20, <1>21, <1>22,
      <1>23, <1>24, <1>25, <1>26, <1>27, AccountTypesUnchanged, MemoryTypesUnchanged,
      ExecTypesUnchanged, BindingInvUnchanged, OneOwnerUnchanged, CleanupInvUnchanged,
      ResultInvUnchanged, KeptInvUnchanged, RefusedInvUnchanged, AnswerInvUnchanged,
      EvidenceInvUnchanged, AcknowledgedUnchanged

\* The clock changes only the window.
LEMMA TickKeeps ==
  ASSUME IInv, Tick
  PROVE  IInv'
  <1> USE DEF IInv, TypeParts
  <1>1. UNCHANGED <<row, observed, binding, requested, attempted, acked, failure, decided, reclaimed, order,
            txn, floor, share, listed, serving, base, sub, upload, hp, seen, answer, alloc, updates,
            posted, ex, stop, result, kept, sending, sess, live, cancels, unseen>>
    BY DEF Tick, Mishap, records, accounts, memory, handlers, executor, world, Quiet
  <1>2. WorldTypes'
    BY <1>1 DEF Tick, Mishap, WorldTypes
  <1> QED
    BY <1>1, <1>2, RecordTypesUnchanged, AccountTypesUnchanged, MemoryTypesUnchanged,
      HandlerTypesUnchanged, ExecTypesUnchanged, BatchInvUnchanged, ListedInvUnchanged,
      BindingInvUnchanged, OwnerInvUnchanged, OneOwnerUnchanged, UploadsFirstUnchanged,
      CleanupInvUnchanged, ResultInvUnchanged, KeptInvUnchanged, ReportInvUnchanged,
      RefusedInvUnchanged, AnswerInvUnchanged, CompleteInvUnchanged, EvidenceInvUnchanged,
      DecisionInvUnchanged, SeenInvUnchanged, EndedInvUnchanged, SettleInvUnchanged,
      AcknowledgedUnchanged, ReleasedUnchanged, TerminalUnchanged, LiveUnchanged, RefundedUnchanged
     

\* The clock changes only the window.
LEMMA ClockRollbackKeeps ==
  ASSUME IInv, ClockRollback
  PROVE  IInv'
  <1> USE DEF IInv, TypeParts
  <1>1. UNCHANGED <<row, observed, binding, requested, attempted, acked, failure, decided, reclaimed, order,
            txn, floor, share, listed, serving, base, sub, upload, hp, seen, answer, alloc, updates,
            posted, ex, stop, result, kept, sending, sess, live, cancels, unseen, mishaps>>
    BY DEF ClockRollback, records, accounts, memory, handlers, executor, world, Quiet
  <1>2. WorldTypes'
    BY <1>1 DEF ClockRollback, WorldTypes
  <1> QED
    BY <1>1, <1>2, RecordTypesUnchanged, AccountTypesUnchanged, MemoryTypesUnchanged,
      HandlerTypesUnchanged, ExecTypesUnchanged, BatchInvUnchanged, ListedInvUnchanged,
      BindingInvUnchanged, OwnerInvUnchanged, OneOwnerUnchanged, UploadsFirstUnchanged,
      CleanupInvUnchanged, ResultInvUnchanged, KeptInvUnchanged, ReportInvUnchanged,
      RefusedInvUnchanged, AnswerInvUnchanged, CompleteInvUnchanged, EvidenceInvUnchanged,
      DecisionInvUnchanged, SeenInvUnchanged, EndedInvUnchanged, SettleInvUnchanged,
      AcknowledgedUnchanged, ReleasedUnchanged, TerminalUnchanged, LiveUnchanged, RefundedUnchanged
     

\* Only admitted runs are listed.
LEMMA SweepListKeeps ==
  ASSUME IInv, SweepList
  PROVE  IInv'
  <1> USE DEF IInv, TypeParts
  <1>1. UNCHANGED <<row, observed, binding, requested, attempted, acked, failure, decided, reclaimed, order,
            txn, floor, share, serving, base, sub, upload, hp, seen, answer, alloc, updates, posted,
            ex, stop, result, kept, sending, window, sess, live, cancels, unseen, mishaps>>
    BY DEF SweepList, ListUnreclaimed, Admitted, records, accounts, memory, handlers, executor, world,
      Quiet
  <1>2. /\ listed \subseteq Runs
    BY DEF MemoryTypes
  <1>3. MemoryTypes'
    BY <1>1, <1>2 DEF SweepList, ListUnreclaimed, Admitted, MemoryTypes
  <1>4. ListedInv'
    BY <1>1, <1>2 DEF SweepList, ListUnreclaimed, Admitted, ListedInv
  <1> QED
    BY <1>1, <1>3, <1>4, RecordTypesUnchanged, AccountTypesUnchanged, HandlerTypesUnchanged,
      ExecTypesUnchanged, WorldTypesUnchanged, BatchInvUnchanged, BindingInvUnchanged,
      OwnerInvUnchanged, OneOwnerUnchanged, UploadsFirstUnchanged, CleanupInvUnchanged,
      ResultInvUnchanged, KeptInvUnchanged, ReportInvUnchanged, RefusedInvUnchanged,
      AnswerInvUnchanged, CompleteInvUnchanged, EvidenceInvUnchanged, DecisionInvUnchanged,
      SeenInvUnchanged, EndedInvUnchanged, SettleInvUnchanged, AcknowledgedUnchanged,
      ReleasedUnchanged, TerminalUnchanged, LiveUnchanged, RefundedUnchanged

\* A reclamation and its release are one step, or a commit nobody saw.
LEMMA ReclaimKeeps ==
  ASSUME IInv, NEW r \in Runs, Reclaim(r)
  PROVE  IInv'
  <1> USE DEF IInv, TypeParts
  <1>1. UNCHANGED <<row, observed, binding, requested, attempted, acked, failure, decided, order, txn,
            serving, base, sub, upload, hp, seen, answer, alloc, updates, posted, ex, stop, result,
            kept, sending, window, sess, live, cancels>>
    BY DEF Reclaim, Releases, Mishap, records, accounts, memory, handlers, executor, world, Quiet
  <1>2. /\ listed \subseteq Runs
        /\ reclaimed \in [Runs -> BOOLEAN]
        /\ floor \in [Runs -> BOOLEAN]
        /\ share \in [Runs -> BOOLEAN]
        /\ unseen \subseteq Runs
        /\ listed \subseteq Runs
        /\ row \in [Runs -> States]
    BY DEF MemoryTypes, RecordTypes, WorldTypes
  <1>3. \A s \in Runs : row[s] # "absent"
    BY DEF Reclaim, ListedInv, BatchInv
  <1>4. RecordTypes'
    BY <1>1, <1>2, <1>3 DEF Reclaim, Releases, Mishap, RecordTypes
  <1>5. MemoryTypes'
    BY <1>1, <1>2, <1>3 DEF Reclaim, Releases, Mishap, MemoryTypes
  <1>6. WorldTypes'
    BY <1>1, <1>2, <1>3 DEF Reclaim, Releases, Mishap, WorldTypes
  <1>7. BatchInv'
    BY <1>1, <1>2, <1>3 DEF Reclaim, Releases, Mishap, BatchInv, Untouched
  <1>8. ListedInv'
    BY <1>1, <1>2, <1>3 DEF Reclaim, Releases, Mishap, ListedInv
  <1>9. TerminalHoldsNothing'
    BY <1>1, <1>2, <1>3 DEF Reclaim, Releases, Mishap, TerminalHoldsNothing, Closing
  <1>10. LiveRunsAreCounted'
    BY <1>1, <1>2, <1>3 DEF Reclaim, Releases, Mishap, LiveRunsAreCounted, Admitted
  <1> QED
    BY <1>1, <1>4, <1>5, <1>6, <1>7, <1>8, <1>9, <1>10, AccountTypesUnchanged,
      HandlerTypesUnchanged, ExecTypesUnchanged, BindingInvUnchanged, OwnerInvUnchanged,
      OneOwnerUnchanged, UploadsFirstUnchanged, CleanupInvUnchanged, ResultInvUnchanged,
      KeptInvUnchanged, ReportInvUnchanged, RefusedInvUnchanged, AnswerInvUnchanged,
      CompleteInvUnchanged, EvidenceInvUnchanged, DecisionInvUnchanged, SeenInvUnchanged,
      EndedInvUnchanged, SettleInvUnchanged, AcknowledgedUnchanged, ReleasedUnchanged,
      RefundedUnchanged

\* What it releases is reclaimed.
LEMMA SweepHeldKeeps ==
  ASSUME IInv, NEW r \in Runs, SweepHeld(r)
  PROVE  IInv'
  <1> USE DEF IInv, TypeParts
  <1>1. UNCHANGED <<row, observed, binding, requested, attempted, acked, failure, decided, reclaimed, order,
            txn, listed, serving, base, sub, upload, hp, seen, answer, alloc, updates, posted, ex,
            stop, result, kept, sending, window, sess, live, cancels, mishaps>>
    BY DEF SweepHeld, Releases, records, accounts, memory, handlers, executor, world, Quiet
  <1>2. /\ floor \in [Runs -> BOOLEAN]
        /\ share \in [Runs -> BOOLEAN]
        /\ unseen \subseteq Runs
    BY DEF MemoryTypes, WorldTypes
  <1>3. MemoryTypes'
    BY <1>1, <1>2 DEF SweepHeld, Releases, MemoryTypes
  <1>4. WorldTypes'
    BY <1>1, <1>2 DEF SweepHeld, Releases, WorldTypes
  <1>5. TerminalHoldsNothing'
    BY <1>1, <1>2 DEF SweepHeld, Releases, TerminalHoldsNothing, Closing
  <1>6. LiveRunsAreCounted'
    BY <1>1, <1>2 DEF SweepHeld, Releases, LiveRunsAreCounted, Admitted
  <1> QED
    BY <1>1, <1>3, <1>4, <1>5, <1>6, RecordTypesUnchanged, AccountTypesUnchanged,
      HandlerTypesUnchanged, ExecTypesUnchanged, BatchInvUnchanged, ListedInvUnchanged,
      BindingInvUnchanged, OwnerInvUnchanged, OneOwnerUnchanged, UploadsFirstUnchanged,
      CleanupInvUnchanged, ResultInvUnchanged, KeptInvUnchanged, ReportInvUnchanged,
      RefusedInvUnchanged, AnswerInvUnchanged, CompleteInvUnchanged, EvidenceInvUnchanged,
      DecisionInvUnchanged, SeenInvUnchanged, EndedInvUnchanged, SettleInvUnchanged,
      AcknowledgedUnchanged, ReleasedUnchanged, RefundedUnchanged

\* A sweep changes only the order.
LEMMA SettlePendingKeeps ==
  ASSUME IInv, NEW r \in Runs, SettlePending(r)
  PROVE  IInv'
  <1> USE DEF IInv, TypeParts
  <1>1. UNCHANGED <<row, observed, binding, requested, attempted, acked, failure, decided, reclaimed, txn,
            floor, share, listed, serving, base, sub, upload, hp, seen, answer, alloc, updates,
            posted, ex, stop, result, kept, sending, window, sess, live, cancels, unseen, mishaps>>
    BY DEF SettlePending, PendingSettlement, SettleOrder, records, accounts, memory, handlers, executor,
      world, Quiet
  <1>2. /\ order \in [Runs -> {"outstanding", "credited", "refunded"}]
    BY DEF AccountTypes
  <1>3. AccountTypes'
    BY <1>1, <1>2 DEF SettlePending, PendingSettlement, SettleOrder, AccountTypes
  <1> QED
    BY <1>1, <1>3, RecordTypesUnchanged, MemoryTypesUnchanged, HandlerTypesUnchanged,
      ExecTypesUnchanged, WorldTypesUnchanged, BatchInvUnchanged, ListedInvUnchanged,
      BindingInvUnchanged, OwnerInvUnchanged, OneOwnerUnchanged, UploadsFirstUnchanged,
      CleanupInvUnchanged, ResultInvUnchanged, KeptInvUnchanged, ReportInvUnchanged,
      RefusedInvUnchanged, AnswerInvUnchanged, CompleteInvUnchanged, EvidenceInvUnchanged,
      DecisionInvUnchanged, SeenInvUnchanged, EndedInvUnchanged, SettleInvUnchanged,
      AcknowledgedUnchanged, ReleasedUnchanged, TerminalUnchanged, LiveUnchanged, RefundedUnchanged
     

\* No admitted run is bound to a session that begins.
LEMMA NewSessionKeeps ==
  ASSUME IInv, NewSession
  PROVE  IInv'
  <1> USE DEF IInv, TypeParts
  <1>1. UNCHANGED <<row, observed, binding, requested, attempted, acked, failure, decided, reclaimed, order,
            txn, floor, share, listed, serving, base, sub, upload, hp, seen, answer, alloc, updates,
            posted, ex, stop, result, kept, sending, window, cancels, unseen, mishaps>>
    BY DEF NewSession, Drained, records, accounts, memory, handlers, executor, world, Quiet
  <1>2. /\ sess \in Nat
        /\ binding \in [Runs -> Nat]
        /\ sess \in Nat
    BY DEF WorldTypes, RecordTypes
  <1>3. WorldTypes'
    BY <1>1, <1>2 DEF NewSession, Drained, WorldTypes
  <1>4. BindingInv'
    BY <1>1, <1>2 DEF NewSession, Drained, BindingInv
  <1>5. ResultInv'
    BY <1>1, <1>2 DEF NewSession, Drained, ResultInv, Bound, BindingInv
  <1> QED
    BY <1>1, <1>3, <1>4, <1>5, RecordTypesUnchanged, AccountTypesUnchanged, MemoryTypesUnchanged,
      HandlerTypesUnchanged, ExecTypesUnchanged, BatchInvUnchanged, ListedInvUnchanged,
      OwnerInvUnchanged, OneOwnerUnchanged, UploadsFirstUnchanged, CleanupInvUnchanged,
      KeptInvUnchanged, ReportInvUnchanged, RefusedInvUnchanged, AnswerInvUnchanged,
      CompleteInvUnchanged, EvidenceInvUnchanged, DecisionInvUnchanged, SeenInvUnchanged,
      EndedInvUnchanged, SettleInvUnchanged, AcknowledgedUnchanged, ReleasedUnchanged,
      TerminalUnchanged, LiveUnchanged, RefundedUnchanged

\* A run without its session stays without it.
LEMMA SessionLostKeeps ==
  ASSUME IInv, SessionLost
  PROVE  IInv'
  <1> USE DEF IInv, TypeParts
  <1>1. UNCHANGED <<row, observed, binding, requested, attempted, acked, failure, decided, reclaimed, order,
            txn, floor, share, listed, serving, base, sub, upload, hp, seen, answer, alloc, updates,
            posted, ex, stop, result, kept, sending, window, sess, cancels, unseen>>
    BY DEF SessionLost, Mishap, records, accounts, memory, handlers, executor, world, Quiet
  <1>2. WorldTypes'
    <2>1. mishaps' \in Nat
      BY DEF SessionLost, Mishap, WorldTypes
    <2>2. live' \in BOOLEAN
      BY DEF SessionLost
    <2> QED
      BY <1>1, <2>1, <2>2 DEF SessionLost, WorldTypes
  <1>3. ResultInv'
    BY <1>1 DEF SessionLost, Mishap, ResultInv, Bound
  <1> QED
    BY <1>1, <1>2, <1>3, RecordTypesUnchanged, AccountTypesUnchanged, MemoryTypesUnchanged,
      HandlerTypesUnchanged, ExecTypesUnchanged, BatchInvUnchanged, ListedInvUnchanged,
      BindingInvUnchanged, OwnerInvUnchanged, OneOwnerUnchanged, UploadsFirstUnchanged,
      CleanupInvUnchanged, KeptInvUnchanged, ReportInvUnchanged, RefusedInvUnchanged,
      AnswerInvUnchanged, CompleteInvUnchanged, EvidenceInvUnchanged, DecisionInvUnchanged,
      SeenInvUnchanged, EndedInvUnchanged, SettleInvUnchanged, AcknowledgedUnchanged,
      ReleasedUnchanged, TerminalUnchanged, LiveUnchanged, RefundedUnchanged

\* What had a result is gone, or queued under a session that has ended.
LEMMA ExecutorCrashKeeps ==
  ASSUME IInv, ExecutorCrash
  PROVE  IInv'
  <1> USE DEF IInv, TypeParts
  <1>1. UNCHANGED <<row, observed, binding, requested, attempted, acked, failure, decided, reclaimed, order,
            txn, floor, share, listed, serving, base, sub, upload, seen, answer, alloc, updates,
            posted, stop, result, kept, window, sess, cancels, unseen>>
    BY DEF ExecutorCrash, KeepOthers, Mishap, Unheard, NeverBegun, Executing, records, accounts, memory,
      handlers, executor, world, Quiet
  <1>2. /\ ex \in [Runs -> Executing \cup {"absent", "queued", "reporting", "gone"}]
        /\ sending \in [Runs -> {"no", "sent", "failed"}]
        /\ hp \in [Actors \X Runs -> Phases]
    BY DEF ExecTypes, HandlerTypes
  <1>3. HandlerTypes'
    BY <1>1, <1>2 DEF ExecutorCrash, KeepOthers, Mishap, Unheard, NeverBegun, Executing,
      HandlerTypes, Actors, Phases
  <1>4. ExecTypes'
    BY <1>1, <1>2 DEF ExecutorCrash, KeepOthers, Mishap, Unheard, NeverBegun, Executing,
      ExecTypes
  <1>5. WorldTypes'
    <2>1. mishaps' \in Nat
      BY DEF ExecutorCrash, Mishap, WorldTypes
    <2>2. live' \in BOOLEAN
      BY DEF ExecutorCrash
    <2> QED
      BY <1>1, <2>1, <2>2 DEF ExecutorCrash, WorldTypes
  <1>6. BatchInv'
    BY SMTT(30), <1>1, <1>2 DEF ExecutorCrash, KeepOthers, Mishap, Unheard, NeverBegun, Executing,
      BatchInv, Untouched, Actors
  <1>7. UploadsFirst'
    BY <1>1, <1>2 DEF ExecutorCrash, KeepOthers, Mishap, Unheard, NeverBegun, Executing,
      UploadsFirst, Actors
  <1>8. ResultInv'
    BY <1>1, <1>2 DEF ExecutorCrash, KeepOthers, Mishap, Unheard, NeverBegun, Executing,
      ResultInv, Bound
  <1>9. ReportInv'
    BY <1>1, <1>2 DEF ExecutorCrash, KeepOthers, Mishap, Unheard, NeverBegun, Executing,
      ReportInv, Actors
  <1>10. RefusedInv'
    BY <1>1, <1>2 DEF ExecutorCrash, KeepOthers, Mishap, Unheard, NeverBegun, Executing,
      RefusedInv
  <1>11. AnswerInv'
    BY <1>1, <1>2 DEF ExecutorCrash, KeepOthers, Mishap, Unheard, NeverBegun, Executing,
      AnswerInv
  <1>12. CompleteInv'
    BY <1>1, <1>2 DEF ExecutorCrash, KeepOthers, Mishap, Unheard, NeverBegun, Executing,
      CompleteInv, Cancelling, Actors
  <1>13. EndedInv'
    BY <1>1, <1>2 DEF ExecutorCrash, KeepOthers, Mishap, Unheard, NeverBegun, Executing,
      EndedInv, Actors
  <1>14. SettleInv'
    BY ZenonT(60), <1>1, <1>2 DEF ExecutorCrash, KeepOthers, Mishap, Unheard, NeverBegun, Executing,
      SettleInv, Success, code, Actors
  <1>15. AcknowledgedMeansStopped'
    BY <1>1, <1>2 DEF ExecutorCrash, KeepOthers, Mishap, Unheard, NeverBegun, Executing,
      AcknowledgedMeansStopped
  <1>16. TerminalHoldsNothing'
    BY <1>1, <1>2 DEF ExecutorCrash, KeepOthers, Mishap, Unheard, NeverBegun, Executing,
      TerminalHoldsNothing, Closing, Actors
  <1> QED
    BY <1>1, <1>3, <1>4, <1>5, <1>6, <1>7, <1>8, <1>9, <1>10, <1>11, <1>12, <1>13, <1>14, <1>15,
      <1>16, RecordTypesUnchanged, AccountTypesUnchanged, MemoryTypesUnchanged, ListedInvUnchanged,
      BindingInvUnchanged, OwnerInvUnchanged, OneOwnerUnchanged, CleanupInvUnchanged,
      KeptInvUnchanged, EvidenceInvUnchanged, DecisionInvUnchanged, SeenInvUnchanged,
      ReleasedUnchanged, LiveUnchanged, RefundedUnchanged

\* A dispatcher that dies holds nothing.
LEMMA DispatcherCrashKeeps ==
  ASSUME IInv, DispatcherCrash
  PROVE  IInv'
  <1> USE DEF IInv, TypeParts
  <1>1. UNCHANGED <<row, observed, binding, requested, attempted, acked, failure, decided, reclaimed, order,
            txn, base, upload, posted, ex, stop, result, kept, window, sess, cancels>>
    BY DEF DispatcherCrash, Mishap, records, accounts, memory, handlers, executor, world, Quiet
  <1>2. /\ floor \in [Runs -> BOOLEAN]
        /\ share \in [Runs -> BOOLEAN]
        /\ listed \subseteq Runs
        /\ unseen \subseteq Runs
        /\ sub \in [Submitters -> {"idle", "refused", "uploading", "cleanup", "refunding", "done"}]
        /\ hp \in [Actors \X Runs -> Phases]
        /\ seen \in [Actors \X Runs -> States]
        /\ answer \in [Actors \X Runs -> {"none", "ack", "notfound", "refused", "lost"}]
        /\ updates \in [Runs -> SUBSET {"initializing", "started"}]
        /\ alloc \in [Runs -> {"idle", "asked", "checked", "granted", "denied"}]
        /\ sending \in [Runs -> {"no", "sent", "failed"}]
    BY DEF MemoryTypes, WorldTypes, HandlerTypes, ExecTypes
  <1>3. MemoryTypes'
    BY <1>1, <1>2 DEF DispatcherCrash, Mishap, MemoryTypes
  <1>4. HandlerTypes'
    BY <1>1, <1>2 DEF DispatcherCrash, Mishap, HandlerTypes, Actors, Phases, States
  <1>5. ExecTypes'
    BY <1>1, <1>2 DEF DispatcherCrash, Mishap, ExecTypes
  <1>6. WorldTypes'
    <2>1. mishaps' \in Nat
      BY DEF DispatcherCrash, Mishap, WorldTypes
    <2>2. live' \in BOOLEAN
      BY DEF DispatcherCrash
    <2> QED
      BY <1>1, <2>1, <2>2 DEF DispatcherCrash, WorldTypes
  <1>7. BatchInv'
    BY <1>1, <1>2 DEF DispatcherCrash, Mishap, BatchInv, Untouched
  <1>8. ListedInv'
    BY <1>1, <1>2 DEF DispatcherCrash, Mishap, ListedInv
  <1>9. OwnerInv'
    BY <1>1, <1>2 DEF DispatcherCrash, Mishap, OwnerInv, Owns
  <1>10. OneOwner'
    BY <1>1, <1>2 DEF DispatcherCrash, Mishap, OneOwner, Owns
  <1>11. UploadsFirst'
    BY <1>1, <1>2 DEF DispatcherCrash, Mishap, UploadsFirst, Actors
  <1>12. CleanupInv'
    BY <1>1, <1>2 DEF DispatcherCrash, Mishap, CleanupInv, UploadFailed
  <1>13. ResultInv'
    BY <1>1, <1>2 DEF DispatcherCrash, Mishap, ResultInv, Bound
  <1>14. ReportInv'
    BY <1>1, <1>2 DEF DispatcherCrash, Mishap, ReportInv, Actors
  <1>15. AnswerInv'
    BY <1>1, <1>2 DEF DispatcherCrash, Mishap, AnswerInv, Actors
  <1>16. CompleteInv'
    BY <1>1, <1>2 DEF DispatcherCrash, Mishap, CompleteInv, Cancelling, Actors
  <1>17. SeenInv'
    BY SMTT(30), <1>1, <1>2 DEF DispatcherCrash, Mishap, SeenInv, Actors
  <1>18. EndedInv'
    BY <1>1, <1>2 DEF DispatcherCrash, Mishap, EndedInv, Actors
  <1>19. SettleInv'
    BY <1>1, <1>2 DEF DispatcherCrash, Mishap, SettleInv, Success, code, Actors
  <1>20. TerminalHoldsNothing'
    BY <1>1, <1>2 DEF DispatcherCrash, Mishap, TerminalHoldsNothing, Closing, Actors
  <1>21. LiveRunsAreCounted'
    BY <1>1, <1>2 DEF DispatcherCrash, Mishap, LiveRunsAreCounted, Admitted
  <1> QED
    BY <1>1, <1>3, <1>4, <1>5, <1>6, <1>7, <1>8, <1>9, <1>10, <1>11, <1>12, <1>13, <1>14, <1>15,
      <1>16, <1>17, <1>18, <1>19, <1>20, <1>21, RecordTypesUnchanged, AccountTypesUnchanged,
      BindingInvUnchanged, KeptInvUnchanged, RefusedInvUnchanged, EvidenceInvUnchanged,
      DecisionInvUnchanged, AcknowledgedUnchanged, ReleasedUnchanged, RefundedUnchanged DEF IInv,
      TypeParts

\* What was admitted before is of an earlier lifetime; what it restores may still run.
LEMMA DispatcherStartKeeps ==
  ASSUME IInv, DispatcherStart
  PROVE  IInv'
  <1> USE DEF IInv, TypeParts
  <1>1. UNCHANGED <<row, observed, binding, requested, attempted, acked, failure, decided, reclaimed, order,
            txn, share, listed, sub, upload, hp, seen, answer, alloc, updates, posted, ex, stop,
            result, kept, sending, window, sess, live, cancels, unseen, mishaps>>
    BY DEF DispatcherStart, Restored, Admitted, records, accounts, memory, handlers, executor, world, Quiet
  <1>2. /\ base \in Nat
        /\ floor \in [Runs -> BOOLEAN]
        /\ binding \in [Runs -> Nat]
        /\ sess \in Nat
    BY DEF MemoryTypes, RecordTypes, WorldTypes
  <1>3. MemoryTypes'
    BY <1>1, <1>2 DEF DispatcherStart, Restored, Admitted, MemoryTypes
  <1>4. TerminalHoldsNothing'
    BY <1>1, <1>2 DEF DispatcherStart, Restored, Admitted, TerminalHoldsNothing, Closing
  <1>5. LiveRunsAreCounted'
    BY <1>1, <1>2 DEF DispatcherStart, Restored, Admitted, LiveRunsAreCounted, BindingInv
  <1> QED
    BY <1>1, <1>3, <1>4, <1>5, RecordTypesUnchanged, AccountTypesUnchanged,
      HandlerTypesUnchanged, ExecTypesUnchanged, WorldTypesUnchanged, BatchInvUnchanged,
      ListedInvUnchanged, BindingInvUnchanged, OwnerInvUnchanged, OneOwnerUnchanged,
      UploadsFirstUnchanged, CleanupInvUnchanged, ResultInvUnchanged, KeptInvUnchanged,
      ReportInvUnchanged, RefusedInvUnchanged, AnswerInvUnchanged, CompleteInvUnchanged,
      EvidenceInvUnchanged, DecisionInvUnchanged, SeenInvUnchanged, EndedInvUnchanged,
      SettleInvUnchanged, AcknowledgedUnchanged, ReleasedUnchanged, RefundedUnchanged DEF IInv,
      TypeParts

-----------------------------------------------------------------------------
(* Every step keeps the invariant.  *)

\* Types, from their parts.
LEMMA TypesFromParts == TypeParts => TypeOK
  BY DEF TypeParts, RecordTypes, AccountTypes, MemoryTypes, HandlerTypes, ExecTypes, WorldTypes, TypeOK

\* A dispatcher without runs.
LEMMA InitIInv == Init => IInv
  <1> SUFFICES ASSUME Init PROVE IInv
    OBVIOUS
  <1>1. TypeParts
    BY DEF Init, TypeParts, RecordTypes, AccountTypes, MemoryTypes, HandlerTypes, ExecTypes,
           WorldTypes, States, Phases
  <1>2. \A a \in Actors, r \in Runs : hp[<<a, r>>] = "idle" /\ seen[<<a, r>>] = "absent" /\ answer[<<a, r>>] = "none"
    BY DEF Init
  <1>3. BatchInv
    BY <1>2 DEF Init, BatchInv, Untouched
  <1>4. \A c \in Submitters : sub[c] = "idle"
    BY DEF Init
  <1>5. OwnerInv /\ OneOwner /\ CleanupInv
    BY <1>4 DEF OwnerInv, OneOwner, CleanupInv, Owns
  <1>6. ListedInv
    BY DEF Init, ListedInv
  <1>7. BindingInv
    <2>1. sess = 0 /\ \A r \in Runs : binding[r] = 0
      BY DEF Init
    <2> QED
      BY <2>1 DEF BindingInv
  <1>8. UploadsFirst /\ ReportInv /\ CompleteInv
    BY <1>2, ActorFacts DEF Init, UploadsFirst, ReportInv, CompleteInv
  <1>9. ResultInv /\ KeptInv /\ RefusedInv /\ EvidenceInv /\ DecisionInv
    BY DEF Init, ResultInv, KeptInv, RefusedInv, EvidenceInv, DecisionInv
  <1>10. AnswerInv /\ SeenInv /\ EndedInv /\ SettleInv
    BY <1>2 DEF AnswerInv, SeenInv, EndedInv, SettleInv
  <1>11. AcknowledgedMeansStopped /\ ReleasedIsRecorded
    BY DEF Init, AcknowledgedMeansStopped, ReleasedIsRecorded
  <1>12. TerminalHoldsNothing /\ LiveRunsAreCounted /\ RefundedBatchFailed
    BY DEF Init, TerminalHoldsNothing, LiveRunsAreCounted, RefundedBatchFailed, Admitted
  <1> QED
    BY <1>1, <1>3, <1>5, <1>6, <1>7, <1>8, <1>9, <1>10, <1>11, <1>12 DEF IInv

\* A step that changes nothing.
LEMMA StutterKeeps ==
  ASSUME IInv, UNCHANGED vars
  PROVE  IInv'
  <1> USE DEF IInv, TypeParts
  <1>1. /\ row' = row /\ observed' = observed /\ binding' = binding /\ requested' = requested
        /\ attempted' = attempted /\ acked' = acked /\ failure' = failure /\ decided' = decided
        /\ reclaimed' = reclaimed /\ order' = order /\ txn' = txn /\ floor' = floor
        /\ share' = share /\ listed' = listed /\ serving' = serving /\ base' = base /\ sub' = sub
        /\ upload' = upload /\ hp' = hp /\ seen' = seen /\ answer' = answer /\ alloc' = alloc
        /\ updates' = updates /\ posted' = posted /\ ex' = ex /\ stop' = stop /\ result' = result
        /\ kept' = kept /\ sending' = sending /\ window' = window /\ sess' = sess /\ live' = live
        /\ cancels' = cancels /\ unseen' = unseen /\ mishaps' = mishaps
    BY DEF vars, records, accounts, memory, handlers, executor, world
  <1> QED
    BY <1>1, RecordTypesUnchanged, AccountTypesUnchanged, MemoryTypesUnchanged, HandlerTypesUnchanged,
      ExecTypesUnchanged, WorldTypesUnchanged, BatchInvUnchanged, ListedInvUnchanged,
      BindingInvUnchanged, OwnerInvUnchanged, OneOwnerUnchanged, UploadsFirstUnchanged,
      CleanupInvUnchanged, ResultInvUnchanged, KeptInvUnchanged, ReportInvUnchanged,
      RefusedInvUnchanged, AnswerInvUnchanged, CompleteInvUnchanged, EvidenceInvUnchanged,
      DecisionInvUnchanged, SeenInvUnchanged, EndedInvUnchanged, SettleInvUnchanged,
      AcknowledgedUnchanged, ReleasedUnchanged, TerminalUnchanged, LiveUnchanged, RefundedUnchanged

\* Every step keeps it.
LEMMA IInvStep == IInv /\ [Next]_vars => IInv'
  <1> SUFFICES ASSUME IInv, [Next]_vars PROVE IInv'
    OBVIOUS
  <1>1. ASSUME NEW c \in Submitters, SubmitStep(c) PROVE IInv'
    BY <1>1, AdmitKeeps, AdmitRefusedKeeps, AnswerRecordedKeeps, RefundUnadmittedKeeps,
      BatchUploadedKeeps, RefundBatchKeeps DEF SubmitStep
  <1>2. ASSUME NEW r \in Runs, UploadStep(r) PROVE IInv'
    BY <1>2, UploadSendKeeps, ExecAcceptKeeps, ExecRefuseKeeps, RecordUploadedKeeps DEF UploadStep
  <1>3. ASSUME NEW r \in Runs, RunStep(r) PROVE IInv'
    BY <1>3, BeginKeeps, AllocReadKeeps, AllocCommitKeeps, InitializeKeeps, RunKeeps,
      OnDebugletStateKeeps, EndKeeps DEF RunStep
  <1>4. ASSUME NEW r \in Runs, DeliveryStep(r) PROVE IInv'
    BY <1>4, DeliverKeeps, DeliverAnswerKeeps, RetryKeeps, GiveUpKeeps DEF DeliveryStep
  <1>5. ASSUME NEW a \in Actors, NEW r \in Runs, HandlerStep(a, r) PROVE IInv'
    BY <1>5, CompleteKeeps, SettleKeeps, ReleaseKeeps, AbortReadKeeps, AbortRequestKeeps,
      AbortAttemptKeeps, OnAbortKeeps, AbortJoinedKeeps, AbortLostKeeps, AbortRecordKeeps,
      MarkUnreconciledKeeps, UnboundRequestKeeps, UnboundCompleteKeeps DEF HandlerStep
  <1>6. ASSUME Failures PROVE IInv'
    BY <1>6, ClockRollbackKeeps, SessionLostKeeps, ExecutorCrashKeeps, DispatcherCrashKeeps,
      UploadLostKeeps, DeliverLostKeeps, LateAbortKeeps, AbortFailsKeeps DEF Failures
  <1>7. ASSUME NEW r \in Runs, AbortDebuglet(r) \/ Reclaim(r) \/ SweepHeld(r) \/ SettlePending(r) PROVE IInv'
    BY <1>7, AbortDebugletKeeps, ReclaimKeeps, SweepHeldKeeps, SettlePendingKeeps
  <1>8. CASE SweepList \/ Tick \/ NewSession \/ DispatcherStart
    BY <1>8, SweepListKeeps, TickKeeps, NewSessionKeeps, DispatcherStartKeeps
  <1>9. CASE UNCHANGED vars
    BY <1>9, StutterKeeps
  <1> QED
    BY <1>1, <1>2, <1>3, <1>4, <1>5, <1>6, <1>7, <1>8, <1>9 DEF Next

\* The inductive invariant holds of every behaviour.
THEOREM LifecycleInvariant == Spec => []IInv
  BY InitIInv, IInvStep, PTL DEF Spec

\* However calls are lost, sessions end and processes die: the executor has nothing left
\* of a run whose cancellation the dispatcher has recorded as acknowledged.
THEOREM AcknowledgedRunsAreStopped == Spec => []AcknowledgedMeansStopped
  <1>1. IInv => AcknowledgedMeansStopped
    BY DEF IInv
  <1> QED
    BY <1>1, LifecycleInvariant, PTL

\* An exit recorded as observed is the executor's result, an acknowledged cancellation, or
\* a refused upload of a run that can no longer be taken.
THEOREM ObservationsAreEvidence == Spec => []ObservedIsEvidence
  <1>1. IInv => ObservedIsEvidence
    BY DEF IInv, EvidenceInv, RefusedInv, ObservedIsEvidence
  <1> QED
    BY <1>1, LifecycleInvariant, PTL

\* Capacity is held for every run that may use it and for no run whose end or reclamation
\* is recorded and released; the executor keeps its result until the end is recorded.
THEOREM CapacityIsExact == Spec => []ResourcesAreExact
  <1>1. IInv => ResourcesAreExact
    BY TypesFromParts DEF IInv, ResourcesAreExact
  <1> QED
    BY <1>1, LifecycleInvariant, PTL

\* A transaction is never refunded under a batch that was admitted and uploaded, however
\* many requests submit it at once.
THEOREM RefundsNeedFailure == Spec => []RefundedBatchFailed
  <1>1. IInv => RefundedBatchFailed
    BY DEF IInv
  <1> QED
    BY <1>1, LifecycleInvariant, PTL

-----------------------------------------------------------------------------
(* The records implement RunContract.  *)

Verdicts == [r \in Runs |-> verdictOf(r)]
Stays == Verdicts' = Verdicts /\ order' = order
Follows == Contract!ContractNext \/ Stays

\* What a verdict stands for.
LEMMA VerdictIs ==
  ASSUME RecordTypes, NEW r \in Runs
  PROVE  /\ row[r] = "absent" => verdictOf(r) = "none"
         /\ row[r] \notin {"absent", "exited"} => verdictOf(r) = "open"
         /\ row[r] = "exited" /\ decided[r] => verdictOf(r) = "cancelled"
         /\ row[r] = "exited" /\ Success(r) => verdictOf(r) = "success"
         /\ row[r] = "exited" /\ ~ decided[r] /\ ~ Success(r) => verdictOf(r) = "failure"
  BY DEF verdictOf, Success, RecordTypes

\* The same after a step.
LEMMA VerdictNext ==
  ASSUME RecordTypes', NEW r \in Runs
  PROVE  /\ row'[r] = "absent" => verdictOf(r)' = "none"
         /\ row'[r] \notin {"absent", "exited"} => verdictOf(r)' = "open"
         /\ row'[r] = "exited" /\ decided'[r] => verdictOf(r)' = "cancelled"
         /\ row'[r] = "exited" /\ Success(r)' => verdictOf(r)' = "success"
         /\ row'[r] = "exited" /\ ~ decided'[r] /\ ~ Success(r)' => verdictOf(r)' = "failure"
  BY DEF verdictOf, Success, RecordTypes

\* A step that leaves the records of ends and the orders alone.
LEMMA NothingEnds ==
  ASSUME UNCHANGED <<row, observed, decided, order>>
  PROVE  Follows
  BY DEF Follows, Stays, Verdicts, verdictOf

\* A step within the life of admitted runs.
LEMMA NothingEndsYet ==
  ASSUME RecordTypes, RecordTypes', UNCHANGED <<observed, decided, order>>,
         \A s \in Runs : row[s] # "absent" /\ row'[s] # "absent" /\ (row'[s] = "exited" <=> row[s] = "exited")
  PROVE  Follows
  <1>1. ASSUME NEW s \in Runs PROVE verdictOf(s)' = verdictOf(s)
    <2>1. CASE row[s] = "exited"
      BY <2>1 DEF verdictOf
    <2>2. CASE row[s] # "exited"
      BY <2>2, VerdictIs, VerdictNext
    <2> QED
      BY <2>1, <2>2
  <1> QED
    BY <1>1 DEF Follows, Stays, Verdicts

\* The end of one run.
LEMMA OneEnds ==
  ASSUME RecordTypes, RecordTypes', NEW r \in Runs, row[r] \notin {"absent", "exited"},
         row' = [row EXCEPT ![r] = "exited"], order' = order,
         \A s \in Runs \ {r} : observed'[s] = observed[s] /\ decided'[s] = decided[s]
  PROVE  Follows
  <1>1. verdictOf(r) = "open"
    BY VerdictIs
  <1>2. row'[r] = "exited" /\ \A s \in Runs \ {r} : row'[s] = row[s]
    BY DEF RecordTypes
  <1>3. verdictOf(r)' \in {"success", "failure", "cancelled"}
    BY <1>2, VerdictNext
  <1>4. ASSUME NEW s \in Runs \ {r} PROVE verdictOf(s)' = verdictOf(s)
    BY <1>2 DEF verdictOf
  <1>5. Verdicts' = [Verdicts EXCEPT ![r] = verdictOf(r)']
    BY <1>4 DEF Verdicts
  <1>6. Contract!Decide(r, verdictOf(r)')
    BY <1>1, <1>3, <1>5 DEF Contract!Decide, Verdicts
  <1> QED
    BY <1>3, <1>6 DEF Follows, Contract!ContractNext

\* The settlement of one order, by what its run ended with.
LEMMA OneIsPaid ==
  ASSUME RecordTypes, AccountTypes, UNCHANGED <<row, observed, decided>>, NEW r \in Runs, NEW c,
         row[r] = "exited", (Success(r) /\ c = "zero") \/ (~ Success(r) /\ c # "zero"), SettleOrder(r, c)
  PROVE  Follows
  <1>1. Verdicts' = Verdicts
    BY DEF Verdicts, verdictOf
  <1>2. CASE order[r] # "outstanding"
    <2>1. order' = order
      BY <1>2 DEF SettleOrder, AccountTypes
    <2> QED
      BY <1>1, <2>1 DEF Follows, Stays
  <1>3. CASE order[r] = "outstanding"
    <2>1. verdictOf(r) \in {"success", "failure", "cancelled"} /\ (verdictOf(r) = "success" <=> c = "zero")
      BY VerdictIs DEF Success
    <2>2. order' = [order EXCEPT ![r] = IF verdictOf(r) = "success" THEN "credited" ELSE "refunded"]
      BY <1>3, <2>1 DEF SettleOrder, AccountTypes
    <2>3. Contract!Pay(r)
      BY <1>1, <1>3, <2>1, <2>2 DEF Contract!Pay, Verdicts
    <2> QED
      BY <2>3 DEF Follows, Contract!ContractNext
  <1> QED
    BY <1>2, <1>3

\* The refund of what is outstanding.
LEMMA BatchIsRefunded ==
  ASSUME UNCHANGED <<row, observed, decided>>, RefundOutstanding \/ UNCHANGED accounts
  PROVE  Follows
  <1>1. Verdicts' = Verdicts
    BY DEF Verdicts, verdictOf
  <1>2. CASE RefundOutstanding
    <2>1. Contract!RefundBatch
      BY <1>1, <1>2 DEF RefundOutstanding, Contract!RefundBatch, Verdicts
    <2> QED
      BY <2>1 DEF Follows, Contract!ContractNext
  <1>3. CASE UNCHANGED accounts
    BY <1>1, <1>3 DEF Follows, Stays, accounts
  <1> QED
    BY <1>2, <1>3

\* A submission is an admission, a refund, or nothing to the contract.
LEMMA SubmitFollows ==
  ASSUME IInv, NEW c \in Submitters, SubmitStep(c)
  PROVE  Follows
  <1> USE DEF IInv, TypeParts
  <1>1. CASE Admit(c)
    <2>1. \A r \in Runs : row[r] = "absent" /\ row'[r] = "uploading"
      BY <1>1 DEF Admit, Admitted
    <2>2. \A r \in Runs : verdictOf(r) = "none"
      BY <2>1, VerdictIs
    <2>3. \A r \in Runs : verdictOf(r)' = "open"
      BY <2>1 DEF verdictOf
    <2>4. Contract!AdmitBatch
      BY <1>1, <2>2, <2>3 DEF Admit, accounts, Contract!AdmitBatch, Verdicts
    <2> QED
      BY <2>4 DEF Follows, Contract!ContractNext
  <1>2. CASE RefundUnadmitted(c) \/ RefundBatch(c)
    BY <1>2, BatchIsRefunded DEF RefundUnadmitted, RefundBatch, records
  <1>3. CASE AdmitRefused(c) \/ AnswerRecorded(c) \/ BatchUploaded(c)
    BY <1>3, NothingEnds DEF AdmitRefused, AnswerRecorded, BatchUploaded, records, accounts
  <1> QED
    BY <1>1, <1>2, <1>3 DEF SubmitStep

\* A report, or the end of an upload, raises the rank of an open run.
LEMMA RankFollows ==
  ASSUME IInv, IInv', NEW r \in Runs, NEW s \in {"initializing", "started"},
         RecordUploaded(r) \/ OnDebugletState(r, s) \/ markUnreconciled(r)
  PROVE  Follows
  <1> USE DEF IInv, TypeParts
  <1>1. \A t \in Runs : row[t] # "absent"
    <2>1. CASE RecordUploaded(r)
      BY <2>1 DEF RecordUploaded, Uploading, OwnerInv, Owns
    <2>2. CASE OnDebugletState(r, s)
      BY <2>2 DEF OnDebugletState, BatchInv, Untouched
    <2>3. CASE markUnreconciled(r)
      BY <2>3, ActorFacts DEF markUnreconciled, BatchInv, Untouched
    <2> QED
      BY <2>1, <2>2, <2>3
  <1>2. UNCHANGED <<observed, decided, order>>
    BY DEF RecordUploaded, OnDebugletState, markUnreconciled, accounts
  <1>3. row \in [Runs -> States]
    BY DEF RecordTypes
  <1>4. \A t \in Runs : row'[t] # "absent" /\ (row'[t] = "exited" <=> row[t] = "exited")
    <2>1. CASE RecordUploaded(r)
      BY <2>1, <1>1, <1>3 DEF RecordUploaded, rank, States
    <2>2. CASE OnDebugletState(r, s)
      BY <2>2, <1>1, <1>3 DEF OnDebugletState, rank, States
    <2>3. CASE markUnreconciled(r)
      BY <2>3, <1>1, <1>3 DEF markUnreconciled, rank, States
    <2> QED
      BY <2>1, <2>2, <2>3
  <1> QED
    BY <1>1, <1>2, <1>4, NothingEndsYet

\* A handler that records an end decides it once.
LEMMA EndFollows ==
  ASSUME IInv, IInv', NEW a \in Actors, NEW r \in Runs, Complete(a, r) \/ UnboundComplete(r)
  PROVE  Follows
  <1> USE DEF IInv, TypeParts
  <1>1. order' = order
    BY DEF Complete, UnboundComplete, accounts
  <1>2. row[r] # "absent"
    <2>1. hp[<<a, r>>] # "idle" \/ hp[<<"client", r>>] # "idle"
      BY DEF Complete, UnboundComplete
    <2> QED
      BY <2>1, ActorFacts DEF BatchInv, Untouched
  <1>3. \/ UNCHANGED <<row, observed, decided>>
        \/ row[r] # "exited" /\ RecordExit(a, r)
        \/ row[r] # "exited" /\ DecideExit(r)
    BY DEF Complete, UnboundComplete, RecordExit, DecideExit, records
  <1>4. CASE UNCHANGED <<row, observed, decided>>
    BY <1>1, <1>4, NothingEnds
  <1>5. CASE row[r] # "exited" /\ RecordExit(a, r)
    <2>1. \A s \in Runs \ {r} : observed'[s] = observed[s] /\ decided'[s] = decided[s]
      BY <1>5 DEF RecordExit, RecordTypes
    <2> QED
      BY <1>1, <1>2, <1>5, <2>1, OneEnds DEF RecordExit
  <1>6. CASE row[r] # "exited" /\ DecideExit(r)
    <2>1. \A s \in Runs \ {r} : observed'[s] = observed[s] /\ decided'[s] = decided[s]
      BY <1>6 DEF DecideExit, RecordTypes
    <2> QED
      BY <1>1, <1>2, <1>6, <2>1, OneEnds DEF DecideExit
  <1> QED
    BY <1>3, <1>4, <1>5, <1>6

\* A settlement, of the handler that recorded the end or of a sweep, pays by that end.
LEMMA PayFollows ==
  ASSUME IInv, NEW a \in Actors, NEW r \in Runs, Settle(a, r) \/ SettlePending(r)
  PROVE  Follows
  <1> USE DEF IInv, TypeParts
  <1>1. UNCHANGED <<row, observed, decided>>
    BY DEF Settle, SettlePending, records
  <1>2. CASE Settle(a, r)
    <2>1. row[r] = "exited"
      BY <1>2 DEF Settle, EndedInv
    <2>2. (Success(r) /\ code(a, r) = "zero") \/ (~ Success(r) /\ code(a, r) # "zero")
      BY <1>2 DEF Settle, SettleInv
    <2>3. SettleOrder(r, code(a, r)) \/ order' = order
      BY <1>2 DEF Settle
    <2> QED
      BY <1>1, <2>1, <2>2, <2>3, OneIsPaid, NothingEnds
  <1>3. CASE SettlePending(r)
    <2>1. row[r] = "exited" /\ SettleOrder(r, observed[r])
      BY <1>3 DEF SettlePending, PendingSettlement
    <2>2. (Success(r) /\ observed[r] = "zero") \/ (~ Success(r) /\ observed[r] # "zero")
      BY DEF Success, DecisionInv
    <2> QED
      BY <1>1, <2>1, <2>2, OneIsPaid
  <1> QED
    BY <1>2, <1>3

\* Every step follows the contract or leaves what it sees alone.
LEMMA ContractStep ==
  ASSUME IInv, IInv', Next
  PROVE  Follows
  <1>1. ASSUME NEW c \in Submitters, SubmitStep(c) PROVE Follows
    BY <1>1, SubmitFollows
  <1>2. ASSUME NEW r \in Runs, UploadStep(r) PROVE Follows
    <2>1. CASE RecordUploaded(r)
      BY <2>1, RankFollows
    <2>2. CASE UploadSend(r) \/ ExecAccept(r) \/ ExecRefuse(r)
      BY <2>2, NothingEnds DEF UploadSend, ExecAccept, ExecRefuse, records, accounts
    <2> QED
      BY <1>2, <2>1, <2>2 DEF UploadStep
  <1>3. ASSUME NEW r \in Runs, RunStep(r) PROVE Follows
    <2>1. ASSUME NEW s \in {"initializing", "started"}, OnDebugletState(r, s) PROVE Follows
      BY <2>1, RankFollows
    <2>2. CASE Begin(r) \/ AllocRead(r) \/ AllocCommit(r) \/ Initialize(r) \/ Run(r)
      BY <2>2, NothingEnds DEF Begin, AllocRead, AllocCommit, Initialize, Run, records, accounts
    <2>3. ASSUME NEW c \in {"zero", "failed"}, End(r, c) PROVE Follows
      BY <2>3, NothingEnds DEF End, records, accounts
    <2> QED
      BY <1>3, <2>1, <2>2, <2>3 DEF RunStep
  <1>4. ASSUME NEW r \in Runs, DeliveryStep(r) PROVE Follows
    BY <1>4, NothingEnds DEF DeliveryStep, Deliver, DeliverAnswer, Retry, GiveUp, records, accounts
  <1>5. ASSUME NEW a \in Actors, NEW r \in Runs, HandlerStep(a, r) PROVE Follows
    <2>1. CASE Complete(a, r) \/ UnboundComplete(r)
      BY <2>1, EndFollows
    <2>2. CASE Settle(a, r)
      BY <2>2, PayFollows
    <2>3. CASE markUnreconciled(r)
      BY <2>3, RankFollows
    <2>4. CASE Release(a, r) \/ AbortRead(a, r) \/ OnAbort(a, r) \/ AbortJoined(a, r) \/ AbortLost(a, r)
      BY <2>4, NothingEnds DEF Release, AbortRead, OnAbort, AbortJoined, AbortLost, records, accounts
    <2>5. CASE AbortRequest(a, r) \/ UnboundRequest(r)
      BY <2>5, NothingEnds DEF AbortRequest, UnboundRequest, Cancels, accounts
    <2>6. CASE AbortAttempt(a, r)
      BY <2>6, NothingEnds DEF AbortAttempt, Cancels, Fails, accounts
    <2>7. CASE AbortRecord(a, r)
      BY <2>7, NothingEnds DEF AbortRecord, Cancels, Fails, accounts
    <2> QED
      BY <1>5, <2>1, <2>2, <2>3, <2>4, <2>5, <2>6, <2>7 DEF HandlerStep
  <1>6. ASSUME NEW r \in Runs, AbortDebuglet(r) \/ Reclaim(r) \/ SweepHeld(r) \/ SettlePending(r)
        PROVE  Follows
    <2>1. CASE SettlePending(r)
      BY <2>1, PayFollows, ActorFacts
    <2>2. CASE AbortDebuglet(r) \/ Reclaim(r) \/ SweepHeld(r)
      BY <2>2, NothingEnds DEF AbortDebuglet, Reclaim, SweepHeld, records, accounts
    <2> QED
      BY <1>6, <2>1, <2>2
  <1>7. CASE SweepList \/ Tick \/ NewSession \/ DispatcherStart
    BY <1>7, NothingEnds DEF SweepList, Tick, NewSession, DispatcherStart, records, accounts
  <1>8. CASE Failures
    <2>1. CASE ClockRollback \/ SessionLost \/ ExecutorCrash \/ DispatcherCrash
      BY <2>1, NothingEnds DEF ClockRollback, SessionLost, ExecutorCrash, DispatcherCrash, records, accounts
    <2>2. ASSUME NEW r \in Runs, UploadLost(r) \/ DeliverLost(r) \/ LateAbort(r) PROVE Follows
      BY <2>2, NothingEnds DEF UploadLost, DeliverLost, LateAbort, records, accounts
    <2>3. ASSUME NEW a \in Cancelling, NEW r \in Runs, AbortFails(a, r) PROVE Follows
      BY <2>3, NothingEnds DEF AbortFails, records, accounts
    <2> QED
      BY <1>8, <2>1, <2>2, <2>3 DEF Failures
  <1> QED
    BY <1>1, <1>2, <1>3, <1>4, <1>5, <1>6, <1>7, <1>8 DEF Next

\* For any number of runs, requests and failures the batch is admitted whole, each run
\* ends once, and its payment follows that end: the lifecycle implements RunContract.
THEOREM LifecycleImplementsContract == Spec => ImplementsContract
  <1>1. Init => Contract!ContractInit
    <2> SUFFICES ASSUME Init PROVE Contract!ContractInit
      OBVIOUS
    <2>1. \A r \in Runs : verdictOf(r) = "none"
      BY DEF Init, verdictOf
    <2> QED
      BY <2>1 DEF Init, Contract!ContractInit
  <1>2. IInv /\ IInv' /\ [Next]_vars => [Contract!ContractNext]_(Contract!contractVars)
    <2> SUFFICES ASSUME IInv, IInv', [Next]_vars
                 PROVE  [Contract!ContractNext]_(Contract!contractVars)
      OBVIOUS
    <2>1. Follows
      <3>1. CASE Next
        BY <3>1, ContractStep
      <3>2. CASE UNCHANGED vars
        BY <3>2, NothingEnds DEF vars, records, accounts
      <3> QED
        BY <3>1, <3>2
    <2> QED
      BY <2>1 DEF Follows, Stays, Verdicts, Contract!contractVars
  <1> QED
    BY <1>1, <1>2, LifecycleInvariant, PTL DEF Spec, ImplementsContract, Contract!ContractSpec

=============================================================================
