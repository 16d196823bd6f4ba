--------------------------- MODULE OutputDelivery ---------------------------
(***************************************************************************)
(* Durable output of a run, end to end: the executor's spool               *)
(* (internal/executor/outputstore), the pump that feeds it while the run   *)
(* executes and the retry loop that empties it afterwards                  *)
(* (internal/executor/durable_output.go), the stream between the two       *)
(* daemons, and the dispatcher's store (internal/dispatcher/output_store). *)
(*                                                                         *)
(* One step is one transaction of either database, one message handed to   *)
(* the stream, or one decision of a worker on the answer it got.  An       *)
(* exchange may be cut at any point: its request can still commit later    *)
(* (a stray), its answer is lost.  Either process may die between two      *)
(* steps.                                                                  *)
(*                                                                         *)
(* A frame's payload is its length: the limits are about lengths, and two  *)
(* lengths are enough to tell two payloads apart.                          *)
(***************************************************************************)
EXTENDS Integers, Sequences, FiniteSets, FiniteSetsExt

CONSTANTS
  Runs,         \* runs submitted to this executor
  Data,         \* frame payloads (lengths)
  RunCharge, FrameCharge,                    \* pb.OutputRunCharge, pb.OutputFrameCharge
  SpoolBytes, SpoolRuns, RunBytes, RunFrames,\* the executor's limits
  KeepBytes, KeepFrames, StoreBytes,         \* the dispatcher's limits, per run and in all
  PassFrames,   \* outputPassFrames
  Credentials,  \* what the executor may be configured with, of the three below
  MaxSessions,  \* bound on control sessions
  MaxMishaps    \* bound on injected failures: lost exchanges, storage faults, crashes

ASSUME OutputAssumption ==
  /\ IsFiniteSet(Runs)
  /\ Data \subseteq Nat /\ RunCharge \in Nat /\ FrameCharge \in Nat
  /\ {SpoolBytes, SpoolRuns, RunBytes, RunFrames} \subseteq Nat
  /\ {KeepBytes, KeepFrames, StoreBytes} \subseteq Nat
  /\ PassFrames \in Nat \ {0} /\ MaxSessions \in Nat /\ MaxMishaps \in Nat
  /\ Credentials \subseteq {"enrolled", "unenrolled", "plaintext"}

VARIABLES
  \* The executor's database.
  status,     \* status[r]: "absent", "open", "complete" or "truncated"
  reason,     \* reason[r]: why it is truncated, "" otherwise
  emitted,    \* emitted[r]: every frame appended; the row keeps its length and byte total
  held,       \* held[r]: sequences of the frames still in the spool
  acked,      \* acked[r]: acknowledged_sequence
  endAck,     \* endAck[r]: end_acknowledged
  receipt,    \* receipt[r]: a dispatcher truncation was accepted in place of the end
  usage,      \* output_usage.charged_bytes
  \* The executor's workers.
  started,    \* started[r]: the run's one execution has begun
  worker,     \* worker[r]: who holds r's delivery: "none", "pump" or "retry"
  at,         \* at[r]: "idle", "opening", "drain", "sending", "settle" or "ending"
  live,       \* live[r]: the pump's delivery context is not done
  rejected,   \* rejected[r]: the pump holds a validated quota receipt (it is reply[r])
  loss,       \* loss[r]: the pump's first loss
  batch,      \* batch[r]: the frames a retry pass has still to send
  credential, \* its configured credential, which does not change
  running,    \* the executor process is up
  unhealthy,  \* Executor.outputFailed
  \* The stream.
  wire,       \* wire[r]: "idle", "sent", "ok", "refused", "denied" or "failed"
  msg,        \* msg[r]: the request of the exchange
  reply,      \* reply[r]: the last receipt
  stray,      \* stray[r]: requests whose sender gave up; each may still commit
  \* The control session and the dispatcher's database.
  sess, up,   \* sessions so far, and whether the last one is live
  ending,     \* ended sessions whose OnExecutorDisconnected has not run
  binding,    \* binding[r]: the session r was admitted under, 0 before
  dStatus, dReason,  \* "absent", "pending", "complete" or "truncated", and why
  dLog,       \* dLog[r]: the committed frames
  dUsage,     \* the node's charged bytes
  \* History.
  abandoned,  \* abandoned[r]: the executor dropped the output unacknowledged
  mishaps

spool == <<status, reason, emitted, held, acked, endAck, receipt, usage, abandoned>>
work == <<started, worker, at, live, rejected, loss, batch>>
stream == <<wire, msg, reply, stray>>
process == <<credential, running, unhealthy>>
session == <<sess, up, ending, binding>>
store == <<dStatus, dReason, dLog, dUsage>>
vars == <<spool, work, stream, process, session, store, mishaps>>

QuotaReasons == {"output_limit", "storage_limit"}
Reasons == QuotaReasons \cup {"", "spool_limit", "executor_interrupted", "producer_failed"}
Finished == {"complete", "truncated"}

\* The executor's certificate is enrolled (owner_fingerprint # ''), or it runs
\* without TLS, or it has a certificate nobody enrolled.
Enrolled == credential = "enrolled"
Plaintext == credential = "plaintext"

Message == [kind : {"ident", "frame", "end"}, seq : Nat, data : Nat,
            status : Finished, reason : Reasons]
Receipt == [seq : Nat, status : {"absent", "pending", "complete", "truncated"}, reason : Reasons]

Mishap == mishaps < MaxMishaps /\ mishaps' = mishaps + 1

Ident == [kind |-> "ident", seq |-> 0, data |-> 0, status |-> "complete", reason |-> ""]
Frame(i, d) == [kind |-> "frame", seq |-> i, data |-> d, status |-> "complete", reason |-> ""]

\* Bytes of the frames numbered S, with and without the charge per frame.
Bytes(log, S) == MapThenSumSet(LAMBDA i : log[i], S)
Charge(log, S) == Bytes(log, S) + FrameCharge * Cardinality(S)

\* The two usage counters have their exact value in ChargesAreExact.
TypeOK ==
  /\ status \in [Runs -> {"absent", "open", "complete", "truncated"}]
  /\ reason \in [Runs -> Reasons] /\ emitted \in [Runs -> Seq(Data)]
  /\ held \in [Runs -> SUBSET Nat] /\ acked \in [Runs -> Nat]
  /\ endAck \in [Runs -> BOOLEAN] /\ receipt \in [Runs -> BOOLEAN]
  /\ started \in [Runs -> BOOLEAN] /\ worker \in [Runs -> {"none", "pump", "retry"}]
  /\ at \in [Runs -> {"idle", "opening", "drain", "sending", "settle", "ending"}]
  /\ live \in [Runs -> BOOLEAN] /\ rejected \in [Runs -> BOOLEAN]
  /\ loss \in [Runs -> Reasons] /\ batch \in [Runs -> SUBSET Nat]
  /\ credential \in Credentials /\ running \in BOOLEAN /\ unhealthy \in BOOLEAN
  /\ wire \in [Runs -> {"idle", "sent", "ok", "refused", "denied", "failed"}]
  /\ msg \in [Runs -> Message] /\ reply \in [Runs -> Receipt]
  /\ stray \in [Runs -> SUBSET Message]
  /\ sess \in Nat /\ up \in BOOLEAN /\ ending \subseteq Nat /\ binding \in [Runs -> Nat]
  /\ dStatus \in [Runs -> {"absent", "pending", "complete", "truncated"}]
  /\ dReason \in [Runs -> Reasons] /\ dLog \in [Runs -> Seq(Data)]
  /\ abandoned \in [Runs -> BOOLEAN] /\ mishaps \in Nat

Init ==
  /\ status = [r \in Runs |-> "absent"] /\ reason = [r \in Runs |-> ""]
  /\ emitted = [r \in Runs |-> <<>>] /\ held = [r \in Runs |-> {}]
  /\ acked = [r \in Runs |-> 0] /\ endAck = [r \in Runs |-> FALSE]
  /\ receipt = [r \in Runs |-> FALSE] /\ usage = 0
  /\ abandoned = [r \in Runs |-> FALSE]
  /\ started = [r \in Runs |-> FALSE] /\ worker = [r \in Runs |-> "none"]
  /\ at = [r \in Runs |-> "idle"] /\ live = [r \in Runs |-> FALSE]
  /\ rejected = [r \in Runs |-> FALSE] /\ loss = [r \in Runs |-> ""]
  /\ batch = [r \in Runs |-> {}] 
  /\ credential \in Credentials /\ running = TRUE /\ unhealthy = FALSE
  /\ wire = [r \in Runs |-> "idle"] /\ msg = [r \in Runs |-> Ident]
  /\ reply = [r \in Runs |-> [seq |-> 0, status |-> "pending", reason |-> ""]]
  /\ stray = [r \in Runs |-> {}]
  /\ sess = 0 /\ up = FALSE /\ ending = {} /\ binding = [r \in Runs |-> 0]
  /\ dStatus = [r \in Runs |-> "absent"] /\ dReason = [r \in Runs |-> ""]
  /\ dLog = [r \in Runs |-> <<>>] /\ dUsage = 0 /\ mishaps = 0

-----------------------------------------------------------------------------
(* The executor's spool: one transaction each. *)

\* AdmitTx, inside the transaction that stores the accepted run.
Unfinished == {r \in Runs : status[r] # "absent" /\ ~ endAck[r]}
SpoolFull == usage > SpoolBytes - RunCharge \/ Cardinality(Unfinished) >= SpoolRuns

AdmitTx(r) ==
  /\ up /\ binding[r] = sess /\ dStatus[r] = "pending" /\ status[r] = "absent"
  /\ ~ SpoolFull
  /\ status' = [status EXCEPT ![r] = "open"] /\ usage' = usage + RunCharge
  /\ UNCHANGED <<reason, emitted, held, acked, endAck, receipt, abandoned>>
  /\ UNCHANGED <<work, stream, process, session, store, mishaps>>

\* What Append makes of payload d: "" when it is stored.
AppendResult(r, d) ==
  LET n == Len(emitted[r]) IN
  IF d > RunBytes - Bytes(emitted[r], 1 .. n) \/ n >= RunFrames THEN "output_limit"
  ELSE IF usage > SpoolBytes - (d + FrameCharge) THEN "spool_limit" ELSE ""

Stored(r, d) ==
  /\ emitted' = [emitted EXCEPT ![r] = Append(@, d)]
  /\ held' = [held EXCEPT ![r] = @ \cup {Len(emitted[r]) + 1}]
  /\ usage' = usage + d + FrameCharge
  /\ UNCHANGED <<status, reason, acked, endAck, receipt, abandoned>>

\* Finish: the end is the first one recorded; it counts the frames appended.
FinishRun(r, why) ==
  /\ status' = [status EXCEPT ![r] = IF why = "" THEN "complete" ELSE "truncated"]
  /\ reason' = [reason EXCEPT ![r] = why]
  /\ UNCHANGED <<emitted, held, acked, endAck, receipt, usage, abandoned>>

\* Mutant: only one of the two quota reasons is recognized.
quotaReceiptStorageOnly(r) == reply[r].status = "truncated" /\ reply[r].reason = "storage_limit"

quotaReceipt(r) == reply[r].status = "truncated" /\ reply[r].reason \in QuotaReasons

validateQuotaReceipt(r) == acked[r] <= reply[r].seq /\ reply[r].seq <= Len(emitted[r])

Final(rc) == rc.status \in Finished

\* Acknowledge: a receipt past the last frame, or naming another end, is an error.
CanAcknowledge(r, rc) ==
  /\ ~ receipt[r] /\ rc.seq <= Len(emitted[r])
  /\ Final(rc) => /\ rc.seq = Len(emitted[r])
                  /\ rc.status = status[r] /\ rc.reason = reason[r]

\* A receipt older than the last one stands for that one.
Upto(r, rc) == IF rc.seq < acked[r] THEN acked[r] ELSE rc.seq

\* Mutants: one frame too many; the receipt of the last frame taken for the end's.
CoveredOneMore(r, rc) == {i \in held[r] : i <= Upto(r, rc) + 1}
EndsRunEarly(r, rc) == Final(rc) \/ (status[r] \in Finished /\ rc.seq = Len(emitted[r]))

\* The frames a receipt covers, and whether it covers the end.
Covered(r, rc) == {i \in held[r] : i <= Upto(r, rc)}
EndsRun(r, rc) == Final(rc)

\* What a receipt gives back to the node's quota; the admission charge returns once.
Released(r, rc) ==
  Charge(emitted[r], Covered(r, rc)) + (IF EndsRun(r, rc) /\ ~ endAck[r] THEN RunCharge ELSE 0)

Acknowledge(r, rc) ==
  /\ held' = [held EXCEPT ![r] = @ \ Covered(r, rc)]
  /\ acked' = [acked EXCEPT ![r] = Upto(r, rc)]
  /\ endAck' = [endAck EXCEPT ![r] = @ \/ EndsRun(r, rc)]
  /\ usage' = usage - Released(r, rc)
  /\ UNCHANGED <<status, reason, emitted, receipt, abandoned>>

CanTruncate(r, rc) ==
  /\ ~ receipt[r] /\ status[r] \in Finished /\ ~ endAck[r]
  /\ acked[r] <= rc.seq /\ rc.seq <= Len(emitted[r])

\* Mutant: the admission charge is not returned.
ReleaseFramesOnly(r) ==
  /\ held' = [held EXCEPT ![r] = {}] /\ endAck' = [endAck EXCEPT ![r] = TRUE]
  /\ usage' = usage - Charge(emitted[r], held[r])
  /\ UNCHANGED <<status, reason, emitted>>

\* Everything the run still holds leaves the spool with its admission charge.
ReleaseAll(r) ==
  /\ held' = [held EXCEPT ![r] = {}] /\ endAck' = [endAck EXCEPT ![r] = TRUE]
  /\ usage' = usage - Charge(emitted[r], held[r]) - RunCharge
  /\ UNCHANGED <<status, reason, emitted>>

AcceptTruncation(r, rc) ==
  /\ ReleaseAll(r)
  /\ receipt' = [receipt EXCEPT ![r] = TRUE] /\ acked' = [acked EXCEPT ![r] = rc.seq]
  /\ UNCHANGED abandoned

Abandon(r) ==
  /\ ReleaseAll(r)
  /\ abandoned' = [abandoned EXCEPT ![r] = TRUE] /\ UNCHANGED <<receipt, acked>>

\* acknowledgeOutput on the receipt the worker holds; ok is its error being nil.
acknowledgeOutput(r, ok) ==
  LET rc == reply[r] IN
  \/ /\ quotaReceipt(r) /\ CanTruncate(r, rc) /\ AcceptTruncation(r, rc) /\ ok /\ UNCHANGED mishaps
  \/ /\ quotaReceipt(r) /\ ~ CanTruncate(r, rc) /\ ~ ok /\ UNCHANGED <<spool, mishaps>>
  \/ /\ ~ quotaReceipt(r) /\ CanAcknowledge(r, rc) /\ Acknowledge(r, rc) /\ ok /\ UNCHANGED mishaps
  \/ /\ ~ quotaReceipt(r) /\ ~ CanAcknowledge(r, rc) /\ ~ ok /\ UNCHANGED <<spool, mishaps>>
  \/ /\ Mishap /\ ~ ok /\ UNCHANGED spool

-----------------------------------------------------------------------------
(* The dispatcher's store. *)

exceedsOutputLimit(used, added, limit) == used > limit \/ added > limit - used

\* A zero limit is disabled.
exceedsOptionalLimit(used, added, limit) == limit > 0 /\ exceedsOutputLimit(used, added, limit)

\* createOutputMetadata, inside the admission of the run.
CreateOutput(r) ==
  /\ up /\ dStatus[r] = "absent" /\ ~ exceedsOptionalLimit(dUsage, RunCharge, StoreBytes)
  /\ dStatus' = [dStatus EXCEPT ![r] = "pending"] /\ dUsage' = dUsage + RunCharge
  /\ binding' = [binding EXCEPT ![r] = sess]
  /\ UNCHANGED <<dReason, dLog, sess, up, ending>>
  /\ UNCHANGED <<spool, work, stream, process, mishaps>>

\* Output bound to an ended session resumes only over an enrolled credential.
authorizeOutput(r) == dStatus[r] # "absent" /\ (binding[r] = sess \/ Enrolled)

appendReason(r, d) ==
  LET n == Len(dLog[r]) IN
  IF \/ exceedsOutputLimit(Bytes(dLog[r], 1 .. n), d, KeepBytes)
     \/ exceedsOutputLimit(n, 1, KeepFrames) THEN "output_limit"
  ELSE IF exceedsOptionalLimit(dUsage, d + FrameCharge, StoreBytes) THEN "storage_limit" ELSE ""

FinalizeOutput(r, verdict, why) ==
  /\ dStatus' = [dStatus EXCEPT ![r] = verdict] /\ dReason' = [dReason EXCEPT ![r] = why]
  /\ UNCHANGED <<dLog, dUsage>>

\* finishOutput: res is "ok" or the refusal.
finishOutput(r, m, res) ==
  \/ /\ dStatus[r] \in Finished /\ UNCHANGED store
     /\ res = IF m.seq = Len(dLog[r]) /\ m.status = dStatus[r] /\ m.reason = dReason[r]
              THEN "ok" ELSE "refused"
  \/ /\ dStatus[r] = "pending" /\ m.seq # Len(dLog[r]) /\ res = "refused" /\ UNCHANGED store
  \/ /\ dStatus[r] = "pending" /\ m.seq = Len(dLog[r]) /\ res = "ok"
     /\ FinalizeOutput(r, m.status, m.reason)

\* Mutant: a repeated frame is appended again.
continuesOrRepeats(r, m) == m.seq <= Len(dLog[r]) + 1

continues(r, m) == m.seq = Len(dLog[r]) + 1
chargeOutput(bytes) == dUsage' = dUsage + bytes + FrameCharge

\* appendOutput: a repeated frame must repeat its payload, a new one continues
\* the prefix, and one over a limit ends the output where it stands.
appendOutput(r, m, res) ==
  LET n == Len(dLog[r]) IN
  \/ /\ dStatus[r] \in Finished /\ res = "refused" /\ UNCHANGED store
  \/ /\ dStatus[r] = "pending" /\ m.seq <= n /\ UNCHANGED store
     /\ res = IF m.data = dLog[r][m.seq] THEN "ok" ELSE "refused"
  \/ /\ dStatus[r] = "pending" /\ m.seq > n /\ ~ continues(r, m) /\ res = "refused" /\ UNCHANGED store
  \/ /\ dStatus[r] = "pending" /\ continues(r, m) /\ appendReason(r, m.data) # "" /\ res = "ok"
     /\ FinalizeOutput(r, "truncated", appendReason(r, m.data))
  \/ /\ dStatus[r] = "pending" /\ continues(r, m) /\ appendReason(r, m.data) = "" /\ res = "ok"
     /\ dLog' = [dLog EXCEPT ![r] = Append(@, m.data)]
     /\ chargeOutput(m.data) /\ UNCHANGED <<dStatus, dReason>>

\* The disk is short of its reserve: the frame ends the output with storage_limit.
appendLowSpace(r, m) ==
  /\ m.kind = "frame" /\ dStatus[r] = "pending" /\ continues(r, m)
  /\ appendReason(r, m.data) = "" /\ FinalizeOutput(r, "truncated", "storage_limit")

\* storeOutput: one transaction, its answer sent only once it committed.
storeOutput(r, m, res) ==
  \/ ~ authorizeOutput(r) /\ res = "denied" /\ UNCHANGED <<store, mishaps>>
  \/ /\ authorizeOutput(r) /\ UNCHANGED mishaps
     /\ \/ m.kind = "ident" /\ res = "ok" /\ UNCHANGED store
        \/ m.kind = "frame" /\ appendOutput(r, m, res)
        \/ m.kind = "end" /\ finishOutput(r, m, res)
  \/ authorizeOutput(r) /\ Mishap /\ appendLowSpace(r, m) /\ res = "ok"
  \/ authorizeOutput(r) /\ Mishap /\ res = "refused" /\ UNCHANGED store

outputReceipt(r) == [seq |-> Len(dLog[r]), status |-> dStatus[r], reason |-> dReason[r]]

\* OnDebugletStream takes the request on the wire and answers it.
Serve(r) ==
  /\ up /\ wire[r] = "sent"
  /\ \E res \in {"ok", "refused", "denied"} :
       /\ storeOutput(r, msg[r], res)
       /\ wire' = [wire EXCEPT ![r] = res]
       /\ reply' = [reply EXCEPT ![r] = IF res = "ok" THEN outputReceipt(r)' ELSE @]
  /\ UNCHANGED <<msg, stray, spool, work, process, session>>

\* A request whose sender has given up still commits; nobody hears the answer.
ServeStray(r) ==
  \E m \in stray[r] :
    /\ \E res \in {"ok", "refused", "denied"} : storeOutput(r, m, res)
    /\ stray' = [stray EXCEPT ![r] = @ \ {m}]
    /\ UNCHANGED <<wire, msg, reply, spool, work, process, session>>

\* The owner it was sent under is retired before it was admitted.
DropStray(r) ==
  \E m \in stray[r] :
    /\ stray' = [stray EXCEPT ![r] = @ \ {m}]
    /\ UNCHANGED <<wire, msg, reply, spool, work, process, session, store, mishaps>>

\* A refused upload whose run the executor reports absent: empty, and complete.
finishRefusedOutput(r) ==
  /\ up /\ binding[r] = sess /\ status[r] = "absent"
  /\ dStatus[r] = "pending" /\ dLog[r] = <<>>
  /\ FinalizeOutput(r, "complete", "")
  /\ UNCHANGED <<spool, work, stream, process, session, mishaps>>

unresumable(s) == {r \in Runs : binding[r] = s /\ dStatus[r] = "pending" /\ ~ Enrolled}

\* OnExecutorDisconnected: what no later session may continue ends here.
interruptUnresumableOutput(s) ==
  LET cut == unresumable(s) IN
  /\ s \in ending /\ ending' = ending \ {s}
  /\ dStatus' = [r \in Runs |-> IF r \in cut THEN "truncated" ELSE dStatus[r]]
  /\ dReason' = [r \in Runs |-> IF r \in cut THEN "executor_interrupted" ELSE dReason[r]]
  /\ UNCHANGED <<dLog, dUsage, sess, up, binding>>
  /\ UNCHANGED <<spool, work, stream, process, mishaps>>

\* Its statement failed: logged, and not repeated.
interruptFailed(s) ==
  /\ s \in ending /\ ending' = ending \ {s} /\ Mishap
  /\ UNCHANGED <<sess, up, binding, spool, work, stream, process, store>>

-----------------------------------------------------------------------------
(* The executor's workers. *)

Send(r, m) ==
  /\ wire' = [wire EXCEPT ![r] = "sent"] /\ msg' = [msg EXCEPT ![r] = m]
  /\ UNCHANGED <<reply, stray>>

Heard(r) == wire' = [wire EXCEPT ![r] = "idle"] /\ UNCHANGED <<msg, reply, stray>>

\* The worker returns and gives r's delivery back (endOutputDelivery).
Leave(r) ==
  /\ worker' = [worker EXCEPT ![r] = "none"] /\ at' = [at EXCEPT ![r] = "idle"]
  /\ live' = [live EXCEPT ![r] = FALSE] /\ rejected' = [rejected EXCEPT ![r] = FALSE]
  /\ batch' = [batch EXCEPT ![r] = {}] /\ UNCHANGED <<started, loss>>

\* fail(err) cancels the operation, and with it the delivery context.
GoOn(r, where, alive) ==
  /\ at' = [at EXCEPT ![r] = where] /\ live' = [live EXCEPT ![r] = @ /\ alive]
  /\ UNCHANGED <<started, worker, batch>>

Elsewhere == UNCHANGED <<process, session, store>>

\* newDurableOutput: the run starts, its pump claims the delivery and opens the stream.
StartPump(r) ==
  /\ up /\ binding[r] = sess /\ ~ started[r] /\ worker[r] = "none" /\ ~ unhealthy
  /\ status[r] = "open"
  /\ started' = [started EXCEPT ![r] = TRUE]
  /\ worker' = [worker EXCEPT ![r] = "pump"] /\ at' = [at EXCEPT ![r] = "opening"]
  /\ live' = [live EXCEPT ![r] = TRUE] /\ Send(r, Ident)
  /\ UNCHANGED <<rejected, loss, batch, spool, mishaps>> /\ Elsewhere

\* The pump hears the answer to its identity or to a frame.
PumpHears(r) ==
  /\ worker[r] = "pump" /\ at[r] \in {"opening", "sending"} /\ Heard(r) /\ Elsewhere
  /\ UNCHANGED loss
  /\ \/ /\ wire[r] \in {"refused", "denied", "failed"} /\ GoOn(r, "drain", FALSE)
        /\ UNCHANGED <<rejected, spool, mishaps>>
     \/ /\ wire[r] = "ok" /\ quotaReceipt(r) /\ GoOn(r, "drain", FALSE)
        /\ rejected' = [rejected EXCEPT ![r] = validateQuotaReceipt(r)]
        /\ UNCHANGED <<spool, mishaps>>
     \/ /\ wire[r] = "ok" /\ ~ quotaReceipt(r) /\ UNCHANGED rejected
        /\ \E ok \in BOOLEAN : acknowledgeOutput(r, ok) /\ GoOn(r, "drain", ok)

\* process: a chunk of the run's output is appended, and sent while delivery lasts.
Emit(r, d) ==
  /\ worker[r] = "pump" /\ at[r] = "drain" /\ loss[r] = "" /\ AppendResult(r, d) = ""
  /\ Stored(r, d) /\ Elsewhere /\ UNCHANGED <<rejected, loss, mishaps>>
  /\ IF live[r] /\ ~ rejected[r]
     THEN /\ GoOn(r, "sending", TRUE)
          /\ Send(r, Frame(Len(emitted[r]) + 1, d))
     ELSE GoOn(r, "drain", TRUE) /\ UNCHANGED stream

\* The append is refused, or the database fails: the first loss ends the log.
EmitLost(r, d) ==
  /\ worker[r] = "pump" /\ at[r] = "drain" /\ loss[r] = ""
  /\ \/ /\ AppendResult(r, d) # "" /\ loss' = [loss EXCEPT ![r] = AppendResult(r, d)]
        /\ UNCHANGED <<unhealthy, mishaps>>
     \/ /\ AppendResult(r, d) = "" /\ Mishap
        /\ \/ loss' = [loss EXCEPT ![r] = "spool_limit"] /\ UNCHANGED unhealthy
           \/ loss' = [loss EXCEPT ![r] = "producer_failed"] /\ unhealthy' = TRUE
  /\ GoOn(r, "drain", FALSE)
  /\ UNCHANGED <<rejected, credential, running, spool, stream, session, store>>

\* The run is cancelled: delivery stops, what was accepted is still spooled.
Cancel(r) ==
  /\ worker[r] = "pump" /\ live[r] /\ live' = [live EXCEPT ![r] = FALSE]
  /\ UNCHANGED <<started, worker, at, rejected, loss, batch, spool, stream, mishaps>> /\ Elsewhere

\* The producer has joined and its queue is drained: the end is recorded before
\* anything is done about it.
PumpFinish(r, incomplete) ==
  LET why == IF loss[r] # "" THEN loss[r]
             ELSE IF rejected[r] THEN reply[r].reason
             ELSE IF incomplete THEN "producer_failed" ELSE ""
      end == [kind |-> "end", seq |-> Len(emitted[r]), data |-> 0, reason |-> why,
              status |-> IF why = "" THEN "complete" ELSE "truncated"]
  IN
  /\ worker[r] = "pump" /\ at[r] = "drain" /\ FinishRun(r, why)
  /\ Elsewhere /\ UNCHANGED mishaps
  /\ \/ rejected[r] /\ GoOn(r, "settle", TRUE) /\ UNCHANGED <<rejected, loss, stream>>
     \/ ~ rejected[r] /\ live[r] /\ GoOn(r, "ending", TRUE) /\ Send(r, end)
        /\ UNCHANGED <<rejected, loss>>
     \/ ~ rejected[r] /\ ~ live[r] /\ Leave(r) /\ UNCHANGED stream

\* Finish failed: the row stays open and no worker of this process returns to it.
PumpFinishFails(r) ==
  /\ worker[r] = "pump" /\ at[r] = "drain" /\ Mishap /\ Leave(r) /\ unhealthy' = TRUE
  /\ UNCHANGED <<credential, running, spool, stream, session, store>>

\* The quota receipt is accepted only now, after the end of a joined producer.
PumpSettle(r) ==
  /\ worker[r] = "pump" /\ at[r] = "settle"
  /\ \E ok \in BOOLEAN : acknowledgeOutput(r, ok)
  /\ Leave(r) /\ UNCHANGED stream /\ Elsewhere

PumpEnds(r) ==
  /\ worker[r] = "pump" /\ at[r] = "ending" /\ Heard(r) /\ Leave(r) /\ Elsewhere
  /\ \/ wire[r] = "ok" /\ \E ok \in BOOLEAN : acknowledgeOutput(r, ok)
     \/ wire[r] \in {"refused", "denied", "failed"} /\ UNCHANGED <<spool, mishaps>>

\* One entry of a reconcileOutputLoop pass: a finished, unacknowledged run that
\* no pump holds.
RetryStart(r) ==
  /\ up /\ worker[r] = "none" /\ status[r] \in Finished /\ ~ endAck[r] /\ Elsewhere
  /\ UNCHANGED mishaps
  /\ IF Plaintext /\ binding[r] # sess
     THEN Abandon(r) /\ UNCHANGED <<work, stream>>
     ELSE /\ worker' = [worker EXCEPT ![r] = "retry"] /\ at' = [at EXCEPT ![r] = "opening"]
          /\ Send(r, Ident) /\ UNCHANGED <<started, live, rejected, loss, batch, spool>>

\* The next request of a pass: a frame of its batch, the end once every frame
\* is committed, or nothing more.
RetryNext(r, todo) ==
  LET end == [kind |-> "end", seq |-> Len(emitted[r]), data |-> 0,
              status |-> status[r], reason |-> reason[r]]
  IN
  \/ /\ todo # {} /\ Send(r, Frame(Min(todo), emitted[r][Min(todo)]))
     /\ batch' = [batch EXCEPT ![r] = todo \ {Min(todo)}]
     /\ at' = [at EXCEPT ![r] = "sending"] /\ UNCHANGED <<started, worker, live, rejected, loss>>
  \/ /\ todo = {} /\ reply[r].seq = Len(emitted[r]) /\ Send(r, end)
     /\ at' = [at EXCEPT ![r] = "ending"]
     /\ UNCHANGED <<started, worker, live, rejected, loss, batch>>
  \/ todo = {} /\ reply[r].seq # Len(emitted[r]) /\ Heard(r) /\ Leave(r)

\* The frames the pass will send, read once after the identity is acknowledged.
Frames(r) == {i \in held[r] : reply[r].seq < i /\ i <= reply[r].seq + PassFrames}

RetryHears(r) ==
  /\ worker[r] = "retry" /\ at[r] \in {"opening", "sending"} /\ wire[r] = "ok" /\ Elsewhere
  /\ \E ok \in BOOLEAN :
       /\ acknowledgeOutput(r, ok)
       /\ IF ok /\ ~ Final(reply[r])
          THEN RetryNext(r, IF at[r] = "opening" THEN Frames(r) ELSE batch[r])
          ELSE Heard(r) /\ Leave(r)

RetryEnds(r) ==
  /\ worker[r] = "retry" /\ at[r] = "ending" /\ wire[r] = "ok"
  /\ \E ok \in BOOLEAN : acknowledgeOutput(r, ok)
  /\ Heard(r) /\ Leave(r) /\ Elsewhere

\* A pass that cannot go on.  Only PermissionDenied on the identity of another
\* session's output makes it give the output up.
RetryStops(r) ==
  /\ worker[r] = "retry" /\ wire[r] \in {"refused", "denied", "failed"}
  /\ IF wire[r] = "denied" /\ at[r] = "opening" /\ binding[r] # sess
     THEN Abandon(r) ELSE UNCHANGED spool
  /\ Heard(r) /\ Leave(r) /\ Elsewhere /\ UNCHANGED mishaps

\* The exchange ends without an answer; a request on its way becomes a stray.
CutOff(r) ==
  /\ wire' = [wire EXCEPT ![r] = "failed"]
  /\ stray' = [stray EXCEPT ![r] = IF wire[r] = "sent" THEN @ \cup {msg[r]} ELSE @]
  /\ UNCHANGED <<msg, reply, spool, work>> /\ Elsewhere

\* outputCallTimeout or the transport ends it while the session lasts ...
LoseExchange(r) ==
  /\ wire[r] \in {"sent", "ok", "refused", "denied"} /\ Mishap /\ CutOff(r)

\* ... or the session or the run's context has ended.
ContextDone(r) ==
  /\ wire[r] \notin {"idle", "failed"} /\ (~ up \/ (worker[r] = "pump" /\ ~ live[r]))
  /\ UNCHANGED mishaps /\ CutOff(r)

-----------------------------------------------------------------------------
(* Sessions and crashes. *)

\* A registration waits until its predecessor's mutations have drained, and the
\* executor opens no session before the last one's workers have joined.
NewSession ==
  /\ running /\ ~ up /\ sess < MaxSessions
  /\ \A r \in Runs : worker[r] = "none" /\ stray[r] = {}
  /\ sess' = sess + 1 /\ up' = TRUE
  /\ UNCHANGED <<ending, binding, spool, work, stream, process, store, mishaps>>

\* The transport closes; the executor cancels the session's runs.
SessionLost ==
  /\ up /\ Mishap /\ up' = FALSE /\ ending' = ending \cup {sess}
  /\ live' = [r \in Runs |-> FALSE]
  /\ UNCHANGED <<started, worker, at, rejected, loss, batch>>
  /\ UNCHANGED <<sess, binding, spool, stream, process, store>>

\* The dispatcher dies: no disconnect callback runs for the session it held.
DispatcherCrash ==
  /\ Mishap /\ up' = FALSE /\ ending' = {} /\ live' = [r \in Runs |-> FALSE]
  /\ wire' = [r \in Runs |-> IF wire[r] = "idle" THEN "idle" ELSE "failed"]
  /\ stray' = [r \in Runs |-> {}]
  /\ UNCHANGED <<started, worker, at, rejected, loss, batch, msg, reply>>
  /\ UNCHANGED <<sess, binding, spool, process, store>>

ExecutorCrash ==
  /\ running /\ Mishap /\ running' = FALSE /\ up' = FALSE
  /\ ending' = IF up THEN ending \cup {sess} ELSE ending
  /\ worker' = [r \in Runs |-> "none"] /\ at' = [r \in Runs |-> "idle"]
  /\ live' = [r \in Runs |-> FALSE] /\ rejected' = [r \in Runs |-> FALSE]
  /\ loss' = [r \in Runs |-> ""] /\ batch' = [r \in Runs |-> {}]
  /\ wire' = [r \in Runs |-> "idle"]
  /\ stray' = [r \in Runs |-> IF wire[r] = "sent" THEN stray[r] \cup {msg[r]} ELSE stray[r]]
  /\ UNCHANGED <<started, msg, reply, credential, unhealthy, sess, binding, spool, store>>

\* NewNode: InterruptOpen closes what the dead process left open.
StartNode ==
  LET open == {r \in Runs : status[r] = "open"} IN
  /\ ~ running /\ running' = TRUE /\ unhealthy' = FALSE /\ UNCHANGED credential
  /\ status' = [r \in Runs |-> IF r \in open THEN "truncated" ELSE status[r]]
  /\ reason' = [r \in Runs |-> IF r \in open THEN "executor_interrupted" ELSE reason[r]]
  /\ UNCHANGED <<emitted, held, acked, endAck, receipt, usage, abandoned>>
  /\ UNCHANGED <<work, stream, session, store, mishaps>>

Control ==
  \/ NewSession \/ SessionLost \/ DispatcherCrash \/ ExecutorCrash \/ StartNode
  \/ \E s \in 1 .. MaxSessions : interruptUnresumableOutput(s) \/ interruptFailed(s)

Pump(r) ==
  \/ StartPump(r) \/ PumpHears(r) \/ Cancel(r) \/ PumpFinishFails(r) \/ PumpSettle(r)
  \/ PumpEnds(r)
  \/ \E d \in Data : Emit(r, d) \/ EmitLost(r, d)
  \/ \E incomplete \in BOOLEAN : PumpFinish(r, incomplete)

Retry(r) == RetryStart(r) \/ RetryHears(r) \/ RetryEnds(r) \/ RetryStops(r)

Stream(r) ==
  \/ Serve(r) \/ ServeStray(r) \/ DropStray(r) \/ LoseExchange(r) \/ ContextDone(r)

Next ==
  \/ Control
  \/ \E r \in Runs :
       CreateOutput(r) \/ AdmitTx(r) \/ finishRefusedOutput(r) \/ Pump(r) \/ Retry(r) \/ Stream(r)

Spec == Init /\ [][Next]_vars

\* Goroutines and handlers that can step do, every exchange ends within its
\* timeout, a run ends within its policy's timeout, a dead executor is restarted
\* and reconnects, and a disconnect callback runs.
Fairness ==
  /\ WF_vars(NewSession) /\ WF_vars(StartNode)
  /\ \A s \in 1 .. MaxSessions :
       WF_vars(interruptUnresumableOutput(s) \/ interruptFailed(s))
  /\ \A r \in Runs :
       /\ WF_vars(PumpHears(r)) /\ WF_vars(\E b \in BOOLEAN : PumpFinish(r, b))
       /\ WF_vars(PumpSettle(r)) /\ WF_vars(PumpEnds(r))
       /\ WF_vars(RetryStart(r)) /\ WF_vars(RetryHears(r) \/ RetryEnds(r) \/ RetryStops(r))
       /\ WF_vars(Serve(r)) /\ WF_vars(ServeStray(r) \/ DropStray(r)) /\ WF_vars(ContextDone(r))

FairSpec == Spec /\ Fairness

-----------------------------------------------------------------------------
(* What the output path must guarantee. *)

Last(r) == Len(emitted[r])

\* No frame is lost: until the dispatcher has ended the output over a quota, or
\* an executor without an enrolled certificate has given it up, every frame
\* appended is still in the spool or committed by the dispatcher, whatever
\* acknowledgements were lost, repeated or late (Acknowledge, AcceptTruncation,
\* Abandon, storeOutput).
UncommittedIsHeld ==
  \A r \in Runs :
    \/ receipt[r] \/ (abandoned[r] /\ ~ Enrolled)
    \/ \A i \in 1 .. Last(r) : i \in held[r] \/ i <= Len(dLog[r])

\* The two databases agree on how the output ended: an end acknowledged in the
\* spool is the dispatcher's end with every frame committed, and an accepted
\* truncation is the dispatcher's, at its committed prefix (Acknowledge,
\* AcceptTruncation, finishOutput).
EndsAgree ==
  \A r \in Runs :
    /\ endAck[r] /\ ~ receipt[r] /\ ~ abandoned[r] =>
         dLog[r] = emitted[r] /\ dStatus[r] = status[r] /\ dReason[r] = reason[r]
    /\ receipt[r] =>
         dStatus[r] = "truncated" /\ dReason[r] \in QuotaReasons /\ acked[r] = Len(dLog[r])

\* A finished output is never wedged: while this executor may still deliver it,
\* the receipt an already final dispatcher row answers with is one the spool
\* takes, so no retry repeats the same refusal for ever (storeOutput,
\* acknowledgeOutput, interruptUnresumableOutput, InterruptOpen).
ReceiptIsAcceptable ==
  \A r \in Runs :
    /\ status[r] \in Finished /\ ~ endAck[r] /\ dStatus[r] \in Finished
    /\ Enrolled \/ (up /\ binding[r] = sess)
    => IF dStatus[r] = "truncated" /\ dReason[r] \in QuotaReasons
       THEN CanTruncate(r, outputReceipt(r)) ELSE CanAcknowledge(r, outputReceipt(r))

\* What a run occupies in the spool and in the store: its admission, until its end
\* is acknowledged and for ever, and its frames.
Spooled ==
  [r \in Runs |-> (IF r \in Unfinished THEN RunCharge ELSE 0) + Charge(emitted[r], held[r])]
Kept ==
  [r \in Runs |-> (IF dStatus[r] # "absent" THEN RunCharge ELSE 0)
                  + Charge(dLog[r], 1 .. Len(dLog[r]))]

\* The executor's usage counter is what its runs occupy, never above the node's
\* limit, through partial acknowledgements, truncations and restarts (AdmitTx,
\* Append, Acknowledge, AcceptTruncation, Abandon).
SpoolChargeIsExact ==
  usage = MapThenSumSet(LAMBDA r : Spooled[r], Runs) /\ usage <= SpoolBytes

\* The dispatcher charges each admitted run and each distinct frame once, however
\* often it is sent, and stays within its limit (createOutputMetadata,
\* appendOutput, chargeOutput).
StoreChargeIsExact ==
  /\ dUsage = MapThenSumSet(LAMBDA r : Kept[r], Runs)
  /\ StoreBytes > 0 => dUsage <= StoreBytes

\* Readers see a growing prefix of what the run wrote, a final output never
\* changes, and it is complete only when everything is there (storeOutput,
\* appendOutput, finishOutput, finishRefusedOutput, interruptUnresumableOutput).
writing == [r \in Runs |-> status[r] = "open" \/ (status[r] = "absent" /\ dStatus[r] # "complete")]
verdict == [r \in Runs |-> CASE dStatus[r] = "absent" -> "none"
                              [] dStatus[r] = "pending" -> "open"
                              [] OTHER -> dStatus[r]]

Log == INSTANCE OutputLog WITH written <- emitted, shown <- dLog

ImplementsLog == Log!LogSpec

\* Every finished output is settled: the retry loop gets its end acknowledged,
\* truncated or, without an enrolled certificate, abandoned, through any bounded
\* number of lost exchanges, storage faults, crashes and reconnects
\* (reconcileOutputLoop, deliverOutput).
FinishedIsSettled == \A r \in Runs : status[r] \in Finished ~> endAck[r]

\* What a run wrote is never lost to both sides, and what the dispatcher answers
\* about it is something the spool can act on (Append, storeOutput, Acknowledge).
NothingIsLost == TypeOK /\ UncommittedIsHeld /\ ReceiptIsAcceptable

\* Both sides' usage counters are exact and within their limits.
ChargesAreExact == SpoolChargeIsExact /\ StoreChargeIsExact

=============================================================================
