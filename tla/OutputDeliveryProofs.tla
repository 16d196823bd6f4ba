------------------------ MODULE OutputDeliveryProofs ------------------------
(***************************************************************************)
(* No frame of a run's output is lost, both databases agree on how it      *)
(* ended, and a reader sees what OutputLog promises, for any number of     *)
(* runs, frames, sessions and failures and every setting of the limits.    *)
(* Both usage counters are exact.  FinishedIsSettled is about liveness and *)
(* stays with TLC.                                                         *)
(***************************************************************************)
EXTENDS OutputDelivery, FiniteSums, TLAPS, WellFoundedInduction

-----------------------------------------------------------------------------
(* Types, in parts. *)
SpoolTypes ==
  /\ status \in [Runs -> {"absent", "open", "complete", "truncated"}]
  /\ reason \in [Runs -> Reasons] /\ emitted \in [Runs -> Seq(Data)]
  /\ held \in [Runs -> SUBSET Nat] /\ acked \in [Runs -> Nat]
  /\ endAck \in [Runs -> BOOLEAN] /\ receipt \in [Runs -> BOOLEAN]
  /\ abandoned \in [Runs -> BOOLEAN]
WorkTypes ==
  /\ started \in [Runs -> BOOLEAN] /\ worker \in [Runs -> {"none", "pump", "retry"}]
  /\ at \in [Runs -> {"idle", "opening", "drain", "sending", "settle", "ending"}]
  /\ live \in [Runs -> BOOLEAN] /\ rejected \in [Runs -> BOOLEAN]
  /\ loss \in [Runs -> Reasons] /\ batch \in [Runs -> SUBSET Nat]
StreamTypes ==
  /\ wire \in [Runs -> {"idle", "sent", "ok", "refused", "denied", "failed"}]
  /\ msg \in [Runs -> Message] /\ reply \in [Runs -> Receipt]
  /\ stray \in [Runs -> SUBSET Message]
WorldTypes ==
  /\ credential \in Credentials /\ running \in BOOLEAN /\ unhealthy \in BOOLEAN
  /\ sess \in Nat /\ up \in BOOLEAN /\ ending \subseteq Nat /\ binding \in [Runs -> Nat]
  /\ mishaps \in Nat
StoreTypes ==
  /\ dStatus \in [Runs -> {"absent", "pending", "complete", "truncated"}]
  /\ dReason \in [Runs -> Reasons] /\ dLog \in [Runs -> Seq(Data)]
TypeParts == SpoolTypes /\ WorkTypes /\ StreamTypes /\ WorldTypes /\ StoreTypes

-----------------------------------------------------------------------------
(* The two logs: what is committed is what was written first, what is       *)
(* acknowledged is committed, and the rest is held.                         *)
HeldInv == \A r \in Runs : held[r] = IF endAck[r] THEN {} ELSE (acked[r] + 1) .. Last(r)
PrefixInv ==
  \A r \in Runs :
    /\ Len(dLog[r]) <= Last(r)
    /\ \A i \in 1 .. Len(dLog[r]) : dLog[r][i] = emitted[r][i]
AckedInv == \A r \in Runs : acked[r] <= Len(dLog[r])

(* Nothing is known of a run before it is admitted, on either side. *)
AbsentInv ==
  \A r \in Runs :
    /\ status[r] = "absent" => emitted[r] = <<>>
    /\ dStatus[r] = "absent" => status[r] = "absent"

(* Only a finished output is let go, and an enrolled executor gives none up. *)
LetGoInv ==
  \A r \in Runs :
    /\ endAck[r] => status[r] \in Finished
    /\ receipt[r] => endAck[r]
    /\ abandoned[r] => endAck[r] /\ ~ Enrolled

(* A pump writes an open output and sends the end of a finished one; a retry *)
(* pass works on a finished one, and on frames that exist.                   *)
WorkInv ==
  /\ up => running
  /\ \A r \in Runs :
       /\ worker[r] = "none" => wire[r] = "idle"
       /\ worker[r] # "none" => running /\ ~ endAck[r]
       /\ worker[r] = "pump" =>
            /\ \/ at[r] \in {"opening", "drain", "sending"} /\ status[r] = "open"
               \/ at[r] \in {"settle", "ending"} /\ status[r] \in Finished
            /\ at[r] \in {"drain", "settle"} => wire[r] = "idle"
       /\ worker[r] = "retry" => status[r] \in Finished
BatchInv == \A r \in Runs : batch[r] \subseteq 1 .. Last(r)

(* What is on its way is true: a frame is the one written under its number,  *)
(* an end is the recorded one.                                               *)
Right(r, m) ==
  /\ m.kind = "frame" => m.seq \in 1 .. Last(r) /\ m.data = emitted[r][m.seq]
  /\ m.kind = "end" => /\ status[r] \in Finished
                       /\ m.seq = Last(r) /\ m.status = status[r] /\ m.reason = reason[r]
MsgInv ==
  \A r \in Runs :
    /\ wire[r] = "sent" => Right(r, msg[r])
    /\ \A m \in stray[r] : Right(r, m)

(* So is what was answered, and it stays so: the store only grows, and its   *)
(* end does not change.                                                      *)
ReplyInv ==
  \A r \in Runs :
    /\ reply[r].seq <= Len(dLog[r])
    /\ Final(reply[r]) =>
         reply[r].seq = Len(dLog[r]) /\ reply[r].status = dStatus[r] /\ reply[r].reason = dReason[r]
DeniedInv == \A r \in Runs : wire[r] = "denied" => ~ Enrolled

(* Sessions are numbered, and the one that is up has not ended. *)
SessInv ==
  /\ \A r \in Runs : binding[r] <= sess
  /\ \A s \in ending : s <= sess
  /\ up => sess \notin ending

(* Why the dispatcher's output is final: over a quota; by the executor's own *)
(* end; because the run was never accepted; or because no session that may   *)
(* continue it is left.                                                      *)
FinalInv ==
  \A r \in Runs :
    dStatus[r] \in Finished =>
      \/ dStatus[r] = "truncated" /\ dReason[r] \in QuotaReasons
      \/ /\ status[r] \in Finished /\ Len(dLog[r]) = Last(r)
         /\ dStatus[r] = status[r] /\ dReason[r] = reason[r]
      \/ status[r] = "absent"
      \/ ~ Enrolled /\ (up => binding[r] # sess)

IInv ==
  /\ TypeParts
  /\ HeldInv /\ PrefixInv /\ AckedInv /\ AbsentInv /\ LetGoInv /\ WorkInv /\ BatchInv
  /\ MsgInv /\ ReplyInv /\ DeniedInv /\ SessInv /\ FinalInv /\ EndsAgree

-----------------------------------------------------------------------------
(* A step that leaves the variables of a conjunct alone keeps it.  *)

\* SpoolTypes rests on these variables alone.
LEMMA SpoolTypesUnchanged ==
  ASSUME SpoolTypes, UNCHANGED <<status, reason, emitted, held, acked, endAck, receipt, abandoned>>
  PROVE  SpoolTypes'
  BY DEF SpoolTypes

\* WorkTypes rests on these variables alone.
LEMMA WorkTypesUnchanged ==
  ASSUME WorkTypes, UNCHANGED <<started, worker, at, live, rejected, loss, batch>>
  PROVE  WorkTypes'
  BY DEF WorkTypes

\* StreamTypes rests on these variables alone.
LEMMA StreamTypesUnchanged ==
  ASSUME StreamTypes, UNCHANGED <<wire, msg, reply, stray>>
  PROVE  StreamTypes'
  BY DEF StreamTypes

\* WorldTypes rests on these variables alone.
LEMMA WorldTypesUnchanged ==
  ASSUME WorldTypes, UNCHANGED <<credential, running, unhealthy, sess, up, ending, binding, mishaps>>
  PROVE  WorldTypes'
  BY DEF WorldTypes

\* StoreTypes rests on these variables alone.
LEMMA StoreTypesUnchanged ==
  ASSUME StoreTypes, UNCHANGED <<dStatus, dReason, dLog>>
  PROVE  StoreTypes'
  BY DEF StoreTypes

\* HeldInv rests on these variables alone.
LEMMA HeldInvUnchanged ==
  ASSUME HeldInv, UNCHANGED <<held, endAck, acked, emitted>>
  PROVE  HeldInv'
  BY DEF HeldInv, Last

\* PrefixInv rests on these variables alone.
LEMMA PrefixInvUnchanged ==
  ASSUME PrefixInv, UNCHANGED <<dLog, emitted>>
  PROVE  PrefixInv'
  BY DEF PrefixInv, Last

\* AckedInv rests on these variables alone.
LEMMA AckedInvUnchanged ==
  ASSUME AckedInv, UNCHANGED <<acked, dLog>>
  PROVE  AckedInv'
  BY DEF AckedInv

\* AbsentInv rests on these variables alone.
LEMMA AbsentInvUnchanged ==
  ASSUME AbsentInv, UNCHANGED <<status, emitted, dStatus>>
  PROVE  AbsentInv'
  BY DEF AbsentInv

\* LetGoInv rests on these variables alone.
LEMMA LetGoInvUnchanged ==
  ASSUME LetGoInv, UNCHANGED <<endAck, status, receipt, abandoned, credential>>
  PROVE  LetGoInv'
  BY DEF LetGoInv, Enrolled, Finished

\* WorkInv rests on these variables alone.
LEMMA WorkInvUnchanged ==
  ASSUME WorkInv, UNCHANGED <<worker, wire, running, endAck, at, status, up>>
  PROVE  WorkInv'
  BY DEF WorkInv, Finished

\* BatchInv rests on these variables alone.
LEMMA BatchInvUnchanged ==
  ASSUME BatchInv, UNCHANGED <<batch, emitted>>
  PROVE  BatchInv'
  BY DEF BatchInv, Last

\* MsgInv rests on these variables alone.
LEMMA MsgInvUnchanged ==
  ASSUME MsgInv, UNCHANGED <<wire, msg, stray, emitted, status, reason>>
  PROVE  MsgInv'
  BY DEF MsgInv, Right, Last, Finished

\* ReplyInv rests on these variables alone.
LEMMA ReplyInvUnchanged ==
  ASSUME ReplyInv, UNCHANGED <<reply, dLog, dStatus, dReason>>
  PROVE  ReplyInv'
  BY DEF ReplyInv, Final, Finished

\* DeniedInv rests on these variables alone.
LEMMA DeniedInvUnchanged ==
  ASSUME DeniedInv, UNCHANGED <<wire, credential>>
  PROVE  DeniedInv'
  BY DEF DeniedInv, Enrolled

\* SessInv rests on these variables alone.
LEMMA SessInvUnchanged ==
  ASSUME SessInv, UNCHANGED <<binding, sess, ending, up>>
  PROVE  SessInv'
  BY DEF SessInv

\* FinalInv rests on these variables alone.
LEMMA FinalInvUnchanged ==
  ASSUME FinalInv, UNCHANGED <<dStatus, dReason, status, dLog, emitted, reason, credential, up, binding,
                      sess>>
  PROVE  FinalInv'
  BY DEF FinalInv, Enrolled, Last, Finished

\* EndsAgree rests on these variables alone.
LEMMA EndsAgreeUnchanged ==
  ASSUME EndsAgree, UNCHANGED <<endAck, receipt, abandoned, dLog, emitted, dStatus, status, dReason, reason,
                      acked>>
  PROVE  EndsAgree'
  BY DEF EndsAgree

-----------------------------------------------------------------------------
(* Steps shared by several actions. *)

\* A nonempty set of numbers has a least element, and Min returns it.
LEMMA MinIsMember ==
  ASSUME NEW S, S \subseteq Nat, S # {}
  PROVE  Min(S) \in S
  <1>1. PICK x \in S : \A y \in S : ~ (<<y, x>> \in OpToRel(<, Nat))
    BY NatLessThanWellFounded, WFMin
  <1>2. \A y \in S : ~ (y < x)
    BY <1>1 DEF OpToRel
  <1>3. \A y \in S : x <= y
    BY <1>2
  <1> QED
    BY <1>3 DEF Min

\* Two sequences of the same length with the same elements are the same.
LEMMA SameSequence ==
  ASSUME NEW S, NEW s \in Seq(S), NEW t \in Seq(S), Len(s) = Len(t),
         \A i \in 1 .. Len(s) : s[i] = t[i]
  PROVE  s = t
  OBVIOUS

\* What a request may do to the dispatcher's records of r: nothing; append the
\* next frame the run wrote; or end the output, over a quota or as the run ended.
StoreEffect(r) ==
  \/ UNCHANGED <<dStatus, dReason, dLog>>
  \/ /\ dStatus[r] = "pending" /\ Len(dLog[r]) < Last(r)
     /\ dLog' = [dLog EXCEPT ![r] = Append(dLog[r], emitted[r][Len(dLog[r]) + 1])]
     /\ UNCHANGED <<dStatus, dReason>>
  \/ \E v \in Finished, w \in Reasons :
       /\ dStatus[r] = "pending" /\ UNCHANGED dLog
       /\ dStatus' = [dStatus EXCEPT ![r] = v] /\ dReason' = [dReason EXCEPT ![r] = w]
       /\ \/ v = "truncated" /\ w \in QuotaReasons
          \/ /\ status[r] \in Finished /\ Len(dLog[r]) = Last(r)
             /\ v = status[r] /\ w = reason[r]

\* A request that is true does one of these (storeOutput).
LEMMA StoreHasEffect ==
  ASSUME IInv, NEW r \in Runs, NEW m \in Message, Right(r, m), NEW res, storeOutput(r, m, res)
  PROVE  StoreEffect(r)
  <1>1. /\ dLog \in [Runs -> Seq(Data)] /\ emitted \in [Runs -> Seq(Data)]
        /\ reason \in [Runs -> Reasons]
        /\ dStatus \in [Runs -> {"absent", "pending", "complete", "truncated"}]
    BY DEF IInv, TypeParts, StoreTypes, SpoolTypes
  <1>2. Len(dLog[r]) \in Nat /\ Last(r) \in Nat /\ m.seq \in Nat
    BY <1>1 DEF Last, Message
  <1>3. CASE UNCHANGED store
    BY <1>3 DEF store, StoreEffect
  <1>4. CASE m.kind = "frame" /\ appendOutput(r, m, res)
    <2>1. m.seq \in 1 .. Last(r) /\ m.data = emitted[r][m.seq]
      BY <1>4 DEF Right
    <2>2. CASE /\ dStatus[r] = "pending" /\ continues(r, m) /\ appendReason(r, m.data) # ""
               /\ FinalizeOutput(r, "truncated", appendReason(r, m.data))
      <3>1. appendReason(r, m.data) \in QuotaReasons
        BY <2>2 DEF appendReason, QuotaReasons
      <3> QED
        BY <2>2, <3>1 DEF FinalizeOutput, StoreEffect, Finished, Reasons
    <2>3. CASE /\ dStatus[r] = "pending" /\ continues(r, m)
               /\ dLog' = [dLog EXCEPT ![r] = Append(@, m.data)] /\ UNCHANGED <<dStatus, dReason>>
      <3>1. m.seq = Len(dLog[r]) + 1 /\ Len(dLog[r]) < Last(r)
        BY <1>2, <2>1, <2>3 DEF continues
      <3>2. dLog' = [dLog EXCEPT ![r] = Append(dLog[r], emitted[r][Len(dLog[r]) + 1])]
        BY <2>1, <2>3, <3>1
      <3> QED
        BY <2>3, <3>1, <3>2 DEF StoreEffect
    <2> QED
      BY <1>3, <1>4, <2>2, <2>3 DEF appendOutput
  <1>5. CASE m.kind = "end" /\ finishOutput(r, m, res)
    <2>1. status[r] \in Finished /\ m.seq = Last(r) /\ m.status = status[r] /\ m.reason = reason[r]
      BY <1>5 DEF Right
    <2>2. CASE /\ dStatus[r] = "pending" /\ m.seq = Len(dLog[r])
               /\ FinalizeOutput(r, m.status, m.reason)
      BY <1>1, <2>1, <2>2 DEF FinalizeOutput, StoreEffect
    <2> QED
      BY <1>3, <1>5, <2>2 DEF finishOutput
  <1>6. CASE appendLowSpace(r, m)
    BY <1>6 DEF appendLowSpace, FinalizeOutput, StoreEffect, QuotaReasons, Finished, Reasons
  <1> QED
    BY <1>3, <1>4, <1>5, <1>6 DEF storeOutput

\* What such a request keeps, whatever else its step does.
LEMMA StoreKeeps ==
  ASSUME IInv, NEW r \in Runs, StoreEffect(r), UNCHANGED <<status, reason, emitted, acked>>,
         UNCHANGED <<endAck, receipt, abandoned, credential, sess, up, binding>>
  PROVE  /\ StoreTypes' /\ PrefixInv' /\ AckedInv' /\ AbsentInv' /\ FinalInv' /\ EndsAgree'
         /\ \A s \in Runs : /\ Len(dLog'[s]) \in Nat /\ Len(dLog[s]) <= Len(dLog'[s])
                            /\ dStatus[s] \in Finished => /\ Len(dLog'[s]) = Len(dLog[s])
                                                          /\ dStatus'[s] = dStatus[s]
                                                          /\ dReason'[s] = dReason[s]
  <1> USE DEF IInv, TypeParts
  <1>1. /\ dLog \in [Runs -> Seq(Data)] /\ emitted \in [Runs -> Seq(Data)]
        /\ dStatus \in [Runs -> {"absent", "pending", "complete", "truncated"}]
        /\ dReason \in [Runs -> Reasons] /\ acked \in [Runs -> Nat]
    BY DEF StoreTypes, SpoolTypes
  <1>2. \A s \in Runs : Len(dLog[s]) \in Nat /\ Last(s) \in Nat
    BY <1>1 DEF Last
  <1>3. CASE UNCHANGED <<dStatus, dReason, dLog>>
    BY <1>2, <1>3, StoreTypesUnchanged, PrefixInvUnchanged, AckedInvUnchanged, AbsentInvUnchanged,
       FinalInvUnchanged, EndsAgreeUnchanged
  <1>4. CASE /\ dStatus[r] = "pending" /\ Len(dLog[r]) < Last(r)
             /\ dLog' = [dLog EXCEPT ![r] = Append(dLog[r], emitted[r][Len(dLog[r]) + 1])]
             /\ UNCHANGED <<dStatus, dReason>>
    <2>1. emitted[r][Len(dLog[r]) + 1] \in Data
      BY <1>1, <1>2, <1>4 DEF Last
    <2>2. /\ dLog' \in [Runs -> Seq(Data)] /\ Len(dLog'[r]) = Len(dLog[r]) + 1
          /\ \A i \in 1 .. Len(dLog[r]) : dLog'[r][i] = dLog[r][i]
          /\ dLog'[r][Len(dLog[r]) + 1] = emitted[r][Len(dLog[r]) + 1]
          /\ \A s \in Runs : s # r => dLog'[s] = dLog[s]
      BY <1>1, <1>4, <2>1
    <2>3. StoreTypes' /\ AckedInv'
      BY <1>1, <1>2, <1>4, <2>2 DEF StoreTypes, AckedInv
    <2>4. PrefixInv'
      <3> SUFFICES ASSUME NEW s \in Runs
                   PROVE  /\ Len(dLog'[s]) <= Last(s)
                          /\ \A i \in 1 .. Len(dLog'[s]) : dLog'[s][i] = emitted[s][i]
        BY DEF PrefixInv, Last
      <3>1. CASE s = r
        BY <1>1, <1>2, <1>4, <2>2, <3>1 DEF PrefixInv
      <3>2. CASE s # r
        BY <2>2, <3>2 DEF PrefixInv
      <3> QED
        BY <3>1, <3>2
    <2>5. AbsentInv'
      BY <1>4 DEF AbsentInv
    <2>6. FinalInv'
      BY <1>4, <2>2 DEF FinalInv, Finished, Last, Enrolled
    <2>7. EndsAgree'
      <3>1. dStatus[r] \notin Finished /\ (endAck[r] => receipt[r] \/ abandoned[r])
        BY <1>4 DEF Finished, EndsAgree, LetGoInv
      <3> QED
        BY <1>4, <2>2, <3>1 DEF EndsAgree
    <2> QED
      BY <1>1, <1>2, <1>4, <2>2, <2>3, <2>4, <2>5, <2>6, <2>7 DEF Finished
  <1>5. ASSUME NEW v \in Finished, NEW w \in Reasons, dStatus[r] = "pending", UNCHANGED dLog,
               dStatus' = [dStatus EXCEPT ![r] = v], dReason' = [dReason EXCEPT ![r] = w],
               \/ v = "truncated" /\ w \in QuotaReasons
               \/ /\ status[r] \in Finished /\ Len(dLog[r]) = Last(r)
                  /\ v = status[r] /\ w = reason[r]
        PROVE  /\ StoreTypes' /\ PrefixInv' /\ AckedInv' /\ AbsentInv' /\ FinalInv' /\ EndsAgree'
               /\ \A s \in Runs : /\ Len(dLog'[s]) \in Nat /\ Len(dLog[s]) <= Len(dLog'[s])
                                  /\ dStatus[s] \in Finished => /\ Len(dLog'[s]) = Len(dLog[s])
                                                                /\ dStatus'[s] = dStatus[s]
                                                                /\ dReason'[s] = dReason[s]
    <2>1. StoreTypes'
      BY <1>1, <1>5 DEF StoreTypes, Finished
    <2>2. AbsentInv'
      BY <1>1, <1>5 DEF AbsentInv, Finished
    <2>3. FinalInv'
      BY <1>1, <1>5 DEF FinalInv, Finished, Last, Enrolled
    <2>4. EndsAgree'
      <3>1. endAck[r] => receipt[r] \/ abandoned[r]
        BY <1>5 DEF Finished, EndsAgree, LetGoInv
      <3>2. ~ receipt[r]
        BY <1>5 DEF EndsAgree
      <3> QED
        BY <1>1, <1>5, <3>1, <3>2 DEF EndsAgree
    <2> QED
      BY <1>1, <1>2, <1>5, <2>1, <2>2, <2>3, <2>4, PrefixInvUnchanged, AckedInvUnchanged DEF Finished
  <1>6. CASE \E v \in Finished, w \in Reasons :
               /\ dStatus[r] = "pending" /\ UNCHANGED dLog
               /\ dStatus' = [dStatus EXCEPT ![r] = v] /\ dReason' = [dReason EXCEPT ![r] = w]
               /\ \/ v = "truncated" /\ w \in QuotaReasons
                  \/ /\ status[r] \in Finished /\ Len(dLog[r]) = Last(r)
                     /\ v = status[r] /\ w = reason[r]
    BY <1>5, <1>6
  <1> QED
    BY <1>3, <1>4, <1>6 DEF StoreEffect

\* What an answer may do to the spool: nothing; release the frames up to n, which
\* are committed; or let the whole output go, ended as the dispatcher ended it.
AckEffect(r, ok) ==
  /\ UNCHANGED <<status, reason, emitted, abandoned>>
  /\ \/ UNCHANGED <<held, acked, endAck, receipt>>
     \/ \E n \in acked[r] .. Len(dLog[r]) :
          /\ n <= Last(r) /\ UNCHANGED <<endAck, receipt>>
          /\ held' = [held EXCEPT ![r] = held[r] \ {i \in held[r] : i <= n}]
          /\ acked' = [acked EXCEPT ![r] = n]
     \/ /\ ok /\ Final(reply[r]) /\ status[r] \in Finished
        /\ held' = [held EXCEPT ![r] = {}] /\ endAck' = [endAck EXCEPT ![r] = TRUE]
        /\ acked' = [acked EXCEPT ![r] = Len(dLog[r])]
        /\ \/ /\ UNCHANGED receipt /\ Len(dLog[r]) = Last(r)
              /\ dStatus[r] = status[r] /\ dReason[r] = reason[r]
           \/ /\ receipt' = [receipt EXCEPT ![r] = TRUE]
              /\ dStatus[r] = "truncated" /\ dReason[r] \in QuotaReasons

\* acknowledgeOutput does one of these while a worker holds the output.
LEMMA AckHasEffect ==
  ASSUME IInv, NEW r \in Runs, ~ endAck[r], NEW ok \in BOOLEAN, acknowledgeOutput(r, ok)
  PROVE  AckEffect(r, ok)
  <1> USE DEF IInv, TypeParts
  <1>1. /\ dLog \in [Runs -> Seq(Data)] /\ emitted \in [Runs -> Seq(Data)]
        /\ acked \in [Runs -> Nat] /\ endAck \in [Runs -> BOOLEAN] /\ reply \in [Runs -> Receipt]
        /\ held \in [Runs -> SUBSET Nat]
    BY DEF StoreTypes, SpoolTypes, StreamTypes
  <1>2. Len(dLog[r]) \in Nat /\ Last(r) \in Nat /\ acked[r] \in Nat /\ reply[r].seq \in Nat
    BY <1>1 DEF Last, Receipt
  <1>3. /\ acked[r] <= Len(dLog[r]) /\ Len(dLog[r]) <= Last(r) /\ reply[r].seq <= Len(dLog[r])
        /\ held[r] = (acked[r] + 1) .. Last(r)
    BY DEF AckedInv, PrefixInv, ReplyInv, HeldInv
  <1>4. CASE UNCHANGED spool
    BY <1>4 DEF spool, AckEffect
  <1>5. CASE quotaReceipt(r) /\ CanTruncate(r, reply[r]) /\ AcceptTruncation(r, reply[r]) /\ ok
    <2>1. /\ reply[r].status = "truncated" /\ reply[r].reason \in QuotaReasons
          /\ Final(reply[r]) /\ status[r] \in Finished
      BY <1>5 DEF quotaReceipt, Final, Finished, CanTruncate
    <2>2. reply[r].seq = Len(dLog[r]) /\ dStatus[r] = "truncated" /\ dReason[r] \in QuotaReasons
      BY <2>1 DEF ReplyInv
    <2> QED
      BY <1>5, <2>1, <2>2 DEF AcceptTruncation, ReleaseAll, AckEffect
  <1>6. CASE CanAcknowledge(r, reply[r]) /\ Acknowledge(r, reply[r]) /\ ok
    <2>1. CASE Final(reply[r])
      <3>1. /\ reply[r].seq = Last(r) /\ reply[r].status = status[r] /\ reply[r].reason = reason[r]
            /\ status[r] \in Finished
        BY <1>6, <2>1 DEF CanAcknowledge, Last, Final
      <3>2. Len(dLog[r]) = Last(r) /\ dStatus[r] = status[r] /\ dReason[r] = reason[r]
        BY <2>1, <3>1 DEF ReplyInv
      <3>3. Upto(r, reply[r]) = Last(r)
        BY <1>2, <1>3, <3>1 DEF Upto
      <3>4. held[r] \ Covered(r, reply[r]) = {}
        BY <1>2, <1>3, <3>3 DEF Covered
      <3> QED
        BY <1>1, <1>6, <2>1, <3>1, <3>2, <3>3, <3>4 DEF Acknowledge, EndsRun, AckEffect
    <2>2. CASE ~ Final(reply[r])
      <3>1. Upto(r, reply[r]) \in acked[r] .. Len(dLog[r]) /\ Upto(r, reply[r]) <= Last(r)
        BY <1>2, <1>3 DEF Upto
      <3>2. endAck' = endAck
        BY <1>1, <1>6, <2>2 DEF Acknowledge, EndsRun
      <3> QED
        BY <1>6, <3>1, <3>2 DEF Acknowledge, Covered, AckEffect
    <2> QED
      BY <2>1, <2>2
  <1> QED
    BY <1>4, <1>5, <1>6 DEF acknowledgeOutput

\* What such an answer keeps, whatever else its step does.
LEMMA AckKeeps ==
  ASSUME IInv, NEW r \in Runs, ~ endAck[r], NEW ok \in BOOLEAN, AckEffect(r, ok),
         UNCHANGED <<credential, dStatus, dReason, dLog>>
  PROVE  /\ SpoolTypes' /\ HeldInv' /\ AckedInv' /\ LetGoInv' /\ EndsAgree'
         /\ \A s \in Runs : s # r => endAck'[s] = endAck[s]
         /\ (status[r] = "open" \/ ~ ok \/ ~ Final(reply[r])) => endAck' = endAck
  <1> USE DEF IInv, TypeParts
  <1>1. /\ dLog \in [Runs -> Seq(Data)] /\ emitted \in [Runs -> Seq(Data)]
        /\ acked \in [Runs -> Nat] /\ endAck \in [Runs -> BOOLEAN] /\ receipt \in [Runs -> BOOLEAN]
        /\ held \in [Runs -> SUBSET Nat]
    BY DEF StoreTypes, SpoolTypes
  <1>2. \A s \in Runs : Len(dLog[s]) \in Nat /\ Last(s) \in Nat /\ acked[s] \in Nat
    BY <1>1 DEF Last
  <1>3. UNCHANGED <<status, reason, emitted, abandoned>>
    BY DEF AckEffect
  <1>4. CASE UNCHANGED <<held, acked, endAck, receipt>>
    BY <1>3, <1>4, SpoolTypesUnchanged, HeldInvUnchanged, AckedInvUnchanged, LetGoInvUnchanged,
       EndsAgreeUnchanged
  <1>5. ASSUME NEW n \in acked[r] .. Len(dLog[r]), n <= Last(r), UNCHANGED <<endAck, receipt>>,
               held' = [held EXCEPT ![r] = held[r] \ {i \in held[r] : i <= n}],
               acked' = [acked EXCEPT ![r] = n]
        PROVE  SpoolTypes' /\ HeldInv' /\ AckedInv' /\ LetGoInv' /\ EndsAgree'
    <2>1. n \in Nat
      BY <1>2, <1>5
    <2>2. SpoolTypes'
      BY <1>1, <1>3, <1>5, <2>1 DEF SpoolTypes
    <2>3. HeldInv'
      <3> SUFFICES ASSUME NEW s \in Runs
                   PROVE  held'[s] = IF endAck[s] THEN {} ELSE (acked'[s] + 1) .. Last(s)
        BY <1>3, <1>5 DEF HeldInv, Last
      <3>1. CASE s # r
        BY <1>1, <1>5, <3>1 DEF HeldInv
      <3>2. CASE s = r
        <4>1. held[r] = (acked[r] + 1) .. Last(r)
          BY DEF HeldInv
        <4>2. held[r] \ {i \in held[r] : i <= n} = (n + 1) .. Last(r)
          BY <1>2, <2>1, <4>1
        <4> QED
          BY <1>1, <1>5, <3>2, <4>2
      <3> QED
        BY <3>1, <3>2
    <2>4. AckedInv'
      BY <1>1, <1>2, <1>5, <2>1 DEF AckedInv
    <2>5. LetGoInv' /\ EndsAgree'
      BY <1>1, <1>3, <1>5 DEF LetGoInv, EndsAgree, Enrolled
    <2> QED
      BY <2>2, <2>3, <2>4, <2>5
  <1>6. ASSUME ok, Final(reply[r]), status[r] \in Finished, held' = [held EXCEPT ![r] = {}],
               endAck' = [endAck EXCEPT ![r] = TRUE],
               acked' = [acked EXCEPT ![r] = Len(dLog[r])],
               \/ /\ UNCHANGED receipt /\ Len(dLog[r]) = Last(r)
                  /\ dStatus[r] = status[r] /\ dReason[r] = reason[r]
               \/ /\ receipt' = [receipt EXCEPT ![r] = TRUE]
                  /\ dStatus[r] = "truncated" /\ dReason[r] \in QuotaReasons
        PROVE  SpoolTypes' /\ HeldInv' /\ AckedInv' /\ LetGoInv' /\ EndsAgree'
    <2>1. SpoolTypes'
      BY <1>1, <1>2, <1>3, <1>6 DEF SpoolTypes
    <2>2. HeldInv'
      BY <1>1, <1>3, <1>6 DEF HeldInv, Last
    <2>3. AckedInv'
      BY <1>1, <1>2, <1>6 DEF AckedInv
    <2>4. LetGoInv'
      BY <1>1, <1>3, <1>6 DEF LetGoInv, Enrolled
    <2>5. EndsAgree'
      <3>1. Len(dLog[r]) = Last(r) => dLog[r] = emitted[r]
        BY <1>1, SameSequence DEF PrefixInv, Last
      <3> QED
        BY <1>1, <1>3, <1>6, <3>1 DEF EndsAgree
    <2> QED
      BY <2>1, <2>2, <2>3, <2>4, <2>5
  <1>7. \A s \in Runs : s # r => endAck'[s] = endAck[s]
    BY <1>1 DEF AckEffect
  <1>8. (status[r] = "open" \/ ~ ok \/ ~ Final(reply[r])) => endAck' = endAck
    BY DEF AckEffect, Finished
  <1> QED
    BY <1>4, <1>5, <1>6, <1>7, <1>8 DEF AckEffect

\* What giving an output up keeps: no enrolled executor does.
LEMMA AbandonKeeps ==
  ASSUME IInv, NEW r \in Runs, ~ Enrolled, status[r] \in Finished, Abandon(r),
         UNCHANGED <<credential, dStatus, dReason, dLog>>
  PROVE  /\ SpoolTypes' /\ HeldInv' /\ LetGoInv' /\ EndsAgree'
         /\ UNCHANGED <<status, reason, emitted, acked, receipt>>
         /\ endAck' = [endAck EXCEPT ![r] = TRUE]
  <1> USE DEF IInv, TypeParts
  <1>1. /\ held \in [Runs -> SUBSET Nat] /\ endAck \in [Runs -> BOOLEAN]
        /\ abandoned \in [Runs -> BOOLEAN]
    BY DEF SpoolTypes
  <1>2. /\ UNCHANGED <<status, reason, emitted, acked, receipt>>
        /\ held' = [held EXCEPT ![r] = {}] /\ endAck' = [endAck EXCEPT ![r] = TRUE]
        /\ abandoned' = [abandoned EXCEPT ![r] = TRUE]
    BY DEF Abandon, ReleaseAll
  <1>3. SpoolTypes'
    BY <1>1, <1>2 DEF SpoolTypes
  <1>4. HeldInv'
    BY <1>1, <1>2 DEF HeldInv, Last
  <1>5. LetGoInv'
    BY <1>1, <1>2 DEF LetGoInv, Enrolled
  <1>6. EndsAgree'
    BY <1>1, <1>2 DEF EndsAgree
  <1> QED
    BY <1>2, <1>3, <1>4, <1>5, <1>6

-----------------------------------------------------------------------------
(* What each step does to the conjuncts it disturbs.  *)

\* A new output is pending under the live session; nothing is known of it yet.
LEMMA CreateOutputKeeps ==
  ASSUME IInv, NEW r \in Runs, CreateOutput(r)
  PROVE  IInv'
  <1> USE DEF IInv, TypeParts
  <1>1. UNCHANGED <<status, reason, emitted, held, acked, endAck, receipt, abandoned, started, worker, at,
            live, rejected, loss, batch, wire, msg, reply, stray, credential, running, unhealthy,
            sess, up, ending, mishaps, dReason, dLog>>
    BY DEF CreateOutput, spool, work, stream, process, session, store
  <1>2. /\ dStatus \in [Runs -> {"absent", "pending", "complete", "truncated"}]
        /\ binding \in [Runs -> Nat]
        /\ sess \in Nat
    BY DEF StoreTypes, WorldTypes
  <1>3. WorldTypes'
    BY <1>1, <1>2 DEF CreateOutput, WorldTypes
  <1>4. StoreTypes'
    BY <1>1, <1>2 DEF CreateOutput, StoreTypes
  <1>5. AbsentInv'
    BY <1>1, <1>2 DEF CreateOutput, AbsentInv
  <1>6. ReplyInv'
    BY <1>1, <1>2 DEF CreateOutput, ReplyInv, Final, Finished
  <1>7. SessInv'
    BY <1>1, <1>2 DEF CreateOutput, SessInv
  <1>8. FinalInv'
    BY <1>1, <1>2 DEF CreateOutput, FinalInv, Enrolled, Last, Finished
  <1>9. EndsAgree'
    BY <1>1, <1>2 DEF CreateOutput, EndsAgree, LetGoInv, AbsentInv, Finished
  <1> QED
    BY <1>1, <1>3, <1>4, <1>5, <1>6, <1>7, <1>8, <1>9, SpoolTypesUnchanged, WorkTypesUnchanged,
      StreamTypesUnchanged, HeldInvUnchanged, PrefixInvUnchanged, AckedInvUnchanged,
      LetGoInvUnchanged, WorkInvUnchanged, BatchInvUnchanged, MsgInvUnchanged, DeniedInvUnchanged

\* Only an output that is still pending is admitted to the spool.
LEMMA AdmitTxKeeps ==
  ASSUME IInv, NEW r \in Runs, AdmitTx(r)
  PROVE  IInv'
  <1> USE DEF IInv, TypeParts
  <1>1. UNCHANGED <<reason, emitted, held, acked, endAck, receipt, abandoned, started, worker, at, live,
            rejected, loss, batch, wire, msg, reply, stray, credential, running, unhealthy, sess,
            up, ending, binding, mishaps, dStatus, dReason, dLog>>
    BY DEF AdmitTx, spool, work, stream, process, session, store
  <1>2. /\ status \in [Runs -> {"absent", "open", "complete", "truncated"}]
        /\ worker \in [Runs -> {"none", "pump", "retry"}]
    BY DEF SpoolTypes, WorkTypes
  <1>3. status[r] = "absent" /\ ~ endAck[r] /\ worker[r] = "none"
    BY <1>2 DEF AdmitTx, LetGoInv, WorkInv, Finished
  <1>4. SpoolTypes'
    BY <1>1, <1>2, <1>3 DEF AdmitTx, SpoolTypes
  <1>5. AbsentInv'
    BY <1>1, <1>2, <1>3 DEF AdmitTx, AbsentInv
  <1>6. LetGoInv'
    BY <1>1, <1>2, <1>3 DEF AdmitTx, LetGoInv, Enrolled, Finished
  <1>7. WorkInv'
    BY <1>1, <1>2, <1>3 DEF AdmitTx, WorkInv, Finished
  <1>8. MsgInv'
    BY <1>1, <1>2, <1>3 DEF AdmitTx, MsgInv, Right, Last, Finished
  <1>9. FinalInv'
    BY <1>1, <1>2, <1>3 DEF AdmitTx, FinalInv, Enrolled, Last, Finished
  <1>10. EndsAgree'
    BY <1>1, <1>2, <1>3 DEF AdmitTx, EndsAgree, Finished
  <1> QED
    BY <1>1, <1>4, <1>5, <1>6, <1>7, <1>8, <1>9, <1>10, WorkTypesUnchanged, StreamTypesUnchanged,
      WorldTypesUnchanged, StoreTypesUnchanged, HeldInvUnchanged, PrefixInvUnchanged,
      AckedInvUnchanged, BatchInvUnchanged, ReplyInvUnchanged, DeniedInvUnchanged,
      SessInvUnchanged

\* A refused upload ends at the dispatcher; the executor never learns of the run.
LEMMA FinishRefusedOutputKeeps ==
  ASSUME IInv, NEW r \in Runs, finishRefusedOutput(r)
  PROVE  IInv'
  <1> USE DEF IInv, TypeParts
  <1>1. UNCHANGED <<status, reason, emitted, held, acked, endAck, receipt, abandoned, started, worker, at,
            live, rejected, loss, batch, wire, msg, reply, stray, credential, running, unhealthy,
            sess, up, ending, binding, mishaps, dLog>>
    BY DEF finishRefusedOutput, FinalizeOutput, spool, work, stream, process, session, store
  <1>2. /\ dStatus \in [Runs -> {"absent", "pending", "complete", "truncated"}]
        /\ dReason \in [Runs -> Reasons]
    BY DEF StoreTypes
  <1>3. status[r] = "absent" /\ ~ endAck[r] /\ ~ receipt[r]
    BY DEF finishRefusedOutput, LetGoInv, Finished
  <1>4. StoreTypes'
    BY <1>1, <1>2, <1>3 DEF finishRefusedOutput, FinalizeOutput, StoreTypes, Reasons
  <1>5. AbsentInv'
    BY <1>1, <1>2, <1>3 DEF finishRefusedOutput, FinalizeOutput, AbsentInv
  <1>6. ReplyInv'
    BY <1>1, <1>2, <1>3 DEF finishRefusedOutput, FinalizeOutput, ReplyInv, Final, Finished
  <1>7. FinalInv'
    BY <1>1, <1>2, <1>3 DEF finishRefusedOutput, FinalizeOutput, FinalInv, Enrolled, Last,
      Finished
  <1>8. EndsAgree'
    BY <1>1, <1>2, <1>3 DEF finishRefusedOutput, FinalizeOutput, EndsAgree
  <1> QED
    BY <1>1, <1>4, <1>5, <1>6, <1>7, <1>8, SpoolTypesUnchanged, WorkTypesUnchanged,
      StreamTypesUnchanged, WorldTypesUnchanged, HeldInvUnchanged, PrefixInvUnchanged,
      AckedInvUnchanged, LetGoInvUnchanged, WorkInvUnchanged, BatchInvUnchanged, MsgInvUnchanged,
      DeniedInvUnchanged, SessInvUnchanged

\* What is cut belongs to an ended session of an executor that may not resume it.
LEMMA InterruptUnresumableOutputKeeps ==
  ASSUME IInv, NEW s \in 1 .. MaxSessions, interruptUnresumableOutput(s)
  PROVE  IInv'
  <1> USE DEF IInv, TypeParts
  <1>1. UNCHANGED <<status, reason, emitted, held, acked, endAck, receipt, abandoned, started, worker, at,
            live, rejected, loss, batch, wire, msg, reply, stray, credential, running, unhealthy,
            sess, up, binding, mishaps, dLog>>
    BY DEF interruptUnresumableOutput, unresumable, spool, work, stream, process, session, store
  <1>2. /\ ending \subseteq Nat
        /\ dStatus \in [Runs -> {"absent", "pending", "complete", "truncated"}]
        /\ dReason \in [Runs -> Reasons]
        /\ sess \in Nat
    BY DEF WorldTypes, StoreTypes
  <1>3. \A q \in Runs : /\ dStatus[q] # "pending" => dStatus'[q] = dStatus[q] /\ dReason'[q] = dReason[q]
                        /\ dStatus[q] = "pending" => ~ receipt[q] /\ (endAck[q] => abandoned[q])
    BY <1>2 DEF interruptUnresumableOutput, unresumable, EndsAgree, LetGoInv, Finished
  <1>4. WorldTypes'
    BY <1>1, <1>2, <1>3 DEF interruptUnresumableOutput, unresumable, WorldTypes
  <1>5. StoreTypes'
    BY <1>1, <1>2, <1>3 DEF interruptUnresumableOutput, unresumable, StoreTypes, Reasons
  <1>6. AbsentInv'
    BY <1>1, <1>2, <1>3 DEF interruptUnresumableOutput, unresumable, AbsentInv
  <1>7. ReplyInv'
    BY <1>1, <1>2, <1>3 DEF interruptUnresumableOutput, unresumable, ReplyInv, Final, Finished
  <1>8. SessInv'
    BY <1>1, <1>2, <1>3 DEF interruptUnresumableOutput, unresumable, SessInv
  <1>9. FinalInv'
    BY <1>1, <1>2, <1>3 DEF interruptUnresumableOutput, unresumable, FinalInv, Enrolled, Last,
      Finished, SessInv
  <1>10. EndsAgree'
    BY <1>1, <1>2, <1>3 DEF EndsAgree
  <1> QED
    BY <1>1, <1>4, <1>5, <1>6, <1>7, <1>8, <1>9, <1>10, SpoolTypesUnchanged, WorkTypesUnchanged,
      StreamTypesUnchanged, HeldInvUnchanged, PrefixInvUnchanged, AckedInvUnchanged,
      LetGoInvUnchanged, WorkInvUnchanged, BatchInvUnchanged, MsgInvUnchanged, DeniedInvUnchanged

\* A failed interruption leaves both databases alone.
LEMMA InterruptFailedKeeps ==
  ASSUME IInv, NEW s \in 1 .. MaxSessions, interruptFailed(s)
  PROVE  IInv'
  <1> USE DEF IInv, TypeParts
  <1>1. UNCHANGED <<status, reason, emitted, held, acked, endAck, receipt, abandoned, started, worker, at,
            live, rejected, loss, batch, wire, msg, reply, stray, credential, running, unhealthy,
            sess, up, binding, dStatus, dReason, dLog>>
    BY DEF interruptFailed, Mishap, spool, work, stream, process, session, store
  <1>2. /\ ending \subseteq Nat
        /\ mishaps \in Nat
        /\ sess \in Nat
    BY DEF WorldTypes
  <1>3. WorldTypes'
    BY <1>1, <1>2 DEF interruptFailed, Mishap, WorldTypes
  <1>4. SessInv'
    BY <1>1, <1>2 DEF interruptFailed, Mishap, SessInv
  <1> QED
    BY <1>1, <1>3, <1>4, SpoolTypesUnchanged, WorkTypesUnchanged, StreamTypesUnchanged,
      StoreTypesUnchanged, HeldInvUnchanged, PrefixInvUnchanged, AckedInvUnchanged,
      AbsentInvUnchanged, LetGoInvUnchanged, WorkInvUnchanged, BatchInvUnchanged, MsgInvUnchanged,
      ReplyInvUnchanged, DeniedInvUnchanged, FinalInvUnchanged, EndsAgreeUnchanged

\* No output is bound to a session that did not exist.
LEMMA NewSessionKeeps ==
  ASSUME IInv, NewSession
  PROVE  IInv'
  <1> USE DEF IInv, TypeParts
  <1>1. UNCHANGED <<status, reason, emitted, held, acked, endAck, receipt, abandoned, started, worker, at,
            live, rejected, loss, batch, wire, msg, reply, stray, credential, running, unhealthy,
            ending, binding, mishaps, dStatus, dReason, dLog>>
    BY DEF NewSession, spool, work, stream, process, session, store
  <1>2. /\ sess \in Nat
        /\ up \in BOOLEAN
        /\ binding \in [Runs -> Nat]
        /\ ending \subseteq Nat
    BY DEF WorldTypes
  <1>3. WorldTypes'
    BY <1>1, <1>2 DEF NewSession, WorldTypes
  <1>4. WorkInv'
    BY <1>1, <1>2 DEF NewSession, WorkInv, Finished
  <1>5. SessInv'
    BY <1>1, <1>2 DEF NewSession, SessInv
  <1>6. FinalInv'
    BY <1>1, <1>2 DEF NewSession, FinalInv, Enrolled, Last, Finished, SessInv
  <1> QED
    BY <1>1, <1>3, <1>4, <1>5, <1>6, SpoolTypesUnchanged, WorkTypesUnchanged, StreamTypesUnchanged,
      StoreTypesUnchanged, HeldInvUnchanged, PrefixInvUnchanged, AckedInvUnchanged,
      AbsentInvUnchanged, LetGoInvUnchanged, BatchInvUnchanged, MsgInvUnchanged,
      ReplyInvUnchanged, DeniedInvUnchanged, EndsAgreeUnchanged

\* The lost session is not up, and is among the ended ones.
LEMMA SessionLostKeeps ==
  ASSUME IInv, SessionLost
  PROVE  IInv'
  <1> USE DEF IInv, TypeParts
  <1>1. UNCHANGED <<status, reason, emitted, held, acked, endAck, receipt, abandoned, started, worker, at,
            rejected, loss, batch, wire, msg, reply, stray, credential, running, unhealthy, sess,
            binding, dStatus, dReason, dLog>>
    BY DEF SessionLost, Mishap, spool, work, stream, process, session, store
  <1>2. /\ up \in BOOLEAN
        /\ ending \subseteq Nat
        /\ live \in [Runs -> BOOLEAN]
        /\ mishaps \in Nat
        /\ sess \in Nat
    BY DEF WorldTypes, WorkTypes
  <1>3. /\ mishaps' \in Nat /\ ending' \subseteq Nat /\ up' = FALSE /\ ending' = ending \cup {sess}
    BY <1>2 DEF SessionLost, Mishap
  <1>4. WorkTypes'
    BY <1>1, <1>2, <1>3 DEF SessionLost, Mishap, WorkTypes
  <1>5. WorldTypes'
    BY <1>1, <1>3 DEF WorldTypes
  <1>6. WorkInv'
    BY <1>1, <1>2, <1>3 DEF SessionLost, Mishap, WorkInv, Finished
  <1>7. SessInv'
    BY <1>1, <1>2, <1>3 DEF SessionLost, Mishap, SessInv
  <1>8. FinalInv'
    BY <1>1, <1>2, <1>3 DEF SessionLost, Mishap, FinalInv, Enrolled, Last, Finished
  <1> QED
    BY <1>1, <1>4, <1>5, <1>6, <1>7, <1>8, SpoolTypesUnchanged, StreamTypesUnchanged,
      StoreTypesUnchanged, HeldInvUnchanged, PrefixInvUnchanged, AckedInvUnchanged,
      AbsentInvUnchanged, LetGoInvUnchanged, BatchInvUnchanged, MsgInvUnchanged,
      ReplyInvUnchanged, DeniedInvUnchanged, EndsAgreeUnchanged

\* Exchanges fail; what both sides stored stays.
LEMMA DispatcherCrashKeeps ==
  ASSUME IInv, DispatcherCrash
  PROVE  IInv'
  <1> USE DEF IInv, TypeParts
  <1>1. UNCHANGED <<status, reason, emitted, held, acked, endAck, receipt, abandoned, started, worker, at,
            rejected, loss, batch, msg, reply, credential, running, unhealthy, sess, binding,
            dStatus, dReason, dLog>>
    BY DEF DispatcherCrash, Mishap, spool, work, stream, process, session, store
  <1>2. /\ up \in BOOLEAN
        /\ ending \subseteq Nat
        /\ live \in [Runs -> BOOLEAN]
        /\ wire \in [Runs -> {"idle", "sent", "ok", "refused", "denied", "failed"}]
        /\ stray \in [Runs -> SUBSET Message]
        /\ mishaps \in Nat
        /\ sess \in Nat
    BY DEF WorldTypes, WorkTypes, StreamTypes
  <1>3. /\ mishaps' \in Nat /\ ending' \subseteq Nat /\ up' = FALSE /\ ending' = {}
    BY <1>2 DEF DispatcherCrash, Mishap
  <1>4. WorkTypes'
    BY <1>1, <1>2, <1>3 DEF DispatcherCrash, Mishap, WorkTypes
  <1>5. StreamTypes'
    BY <1>1, <1>2, <1>3 DEF DispatcherCrash, Mishap, StreamTypes
  <1>6. WorldTypes'
    BY <1>1, <1>3 DEF WorldTypes
  <1>7. WorkInv'
    BY <1>1, <1>2, <1>3 DEF DispatcherCrash, Mishap, WorkInv, Finished
  <1>8. MsgInv'
    BY <1>1, <1>2, <1>3 DEF DispatcherCrash, Mishap, MsgInv, Right, Last, Finished
  <1>9. DeniedInv'
    BY <1>1, <1>2, <1>3 DEF DispatcherCrash, Mishap, DeniedInv, Enrolled
  <1>10. SessInv'
    BY <1>1, <1>2, <1>3 DEF DispatcherCrash, Mishap, SessInv
  <1>11. FinalInv'
    BY <1>1, <1>2, <1>3 DEF DispatcherCrash, Mishap, FinalInv, Enrolled, Last, Finished
  <1> QED
    BY <1>1, <1>4, <1>5, <1>6, <1>7, <1>8, <1>9, <1>10, <1>11, SpoolTypesUnchanged,
      StoreTypesUnchanged, HeldInvUnchanged, PrefixInvUnchanged, AckedInvUnchanged,
      AbsentInvUnchanged, LetGoInvUnchanged, BatchInvUnchanged, ReplyInvUnchanged,
      EndsAgreeUnchanged

\* What was on its way may still commit; the workers are gone.
LEMMA ExecutorCrashKeeps ==
  ASSUME IInv, ExecutorCrash
  PROVE  IInv'
  <1> USE DEF IInv, TypeParts
  <1>1. UNCHANGED <<status, reason, emitted, held, acked, endAck, receipt, abandoned, started, msg, reply,
            credential, unhealthy, sess, binding, dStatus, dReason, dLog>>
    BY DEF ExecutorCrash, Mishap, spool, work, stream, process, session, store
  <1>2. /\ running \in BOOLEAN
        /\ up \in BOOLEAN
        /\ ending \subseteq Nat
        /\ worker \in [Runs -> {"none", "pump", "retry"}]
        /\ at \in [Runs -> {"idle", "opening", "drain", "sending", "settle", "ending"}]
        /\ live \in [Runs -> BOOLEAN]
        /\ rejected \in [Runs -> BOOLEAN]
        /\ loss \in [Runs -> Reasons]
        /\ batch \in [Runs -> SUBSET Nat]
        /\ wire \in [Runs -> {"idle", "sent", "ok", "refused", "denied", "failed"}]
        /\ stray \in [Runs -> SUBSET Message]
        /\ mishaps \in Nat
        /\ sess \in Nat
        /\ msg \in [Runs -> Message]
    BY DEF WorldTypes, WorkTypes, StreamTypes
  <1>3. \A r \in Runs : \A m \in stray'[r] : m \in stray[r] \/ (wire[r] = "sent" /\ m = msg[r])
    BY <1>2 DEF ExecutorCrash
  <1>4. \A r \in Runs : wire'[r] = "idle" /\ worker'[r] = "none"
    BY DEF ExecutorCrash
  <1>5. ~ up' /\ ~ running' /\ ending' \subseteq ending \cup {sess}
    BY DEF ExecutorCrash
  <1>6. /\ mishaps' = mishaps + 1 /\ up' = FALSE /\ running' = FALSE
    BY DEF ExecutorCrash, Mishap
  <1>7. stray' \in [Runs -> SUBSET Message]
    BY ZenonT(60), <1>2 DEF ExecutorCrash
  <1>8. mishaps' \in Nat /\ ending' \subseteq Nat
    BY <1>2, <1>5, <1>6
  <1>9. WorkTypes'
    BY <1>1, <1>2, <1>3, <1>4, <1>5, <1>6, <1>7, <1>8 DEF ExecutorCrash, Mishap, WorkTypes,
      Reasons
  <1>10. StreamTypes'
    BY <1>1, <1>2, <1>7 DEF ExecutorCrash, StreamTypes
  <1>11. WorldTypes'
    BY <1>1, <1>6, <1>8 DEF WorldTypes
  <1>12. WorkInv'
    BY <1>1, <1>2, <1>3, <1>4, <1>5, <1>6, <1>7, <1>8 DEF WorkInv, Finished
  <1>13. BatchInv'
    BY <1>1, <1>2, <1>3, <1>4, <1>5, <1>6, <1>7, <1>8 DEF ExecutorCrash, Mishap, BatchInv, Last
  <1>14. MsgInv'
    BY <1>1, <1>2, <1>3, <1>4, <1>5, <1>6, <1>7, <1>8 DEF MsgInv, Right, Last, Finished
  <1>15. DeniedInv'
    BY <1>1, <1>2, <1>3, <1>4, <1>5, <1>6, <1>7, <1>8 DEF ExecutorCrash, Mishap, DeniedInv,
      Enrolled
  <1>16. SessInv'
    BY <1>1, <1>2, <1>5, <1>6 DEF SessInv
  <1>17. FinalInv'
    BY <1>1, <1>2, <1>3, <1>4, <1>5, <1>6, <1>7, <1>8 DEF ExecutorCrash, Mishap, FinalInv,
      Enrolled, Last, Finished
  <1> QED
    BY <1>1, <1>9, <1>10, <1>11, <1>12, <1>13, <1>14, <1>15, <1>16, <1>17, SpoolTypesUnchanged,
      StoreTypesUnchanged, HeldInvUnchanged, PrefixInvUnchanged, AckedInvUnchanged,
      AbsentInvUnchanged, LetGoInvUnchanged, ReplyInvUnchanged, EndsAgreeUnchanged

\* Open outputs are closed when no worker is left.
LEMMA StartNodeKeeps ==
  ASSUME IInv, StartNode
  PROVE  IInv'
  <1> USE DEF IInv, TypeParts
  <1>1. UNCHANGED <<emitted, held, acked, endAck, receipt, abandoned, started, worker, at, live, rejected,
            loss, batch, wire, msg, reply, stray, credential, sess, up, ending, binding, mishaps,
            dStatus, dReason, dLog>>
    BY DEF StartNode, spool, work, stream, process, session, store
  <1>2. /\ running \in BOOLEAN
        /\ unhealthy \in BOOLEAN
        /\ status \in [Runs -> {"absent", "open", "complete", "truncated"}]
        /\ reason \in [Runs -> Reasons]
    BY DEF WorldTypes, SpoolTypes
  <1>3. \A r \in Runs : worker[r] = "none"
    BY DEF StartNode, WorkInv
  <1>4. \A r \in Runs : status[r] # "open" => status'[r] = status[r] /\ reason'[r] = reason[r]
    BY <1>2 DEF StartNode
  <1>5. \A r \in Runs : status[r] = "open" => status'[r] = "truncated"
    BY <1>2 DEF StartNode
  <1>6. SpoolTypes'
    BY <1>1, <1>2, <1>3, <1>4, <1>5 DEF StartNode, SpoolTypes, Reasons, QuotaReasons
  <1>7. WorldTypes'
    BY <1>1, <1>2, <1>3, <1>4, <1>5 DEF StartNode, WorldTypes
  <1>8. AbsentInv'
    BY <1>1, <1>2, <1>3, <1>4, <1>5 DEF AbsentInv
  <1>9. LetGoInv'
    BY <1>1, <1>2, <1>3, <1>4, <1>5 DEF LetGoInv, Enrolled, Finished
  <1>10. WorkInv'
    BY <1>1, <1>2, <1>3, <1>4, <1>5 DEF StartNode, WorkInv, Finished
  <1>11. MsgInv'
    BY <1>1, <1>2, <1>3, <1>4, <1>5 DEF MsgInv, Right, Last, Finished
  <1>12. FinalInv'
    BY <1>1, <1>2, <1>3, <1>4, <1>5 DEF FinalInv, Enrolled, Last, Finished
  <1>13. EndsAgree'
    BY <1>1, <1>4 DEF EndsAgree, LetGoInv, Finished
  <1> QED
    BY <1>1, <1>6, <1>7, <1>8, <1>9, <1>10, <1>11, <1>12, <1>13, WorkTypesUnchanged,
      StreamTypesUnchanged, StoreTypesUnchanged, HeldInvUnchanged, PrefixInvUnchanged,
      AckedInvUnchanged, BatchInvUnchanged, ReplyInvUnchanged, DeniedInvUnchanged,
      SessInvUnchanged

\* A pump starts on an open output.
LEMMA StartPumpKeeps ==
  ASSUME IInv, NEW r \in Runs, StartPump(r)
  PROVE  IInv'
  <1> USE DEF IInv, TypeParts
  <1>1. UNCHANGED <<status, reason, emitted, held, acked, endAck, receipt, abandoned, rejected, loss,
            batch, reply, stray, credential, running, unhealthy, sess, up, ending, binding,
            mishaps, dStatus, dReason, dLog>>
    BY DEF StartPump, Send, Ident, Elsewhere, spool, work, stream, process, session, store
  <1>2. /\ started \in [Runs -> BOOLEAN]
        /\ worker \in [Runs -> {"none", "pump", "retry"}]
        /\ at \in [Runs -> {"idle", "opening", "drain", "sending", "settle", "ending"}]
        /\ live \in [Runs -> BOOLEAN]
        /\ wire \in [Runs -> {"idle", "sent", "ok", "refused", "denied", "failed"}]
        /\ msg \in [Runs -> Message]
    BY DEF WorkTypes, StreamTypes
  <1>3. Ident \in Message /\ Ident.kind = "ident"
    BY DEF Ident, Message, Finished, Reasons
  <1>4. status[r] = "open" /\ ~ endAck[r] /\ running
    BY DEF StartPump, LetGoInv, Finished, WorkInv
  <1>5. wire' = [wire EXCEPT ![r] = "sent"] /\ msg' = [msg EXCEPT ![r] = Ident]
    BY DEF StartPump, Send
  <1>6. WorkTypes'
    BY <1>1, <1>2, <1>3, <1>4, <1>5 DEF StartPump, Send, Ident, Elsewhere, WorkTypes
  <1>7. StreamTypes'
    BY ZenonT(60), <1>1, <1>2, <1>3, <1>4, <1>5 DEF StartPump, Send, Ident, Elsewhere, StreamTypes
  <1>8. WorkInv'
    BY ZenonT(60), <1>1, <1>2, <1>3, <1>4, <1>5 DEF StartPump, Send, Ident, Elsewhere, WorkInv, Finished
  <1>9. MsgInv'
    BY <1>1, <1>2, <1>3, <1>4, <1>5 DEF MsgInv, Right, Last, Finished
  <1>10. DeniedInv'
    BY <1>1, <1>2, <1>3, <1>4, <1>5 DEF StartPump, Send, Ident, Elsewhere, DeniedInv, Enrolled
  <1> QED
    BY <1>1, <1>6, <1>7, <1>8, <1>9, <1>10, SpoolTypesUnchanged, WorldTypesUnchanged,
      StoreTypesUnchanged, HeldInvUnchanged, PrefixInvUnchanged, AckedInvUnchanged,
      AbsentInvUnchanged, LetGoInvUnchanged, BatchInvUnchanged, ReplyInvUnchanged,
      SessInvUnchanged, FinalInvUnchanged, EndsAgreeUnchanged

\* An answer to a pump releases frames and never the end: its output is open.
LEMMA PumpHearsKeeps ==
  ASSUME IInv, NEW r \in Runs, PumpHears(r)
  PROVE  IInv'
  <1> USE DEF IInv, TypeParts
  <1>1. UNCHANGED <<status, reason, emitted, abandoned, started, worker, loss, batch, msg, reply, stray,
            credential, running, unhealthy, sess, up, ending, binding, dStatus, dReason, dLog>>
    BY DEF PumpHears, Heard, Elsewhere, GoOn, acknowledgeOutput, AcceptTruncation, ReleaseAll,
      Acknowledge, Mishap, spool, work, stream, process, session, store
  <1>2. /\ wire \in [Runs -> {"idle", "sent", "ok", "refused", "denied", "failed"}]
        /\ at \in [Runs -> {"idle", "opening", "drain", "sending", "settle", "ending"}]
        /\ live \in [Runs -> BOOLEAN]
        /\ rejected \in [Runs -> BOOLEAN]
        /\ mishaps \in Nat
        /\ held \in [Runs -> SUBSET Nat]
        /\ acked \in [Runs -> Nat]
        /\ endAck \in [Runs -> BOOLEAN]
        /\ receipt \in [Runs -> BOOLEAN]
    BY DEF StreamTypes, WorkTypes, WorldTypes, SpoolTypes
  <1>3. ~ endAck[r] /\ status[r] = "open"
    BY DEF PumpHears, WorkInv
  <1>4. /\ SpoolTypes' /\ HeldInv' /\ AckedInv' /\ LetGoInv' /\ EndsAgree'
        /\ endAck' = endAck
    <2>1. CASE UNCHANGED spool
      BY <1>1, <2>1, SpoolTypesUnchanged, HeldInvUnchanged, AckedInvUnchanged, LetGoInvUnchanged,
         EndsAgreeUnchanged DEF spool
    <2>2. CASE \E ok \in BOOLEAN : acknowledgeOutput(r, ok)
      BY <1>1, <1>3, <2>2, AckHasEffect, AckKeeps
    <2> QED
      BY <2>1, <2>2 DEF PumpHears
  <1>5. /\ wire' = [wire EXCEPT ![r] = "idle"] /\ at' = [at EXCEPT ![r] = "drain"]
        /\ worker[r] = "pump"
    BY DEF PumpHears, Heard, GoOn
  <1>6. mishaps' = mishaps \/ mishaps' = mishaps + 1
    BY DEF PumpHears, acknowledgeOutput, Mishap
  <1>7. mishaps' \in Nat
    BY <1>2, <1>6
  <1>8. SpoolTypes'
    BY <1>4
  <1>9. WorkTypes'
    BY <1>1, <1>2, <1>3, <1>4, <1>5, <1>6, <1>7 DEF PumpHears, Heard, Elsewhere, GoOn, WorkTypes,
      validateQuotaReceipt
  <1>10. StreamTypes'
    BY <1>1, <1>2, <1>3, <1>4, <1>5, <1>6, <1>7 DEF PumpHears, Heard, Elsewhere, GoOn, StreamTypes
  <1>11. WorldTypes'
    BY <1>1, <1>7 DEF WorldTypes
  <1>12. HeldInv'
    BY <1>4
  <1>13. AckedInv'
    BY <1>4
  <1>14. LetGoInv'
    BY <1>4
  <1>15. WorkInv'
    BY <1>1, <1>2, <1>3, <1>4, <1>5, <1>6, <1>7 DEF WorkInv, Finished
  <1>16. MsgInv'
    BY <1>1, <1>2, <1>3, <1>4, <1>5, <1>6, <1>7 DEF MsgInv, Right, Last, Finished
  <1>17. DeniedInv'
    BY <1>1, <1>2, <1>3, <1>4, <1>5, <1>6, <1>7 DEF DeniedInv, Enrolled
  <1>18. EndsAgree'
    BY <1>4
  <1> QED
    BY <1>1, <1>8, <1>9, <1>10, <1>11, <1>12, <1>13, <1>14, <1>15, <1>16, <1>17, <1>18,
      StoreTypesUnchanged, PrefixInvUnchanged, AbsentInvUnchanged, BatchInvUnchanged,
      ReplyInvUnchanged, SessInvUnchanged, FinalInvUnchanged

\* The next frame is written, held, and sent under its number.
LEMMA EmitKeeps ==
  ASSUME IInv, NEW r \in Runs, NEW d \in Data, Emit(r, d)
  PROVE  IInv'
  <1> USE DEF IInv, TypeParts
  <1>1. UNCHANGED <<status, reason, acked, endAck, receipt, abandoned, started, worker, rejected, loss,
            batch, reply, stray, credential, running, unhealthy, sess, up, ending, binding,
            mishaps, dStatus, dReason, dLog>>
    BY DEF Emit, Stored, Elsewhere, GoOn, Send, Frame, spool, work, stream, process, session,
      store
  <1>2. /\ emitted \in [Runs -> Seq(Data)]
        /\ held \in [Runs -> SUBSET Nat]
        /\ at \in [Runs -> {"idle", "opening", "drain", "sending", "settle", "ending"}]
        /\ live \in [Runs -> BOOLEAN]
        /\ wire \in [Runs -> {"idle", "sent", "ok", "refused", "denied", "failed"}]
        /\ msg \in [Runs -> Message]
        /\ acked \in [Runs -> Nat]
        /\ dLog \in [Runs -> Seq(Data)]
    BY DEF SpoolTypes, WorkTypes, StreamTypes, StoreTypes
  <1>3. /\ status[r] = "open" /\ ~ endAck[r] /\ wire[r] = "idle" /\ worker[r] = "pump" /\ at[r] = "drain"
    BY DEF Emit, WorkInv, Finished
  <1>4. Last(r) \in Nat /\ acked[r] \in Nat /\ acked[r] <= Last(r)
    BY <1>2 DEF Last, AckedInv, PrefixInv
  <1>5. emitted' = [emitted EXCEPT ![r] = Append(emitted[r], d)]
    BY DEF Emit, Stored
  <1>6. /\ emitted' \in [Runs -> Seq(Data)]
        /\ Len(emitted'[r]) = Last(r) + 1 /\ emitted'[r][Last(r) + 1] = d
        /\ \A i \in 1 .. Last(r) : emitted'[r][i] = emitted[r][i]
        /\ \A s \in Runs : s # r => emitted'[s] = emitted[s]
    BY <1>2, <1>5 DEF Last
  <1>7. /\ held' = [held EXCEPT ![r] = held[r] \cup {Last(r) + 1}]
        /\ UNCHANGED <<status, reason, acked, endAck, receipt, abandoned>>
    BY DEF Emit, Stored, Last
  <1>8. \/ /\ wire' = [wire EXCEPT ![r] = "sent"] /\ msg' = [msg EXCEPT ![r] = Frame(Last(r) + 1, d)]
           /\ at' = [at EXCEPT ![r] = "sending"]
        \/ UNCHANGED <<wire, msg>> /\ at' = [at EXCEPT ![r] = "drain"]
    BY DEF Emit, Send, GoOn, stream, Last
  <1>9. /\ Frame(Last(r) + 1, d) \in Message /\ Frame(Last(r) + 1, d).kind = "frame"
        /\ Frame(Last(r) + 1, d).seq = Last(r) + 1 /\ Frame(Last(r) + 1, d).data = d
    BY <1>4, OutputAssumption DEF Frame, Message, Finished, Reasons
  <1>10. \A s \in Runs : Len(emitted[s]) \in Nat /\ Len(dLog[s]) \in Nat
    BY DEF SpoolTypes, StoreTypes
  <1>11. SpoolTypes'
    BY <1>1, <1>2, <1>3, <1>4, <1>5, <1>6, <1>7, <1>8, <1>9, <1>10 DEF SpoolTypes
  <1>12. WorkTypes'
    BY ZenonT(60), <1>1, <1>2, <1>3, <1>4, <1>5, <1>6, <1>7, <1>8, <1>9, <1>10 DEF Emit, Stored, Elsewhere,
      GoOn, Send, Frame, WorkTypes
  <1>13. StreamTypes'
    <2>1. CASE UNCHANGED <<wire, msg>>
      BY <1>1, <2>1, StreamTypesUnchanged
    <2>2. CASE wire' = [wire EXCEPT ![r] = "sent"] /\ msg' = [msg EXCEPT ![r] = Frame(Last(r) + 1, d)]
      BY <1>1, <1>2, <1>9, <2>2 DEF StreamTypes
    <2> QED
      BY <1>8, <2>1, <2>2
  <1>14. HeldInv'
    <2> SUFFICES ASSUME NEW s \in Runs
                 PROVE  held'[s] = IF endAck[s] THEN {} ELSE (acked[s] + 1) .. Len(emitted'[s])
      BY <1>7 DEF HeldInv, Last
    <2>1. CASE s # r
      BY <1>2, <1>6, <1>7, <2>1 DEF HeldInv, Last
    <2>2. CASE s = r
      <3>1. held[r] = (acked[r] + 1) .. Last(r)
        BY <1>3 DEF HeldInv
      <3>2. held[r] \cup {Last(r) + 1} = (acked[r] + 1) .. (Last(r) + 1)
        BY <1>4, <3>1
      <3> QED
        BY <1>2, <1>3, <1>6, <1>7, <2>2, <3>2
    <2> QED
      BY <2>1, <2>2
  <1>15. PrefixInv'
    <2> SUFFICES ASSUME NEW s \in Runs
                 PROVE  /\ Len(dLog[s]) <= Len(emitted'[s])
                        /\ \A i \in 1 .. Len(dLog[s]) : dLog[s][i] = emitted'[s][i]
      BY <1>1 DEF PrefixInv, Last
    <2>1. /\ Len(dLog[s]) <= Last(s)
          /\ \A i \in 1 .. Len(dLog[s]) : dLog[s][i] = emitted[s][i]
      BY DEF PrefixInv
    <2>2. CASE s # r
      BY <1>6, <2>1, <2>2 DEF Last
    <2>3. CASE s = r
      BY <1>4, <1>6, <1>10, <2>1, <2>3
    <2> QED
      BY <2>2, <2>3
  <1>16. AbsentInv'
    BY <1>1, <1>2, <1>3, <1>4, <1>5, <1>6, <1>7, <1>8, <1>9, <1>10 DEF AbsentInv
  <1>17. WorkInv'
    BY <1>1, <1>2, <1>3, <1>4, <1>5, <1>6, <1>7, <1>8, <1>9, <1>10 DEF WorkInv, Finished
  <1>18. BatchInv'
    BY <1>1, <1>2, <1>3, <1>4, <1>5, <1>6, <1>7, <1>8, <1>9, <1>10 DEF BatchInv, Last
  <1>19. MsgInv'
    BY <1>1, <1>2, <1>3, <1>4, <1>5, <1>6, <1>7, <1>8, <1>9, <1>10 DEF MsgInv, Right, Last,
      Finished
  <1>20. DeniedInv'
    BY <1>1, <1>2, <1>3, <1>4, <1>5, <1>6, <1>7, <1>8, <1>9, <1>10 DEF DeniedInv, Enrolled
  <1>21. FinalInv'
    BY <1>1, <1>2, <1>3, <1>4, <1>5, <1>6, <1>7, <1>8, <1>9, <1>10 DEF FinalInv, Enrolled, Last,
      Finished
  <1>22. EndsAgree'
    BY <1>1, <1>3, <1>6, <1>7 DEF EndsAgree
  <1> QED
    BY <1>1, <1>11, <1>12, <1>13, <1>14, <1>15, <1>16, <1>17, <1>18, <1>19, <1>20, <1>21, <1>22,
      WorldTypesUnchanged, StoreTypesUnchanged, AckedInvUnchanged, LetGoInvUnchanged,
      ReplyInvUnchanged, SessInvUnchanged

\* A loss changes neither log.
LEMMA EmitLostKeeps ==
  ASSUME IInv, NEW r \in Runs, NEW d \in Data, EmitLost(r, d)
  PROVE  IInv'
  <1> USE DEF IInv, TypeParts
  <1>1. UNCHANGED <<status, reason, emitted, held, acked, endAck, receipt, abandoned, started, worker,
            rejected, batch, wire, msg, reply, stray, credential, running, sess, up, ending,
            binding, dStatus, dReason, dLog>>
    BY DEF EmitLost, GoOn, Mishap, spool, work, stream, process, session, store
  <1>2. /\ loss \in [Runs -> Reasons]
        /\ unhealthy \in BOOLEAN
        /\ at \in [Runs -> {"idle", "opening", "drain", "sending", "settle", "ending"}]
        /\ live \in [Runs -> BOOLEAN]
        /\ mishaps \in Nat
    BY DEF WorkTypes, WorldTypes
  <1>3. AppendResult(r, d) \in Reasons
    BY DEF AppendResult, Reasons, QuotaReasons
  <1>4. loss' \in [Runs -> Reasons]
    BY <1>2, <1>3 DEF EmitLost, Reasons
  <1>5. /\ worker[r] = "pump" /\ at[r] = "drain" /\ at' = [at EXCEPT ![r] = "drain"]
        /\ live' = [live EXCEPT ![r] = live[r] /\ FALSE] /\ UNCHANGED <<started, worker, batch, rejected>>
        /\ (mishaps' = mishaps \/ mishaps' = mishaps + 1) /\ unhealthy' \in BOOLEAN
    BY <1>2 DEF EmitLost, GoOn, Mishap
  <1>6. WorkTypes'
    BY <1>1, <1>2, <1>3, <1>4, <1>5 DEF WorkTypes
  <1>7. WorldTypes'
    BY <1>1, <1>2, <1>3, <1>4, <1>5 DEF WorldTypes
  <1>8. WorkInv'
    BY <1>1, <1>2, <1>3, <1>4, <1>5 DEF WorkInv, Finished
  <1> QED
    BY <1>1, <1>6, <1>7, <1>8, SpoolTypesUnchanged, StreamTypesUnchanged, StoreTypesUnchanged,
      HeldInvUnchanged, PrefixInvUnchanged, AckedInvUnchanged, AbsentInvUnchanged,
      LetGoInvUnchanged, BatchInvUnchanged, MsgInvUnchanged, ReplyInvUnchanged,
      DeniedInvUnchanged, SessInvUnchanged, FinalInvUnchanged, EndsAgreeUnchanged

\* Cancelling stops delivery only.
LEMMA CancelKeeps ==
  ASSUME IInv, NEW r \in Runs, Cancel(r)
  PROVE  IInv'
  <1> USE DEF IInv, TypeParts
  <1>1. UNCHANGED <<status, reason, emitted, held, acked, endAck, receipt, abandoned, started, worker, at,
            rejected, loss, batch, wire, msg, reply, stray, credential, running, unhealthy, sess,
            up, ending, binding, mishaps, dStatus, dReason, dLog>>
    BY DEF Cancel, Elsewhere, spool, work, stream, process, session, store
  <1>2. /\ live \in [Runs -> BOOLEAN]
    BY DEF WorkTypes
  <1>3. WorkTypes'
    BY <1>1, <1>2 DEF Cancel, Elsewhere, WorkTypes
  <1> QED
    BY <1>1, <1>3, SpoolTypesUnchanged, StreamTypesUnchanged, WorldTypesUnchanged,
      StoreTypesUnchanged, HeldInvUnchanged, PrefixInvUnchanged, AckedInvUnchanged,
      AbsentInvUnchanged, LetGoInvUnchanged, WorkInvUnchanged, BatchInvUnchanged, MsgInvUnchanged,
      ReplyInvUnchanged, DeniedInvUnchanged, SessInvUnchanged, FinalInvUnchanged,
      EndsAgreeUnchanged

\* The end counts what was written, and is sent as recorded.
LEMMA PumpFinishKeeps ==
  ASSUME IInv, NEW r \in Runs, NEW incomplete \in BOOLEAN, PumpFinish(r, incomplete)
  PROVE  IInv'
  <1> USE DEF IInv, TypeParts
  <1>1. UNCHANGED <<emitted, held, acked, endAck, receipt, abandoned, started, loss, reply, stray,
            credential, running, unhealthy, sess, up, ending, binding, mishaps, dStatus, dReason,
            dLog>>
    BY DEF PumpFinish, FinishRun, Elsewhere, GoOn, Send, Leave, spool, work, stream, process,
      session, store
  <1>2. /\ status \in [Runs -> {"absent", "open", "complete", "truncated"}]
        /\ reason \in [Runs -> Reasons]
        /\ worker \in [Runs -> {"none", "pump", "retry"}]
        /\ at \in [Runs -> {"idle", "opening", "drain", "sending", "settle", "ending"}]
        /\ live \in [Runs -> BOOLEAN]
        /\ rejected \in [Runs -> BOOLEAN]
        /\ batch \in [Runs -> SUBSET Nat]
        /\ wire \in [Runs -> {"idle", "sent", "ok", "refused", "denied", "failed"}]
        /\ msg \in [Runs -> Message]
    BY DEF SpoolTypes, WorkTypes, StreamTypes
  <1>3. /\ status[r] = "open" /\ ~ endAck[r] /\ wire[r] = "idle" /\ worker[r] = "pump" /\ at[r] = "drain"
    BY DEF PumpFinish, WorkInv, Finished
  <1>4. reply \in [Runs -> Receipt] /\ loss \in [Runs -> Reasons] /\ emitted \in [Runs -> Seq(Data)]
    BY DEF StreamTypes, WorkTypes, SpoolTypes
  <1>5. PICK w \in Reasons :
          LET v == IF w = "" THEN "complete" ELSE "truncated"
          IN  /\ status' = [status EXCEPT ![r] = v] /\ reason' = [reason EXCEPT ![r] = w]
              /\ \/ wire' = wire /\ msg' = msg /\ worker' = worker /\ at' = [at EXCEPT ![r] = "settle"]
                 \/ /\ wire' = [wire EXCEPT ![r] = "sent"]
                    /\ msg' = [msg EXCEPT ![r] = [kind |-> "end", seq |-> Last(r), data |-> 0,
                                                 reason |-> w, status |-> v]]
                    /\ worker' = worker /\ at' = [at EXCEPT ![r] = "ending"]
                 \/ /\ wire' = wire /\ msg' = msg /\ worker' = [worker EXCEPT ![r] = "none"]
                    /\ at' = [at EXCEPT ![r] = "idle"]
    <2> DEFINE why == IF loss[r] # "" THEN loss[r]
                      ELSE IF rejected[r] THEN reply[r].reason
                      ELSE IF incomplete THEN "producer_failed" ELSE ""
    <2>1. why \in Reasons
      BY <1>4 DEF Receipt, Reasons
    <2> QED
      BY <2>1 DEF PumpFinish, FinishRun, GoOn, Send, Leave, stream, Last
  <1>6. PICK v \in Finished :
          /\ status' = [status EXCEPT ![r] = v] /\ reason' = [reason EXCEPT ![r] = w]
          /\ \/ wire' = wire /\ msg' = msg /\ worker' = worker /\ at' = [at EXCEPT ![r] = "settle"]
             \/ /\ wire' = [wire EXCEPT ![r] = "sent"]
                /\ msg' = [msg EXCEPT ![r] = [kind |-> "end", seq |-> Last(r), data |-> 0,
                                             reason |-> w, status |-> v]]
                /\ worker' = worker /\ at' = [at EXCEPT ![r] = "ending"]
             \/ /\ wire' = wire /\ msg' = msg /\ worker' = [worker EXCEPT ![r] = "none"]
                /\ at' = [at EXCEPT ![r] = "idle"]
    BY <1>5 DEF Finished
  <1>7. Last(r) \in Nat
    BY <1>4 DEF Last
  <1>8. [kind |-> "end", seq |-> Last(r), data |-> 0, reason |-> w, status |-> v] \in Message
    BY <1>7 DEF Message
  <1>9. SpoolTypes'
    BY <1>1, <1>2, <1>6 DEF SpoolTypes, Finished
  <1>10. WorkTypes'
    BY <1>1, <1>2, <1>3, <1>4, <1>5, <1>6, <1>7, <1>8 DEF PumpFinish, FinishRun, Elsewhere, GoOn,
      Send, Leave, WorkTypes
  <1>11. StreamTypes'
    BY <1>1, <1>2, <1>6, <1>8 DEF StreamTypes
  <1>12. AbsentInv'
    BY <1>1, <1>2, <1>3, <1>6, <1>7 DEF AbsentInv, Finished
  <1>13. LetGoInv'
    BY <1>1, <1>2, <1>3, <1>6, <1>7 DEF LetGoInv, Enrolled, Finished
  <1>14. WorkInv'
    BY <1>1, <1>2, <1>3, <1>6, <1>7 DEF WorkInv, Finished
  <1>15. BatchInv'
    BY <1>1, <1>2, <1>3, <1>4, <1>5, <1>6, <1>7, <1>8 DEF PumpFinish, FinishRun, Elsewhere, GoOn,
      Send, Leave, BatchInv, Last
  <1>16. MsgInv'
    BY <1>1, <1>2, <1>3, <1>6, <1>7 DEF MsgInv, Right, Last, Finished
  <1>17. DeniedInv'
    BY <1>1, <1>2, <1>3, <1>6, <1>7 DEF DeniedInv, Enrolled
  <1>18. FinalInv'
    BY <1>1, <1>2, <1>3, <1>6, <1>7 DEF FinalInv, Enrolled, Last, Finished
  <1>19. EndsAgree'
    BY <1>1, <1>2, <1>3, <1>6, <1>7 DEF EndsAgree
  <1> QED
    BY <1>1, <1>9, <1>10, <1>11, <1>12, <1>13, <1>14, <1>15, <1>16, <1>17, <1>18, <1>19,
      WorldTypesUnchanged, StoreTypesUnchanged, HeldInvUnchanged, PrefixInvUnchanged,
      AckedInvUnchanged, ReplyInvUnchanged, SessInvUnchanged

\* A pump that cannot record the end leaves the output open.
LEMMA PumpFinishFailsKeeps ==
  ASSUME IInv, NEW r \in Runs, PumpFinishFails(r)
  PROVE  IInv'
  <1> USE DEF IInv, TypeParts
  <1>1. UNCHANGED <<status, reason, emitted, held, acked, endAck, receipt, abandoned, started, loss, wire,
            msg, reply, stray, credential, running, sess, up, ending, binding, dStatus, dReason,
            dLog>>
    BY DEF PumpFinishFails, Mishap, Leave, spool, work, stream, process, session, store
  <1>2. /\ worker \in [Runs -> {"none", "pump", "retry"}]
        /\ at \in [Runs -> {"idle", "opening", "drain", "sending", "settle", "ending"}]
        /\ live \in [Runs -> BOOLEAN]
        /\ rejected \in [Runs -> BOOLEAN]
        /\ batch \in [Runs -> SUBSET Nat]
        /\ unhealthy \in BOOLEAN
        /\ mishaps \in Nat
    BY DEF WorkTypes, WorldTypes
  <1>3. wire[r] = "idle"
    BY DEF PumpFinishFails, WorkInv
  <1>4. WorkTypes'
    BY <1>1, <1>2, <1>3 DEF PumpFinishFails, Mishap, Leave, WorkTypes
  <1>5. WorldTypes'
    BY <1>1, <1>2, <1>3 DEF PumpFinishFails, Mishap, Leave, WorldTypes
  <1>6. WorkInv'
    BY <1>1, <1>2, <1>3 DEF PumpFinishFails, Mishap, Leave, WorkInv, Finished
  <1>7. BatchInv'
    BY <1>1, <1>2, <1>3 DEF PumpFinishFails, Mishap, Leave, BatchInv, Last
  <1> QED
    BY <1>1, <1>4, <1>5, <1>6, <1>7, SpoolTypesUnchanged, StreamTypesUnchanged, StoreTypesUnchanged,
      HeldInvUnchanged, PrefixInvUnchanged, AckedInvUnchanged, AbsentInvUnchanged,
      LetGoInvUnchanged, MsgInvUnchanged, ReplyInvUnchanged, DeniedInvUnchanged, SessInvUnchanged,
      FinalInvUnchanged, EndsAgreeUnchanged

\* The quota receipt is accepted after the end.
LEMMA PumpSettleKeeps ==
  ASSUME IInv, NEW r \in Runs, PumpSettle(r)
  PROVE  IInv'
  <1> USE DEF IInv, TypeParts
  <1>1. UNCHANGED <<status, reason, emitted, abandoned, started, loss, wire, msg, reply, stray,
            credential, running, unhealthy, sess, up, ending, binding, dStatus, dReason, dLog>>
    BY DEF PumpSettle, Leave, Elsewhere, acknowledgeOutput, AcceptTruncation, ReleaseAll,
      Acknowledge, Mishap, spool, work, stream, process, session, store
  <1>2. /\ worker \in [Runs -> {"none", "pump", "retry"}]
        /\ at \in [Runs -> {"idle", "opening", "drain", "sending", "settle", "ending"}]
        /\ live \in [Runs -> BOOLEAN]
        /\ rejected \in [Runs -> BOOLEAN]
        /\ batch \in [Runs -> SUBSET Nat]
        /\ mishaps \in Nat
        /\ held \in [Runs -> SUBSET Nat]
        /\ acked \in [Runs -> Nat]
        /\ endAck \in [Runs -> BOOLEAN]
        /\ receipt \in [Runs -> BOOLEAN]
    BY DEF WorkTypes, WorldTypes, SpoolTypes
  <1>3. ~ endAck[r] /\ wire[r] = "idle"
    BY DEF PumpSettle, WorkInv
  <1>4. /\ SpoolTypes' /\ HeldInv' /\ AckedInv' /\ LetGoInv' /\ EndsAgree'
        /\ \A s \in Runs : s # r => endAck'[s] = endAck[s]
    <2>1. CASE UNCHANGED spool
      BY <1>1, <2>1, SpoolTypesUnchanged, HeldInvUnchanged, AckedInvUnchanged, LetGoInvUnchanged,
         EndsAgreeUnchanged DEF spool
    <2>2. CASE \E ok \in BOOLEAN : acknowledgeOutput(r, ok)
      BY <1>1, <1>3, <2>2, AckHasEffect, AckKeeps
    <2> QED
      BY <2>1, <2>2 DEF PumpSettle
  <1>5. worker' = [worker EXCEPT ![r] = "none"]
    BY DEF PumpSettle, Leave
  <1>6. at' = [at EXCEPT ![r] = "idle"]
    BY DEF PumpSettle, Leave
  <1>7. SpoolTypes'
    BY <1>4
  <1>8. WorkTypes'
    BY <1>1, <1>2, <1>3, <1>4, <1>5, <1>6 DEF PumpSettle, Leave, Elsewhere, WorkTypes
  <1>9. WorldTypes'
    BY <1>1, <1>2 DEF PumpSettle, acknowledgeOutput, Mishap, WorldTypes
  <1>10. HeldInv'
    BY <1>4
  <1>11. AckedInv'
    BY <1>4
  <1>12. LetGoInv'
    BY <1>4
  <1>13. WorkInv'
    BY <1>1, <1>2, <1>3, <1>4, <1>5, <1>6 DEF WorkInv, Finished
  <1>14. BatchInv'
    BY <1>1, <1>2, <1>3, <1>4, <1>5, <1>6 DEF PumpSettle, Leave, Elsewhere, BatchInv, Last
  <1>15. EndsAgree'
    BY <1>4
  <1> QED
    BY <1>1, <1>7, <1>8, <1>9, <1>10, <1>11, <1>12, <1>13, <1>14, <1>15, StreamTypesUnchanged,
      StoreTypesUnchanged, PrefixInvUnchanged, AbsentInvUnchanged, MsgInvUnchanged,
      ReplyInvUnchanged, DeniedInvUnchanged, SessInvUnchanged, FinalInvUnchanged

\* The answer to an end is the last thing a pump hears.
LEMMA PumpEndsKeeps ==
  ASSUME IInv, NEW r \in Runs, PumpEnds(r)
  PROVE  IInv'
  <1> USE DEF IInv, TypeParts
  <1>1. UNCHANGED <<status, reason, emitted, abandoned, started, loss, msg, reply, stray, credential,
            running, unhealthy, sess, up, ending, binding, dStatus, dReason, dLog>>
    BY DEF PumpEnds, Leave, Elsewhere, Heard, acknowledgeOutput, AcceptTruncation, ReleaseAll,
      Acknowledge, Mishap, spool, work, stream, process, session, store
  <1>2. /\ worker \in [Runs -> {"none", "pump", "retry"}]
        /\ at \in [Runs -> {"idle", "opening", "drain", "sending", "settle", "ending"}]
        /\ live \in [Runs -> BOOLEAN]
        /\ rejected \in [Runs -> BOOLEAN]
        /\ batch \in [Runs -> SUBSET Nat]
        /\ wire \in [Runs -> {"idle", "sent", "ok", "refused", "denied", "failed"}]
        /\ mishaps \in Nat
        /\ held \in [Runs -> SUBSET Nat]
        /\ acked \in [Runs -> Nat]
        /\ endAck \in [Runs -> BOOLEAN]
        /\ receipt \in [Runs -> BOOLEAN]
    BY DEF WorkTypes, StreamTypes, WorldTypes, SpoolTypes
  <1>3. ~ endAck[r]
    BY DEF PumpEnds, WorkInv
  <1>4. /\ SpoolTypes' /\ HeldInv' /\ AckedInv' /\ LetGoInv' /\ EndsAgree'
        /\ \A s \in Runs : s # r => endAck'[s] = endAck[s]
    <2>1. CASE UNCHANGED spool
      BY <1>1, <2>1, SpoolTypesUnchanged, HeldInvUnchanged, AckedInvUnchanged, LetGoInvUnchanged,
         EndsAgreeUnchanged DEF spool
    <2>2. CASE \E ok \in BOOLEAN : acknowledgeOutput(r, ok)
      BY <1>1, <1>3, <2>2, AckHasEffect, AckKeeps
    <2> QED
      BY <2>1, <2>2 DEF PumpEnds
  <1>5. worker' = [worker EXCEPT ![r] = "none"] /\ wire' = [wire EXCEPT ![r] = "idle"]
    BY DEF PumpEnds, Leave, Heard
  <1>6. at' = [at EXCEPT ![r] = "idle"]
    BY DEF PumpEnds, Leave
  <1>7. SpoolTypes'
    BY <1>4
  <1>8. WorkTypes'
    BY <1>1, <1>2, <1>3, <1>4, <1>5, <1>6 DEF PumpEnds, Leave, Elsewhere, Heard, WorkTypes
  <1>9. StreamTypes'
    BY <1>1, <1>2, <1>3, <1>4, <1>5, <1>6 DEF PumpEnds, Leave, Elsewhere, Heard, StreamTypes
  <1>10. WorldTypes'
    BY <1>1, <1>2 DEF PumpEnds, acknowledgeOutput, Mishap, WorldTypes
  <1>11. HeldInv'
    BY <1>4
  <1>12. AckedInv'
    BY <1>4
  <1>13. LetGoInv'
    BY <1>4
  <1>14. WorkInv'
    BY <1>1, <1>2, <1>3, <1>4, <1>5, <1>6 DEF WorkInv, Finished
  <1>15. BatchInv'
    BY <1>1, <1>2, <1>3, <1>4, <1>5, <1>6 DEF PumpEnds, Leave, Elsewhere, Heard, BatchInv, Last
  <1>16. MsgInv'
    BY <1>1, <1>2, <1>3, <1>4, <1>5, <1>6 DEF MsgInv, Right, Last, Finished
  <1>17. DeniedInv'
    BY <1>1, <1>2, <1>3, <1>4, <1>5, <1>6 DEF DeniedInv, Enrolled
  <1>18. EndsAgree'
    BY <1>4
  <1> QED
    BY <1>1, <1>7, <1>8, <1>9, <1>10, <1>11, <1>12, <1>13, <1>14, <1>15, <1>16, <1>17, <1>18,
      StoreTypesUnchanged, PrefixInvUnchanged, AbsentInvUnchanged, ReplyInvUnchanged,
      SessInvUnchanged, FinalInvUnchanged

\* A pass starts on a finished output, or gives it up without a certificate.
LEMMA RetryStartKeeps ==
  ASSUME IInv, NEW r \in Runs, RetryStart(r)
  PROVE  IInv'
  <1> USE DEF IInv, TypeParts
  <1>1. UNCHANGED <<status, reason, emitted, acked, receipt, started, live, rejected, loss, batch, reply,
            stray, credential, running, unhealthy, sess, up, ending, binding, mishaps, dStatus,
            dReason, dLog>>
    BY DEF RetryStart, Elsewhere, Abandon, ReleaseAll, Send, Ident, spool, work, stream, process,
      session, store
  <1>2. /\ worker \in [Runs -> {"none", "pump", "retry"}]
        /\ at \in [Runs -> {"idle", "opening", "drain", "sending", "settle", "ending"}]
        /\ wire \in [Runs -> {"idle", "sent", "ok", "refused", "denied", "failed"}]
        /\ msg \in [Runs -> Message]
        /\ held \in [Runs -> SUBSET Nat]
        /\ endAck \in [Runs -> BOOLEAN]
        /\ abandoned \in [Runs -> BOOLEAN]
    BY DEF WorkTypes, StreamTypes, SpoolTypes
  <1>3. status[r] \in Finished /\ ~ endAck[r] /\ worker[r] = "none" /\ wire[r] = "idle" /\ running
    BY DEF RetryStart, WorkInv
  <1>4. Ident \in Message /\ Ident.kind = "ident"
    BY DEF Ident, Message, Finished, Reasons
  <1>5. \/ /\ SpoolTypes' /\ HeldInv' /\ LetGoInv' /\ EndsAgree' /\ UNCHANGED <<worker, at, wire, msg>>
           /\ endAck' = [endAck EXCEPT ![r] = TRUE]
        \/ /\ UNCHANGED <<held, endAck, abandoned>> /\ worker' = [worker EXCEPT ![r] = "retry"]
           /\ at' = [at EXCEPT ![r] = "opening"] /\ wire' = [wire EXCEPT ![r] = "sent"]
           /\ msg' = [msg EXCEPT ![r] = Ident]
    <2>1. CASE Plaintext /\ binding[r] # sess
      BY <1>1, <1>3, <2>1, AbandonKeeps DEF RetryStart, Plaintext, Enrolled, work, stream
    <2>2. CASE ~ (Plaintext /\ binding[r] # sess)
      BY <2>2 DEF RetryStart, Send, spool
    <2> QED
      BY <2>1, <2>2
  <1>6. SpoolTypes'
    BY <1>1, <1>5, SpoolTypesUnchanged
  <1>7. WorkTypes'
    BY <1>1, <1>2, <1>3, <1>4, <1>5 DEF WorkTypes
  <1>8. StreamTypes'
    BY <1>1, <1>2, <1>3, <1>4, <1>5 DEF StreamTypes
  <1>9. HeldInv'
    BY <1>1, <1>5, HeldInvUnchanged
  <1>10. LetGoInv'
    BY <1>1, <1>5, LetGoInvUnchanged
  <1>11. WorkInv'
    BY <1>1, <1>2, <1>3, <1>4, <1>5 DEF WorkInv, Finished
  <1>12. MsgInv'
    BY <1>1, <1>2, <1>3, <1>4, <1>5 DEF MsgInv, Right, Last, Finished
  <1>13. DeniedInv'
    BY <1>1, <1>2, <1>3, <1>4, <1>5 DEF DeniedInv, Enrolled
  <1>14. EndsAgree'
    BY <1>1, <1>5, EndsAgreeUnchanged
  <1> QED
    BY <1>1, <1>6, <1>7, <1>8, <1>9, <1>10, <1>11, <1>12, <1>13, <1>14, WorldTypesUnchanged,
      StoreTypesUnchanged, PrefixInvUnchanged, AckedInvUnchanged, AbsentInvUnchanged,
      BatchInvUnchanged, ReplyInvUnchanged, SessInvUnchanged, FinalInvUnchanged

\* A pass releases what is committed and sends a frame that is held, or the end.
LEMMA RetryHearsKeeps ==
  ASSUME IInv, NEW r \in Runs, RetryHears(r)
  PROVE  IInv'
  <1> USE DEF IInv, TypeParts
  <1>1. UNCHANGED <<status, reason, emitted, abandoned, started, loss, reply, stray, credential, running,
            unhealthy, sess, up, ending, binding, dStatus, dReason, dLog>>
    BY DEF RetryHears, Elsewhere, RetryNext, Send, Frame, Heard, Leave, acknowledgeOutput,
      AcceptTruncation, ReleaseAll, Acknowledge, Mishap, spool, work, stream, process, session,
      store
  <1>2. /\ worker \in [Runs -> {"none", "pump", "retry"}]
        /\ at \in [Runs -> {"idle", "opening", "drain", "sending", "settle", "ending"}]
        /\ live \in [Runs -> BOOLEAN]
        /\ rejected \in [Runs -> BOOLEAN]
        /\ batch \in [Runs -> SUBSET Nat]
        /\ wire \in [Runs -> {"idle", "sent", "ok", "refused", "denied", "failed"}]
        /\ msg \in [Runs -> Message]
        /\ mishaps \in Nat
        /\ held \in [Runs -> SUBSET Nat]
        /\ acked \in [Runs -> Nat]
        /\ endAck \in [Runs -> BOOLEAN]
        /\ receipt \in [Runs -> BOOLEAN]
        /\ emitted \in [Runs -> Seq(Data)]
    BY DEF WorkTypes, StreamTypes, WorldTypes, SpoolTypes
  <1>3. ~ endAck[r] /\ status[r] \in Finished /\ worker[r] = "retry" /\ wire[r] = "ok" /\ running
    BY DEF RetryHears, WorkInv
  <1>4. PICK ok \in BOOLEAN :
          /\ acknowledgeOutput(r, ok)
          /\ IF ok /\ ~ Final(reply[r])
             THEN RetryNext(r, IF at[r] = "opening" THEN Frames(r) ELSE batch[r])
             ELSE Heard(r) /\ Leave(r)
    BY DEF RetryHears
  <1>5. /\ SpoolTypes' /\ HeldInv' /\ AckedInv' /\ LetGoInv' /\ EndsAgree'
        /\ \A s \in Runs : s # r => endAck'[s] = endAck[s]
        /\ ok /\ ~ Final(reply[r]) => endAck' = endAck
    BY <1>1, <1>3, <1>4, AckHasEffect, AckKeeps
  <1>6. \A S \in {Frames(r), batch[r]} : S \subseteq 1 .. Last(r)
    <2>1. Last(r) \in Nat /\ acked[r] \in Nat
      BY <1>2 DEF Last
    <2>2. held[r] \subseteq 1 .. Last(r)
      BY <1>3, <2>1 DEF HeldInv
    <2> QED
      BY <2>2 DEF Frames, BatchInv
  <1> DEFINE Moved ==
        /\ WorkTypes' /\ UNCHANGED <<reply, stray>>
        /\ \A s \in Runs \ {r} : wire'[s] = wire[s] /\ msg'[s] = msg[s]
        /\ \/ /\ endAck' = endAck /\ worker' = worker /\ wire'[r] = "sent" /\ Right(r, msg'[r])
              /\ msg'[r] \in Message /\ batch'[r] \subseteq batch[r] \cup Frames(r)
              /\ at'[r] \in {"sending", "ending"}
           \/ /\ worker'[r] = "none" /\ wire'[r] = "idle" /\ msg' = msg /\ batch'[r] = {} /\ at'[r] = "idle"
  <1>7. Moved
    <2>1. CASE Heard(r) /\ Leave(r)
      BY <1>1, <1>2, <2>1 DEF Heard, Leave, WorkTypes
    <2>0. \A i \in 1 .. Last(r) : emitted[r][i] \in Nat
      <3>1. emitted[r] \in Seq(Data)
        BY <1>2
      <3>2. \A i \in 1 .. Len(emitted[r]) : emitted[r][i] \in Data
        BY <3>1
      <3> QED
        BY <3>2, OutputAssumption DEF Last
    <2>2. ASSUME NEW todo, todo \subseteq 1 .. Last(r), todo \subseteq batch[r] \cup Frames(r),
                 todo # {}, Send(r, Frame(Min(todo), emitted[r][Min(todo)])),
                 batch' = [batch EXCEPT ![r] = todo \ {Min(todo)}],
                 at' = [at EXCEPT ![r] = "sending"], UNCHANGED <<worker, live, rejected>>, endAck' = endAck
          PROVE  Moved
      <3>1. Min(todo) \in 1 .. Last(r) /\ Min(todo) \in Nat
        BY <2>2, MinIsMember
      <3>2. emitted[r][Min(todo)] \in Nat
        BY <3>1, <2>0
      <3> DEFINE m == Frame(Min(todo), emitted[r][Min(todo)])
      <3>3. m \in Message /\ Right(r, m)
        BY <3>1, <3>2 DEF Frame, Message, Right, Finished, Reasons
      <3>4. wire' = [wire EXCEPT ![r] = "sent"] /\ msg' = [msg EXCEPT ![r] = m]
        BY <2>2 DEF Send
      <3>5. UNCHANGED <<reply, stray>>
        BY <2>2 DEF Send
      <3>6. WorkTypes'
        <4>1. todo \ {Min(todo)} \subseteq Nat
          BY <2>2
        <4> QED
          BY <1>1, <1>2, <2>2, <4>1 DEF WorkTypes
      <3> HIDE DEF m
      <3> QED
        BY <1>2, <2>2, <3>3, <3>4, <3>5, <3>6
    <2>3. ASSUME Send(r, [kind |-> "end", seq |-> Len(emitted[r]), data |-> 0, status |-> status[r],
                          reason |-> reason[r]]),
                 at' = [at EXCEPT ![r] = "ending"], UNCHANGED <<worker, live, rejected, batch>>,
                 endAck' = endAck
          PROVE  Moved
      <3> DEFINE m == [kind |-> "end", seq |-> Len(emitted[r]), data |-> 0, status |-> status[r],
                       reason |-> reason[r]]
      <3>1. m \in Message /\ Right(r, m)
        BY <1>2, <1>3 DEF Message, Right, Last, Finished, SpoolTypes
      <3>2. wire' = [wire EXCEPT ![r] = "sent"] /\ msg' = [msg EXCEPT ![r] = m]
        BY <2>3 DEF Send
      <3>3. UNCHANGED <<reply, stray>>
        BY <2>3 DEF Send
      <3>4. WorkTypes'
        BY <1>1, <1>2, <2>3 DEF WorkTypes
      <3> HIDE DEF m
      <3> QED
        BY <1>2, <2>3, <3>1, <3>2, <3>3, <3>4
    <2>4. CASE ok /\ ~ Final(reply[r])
      <3> DEFINE todo == IF at[r] = "opening" THEN Frames(r) ELSE batch[r]
      <3>1. todo \subseteq 1 .. Last(r) /\ todo \subseteq batch[r] \cup Frames(r)
        BY <1>6
      <3>2. RetryNext(r, todo) /\ endAck' = endAck
        BY <1>4, <1>5, <2>4
      <3> HIDE DEF todo
      <3> QED
        BY <2>1, <2>2, <2>3, <3>1, <3>2 DEF RetryNext
    <2> QED
      BY <1>4, <2>1, <2>4
  <1>8. mishaps' \in Nat
    BY <1>2 DEF RetryHears, acknowledgeOutput, Mishap
  <1>9. /\ wire' \in [Runs -> {"idle", "sent", "ok", "refused", "denied", "failed"}]
        /\ msg' \in [Runs -> Message]
        /\ \A s \in Runs \ {r} : worker'[s] = worker[s] /\ at'[s] = at[s] /\ batch'[s] = batch[s]
    BY ZenonT(60), <1>2, <1>4, <1>7 DEF RetryNext, Heard, Leave, Send
  <1>10. SpoolTypes'
    BY <1>5
  <1>11. WorkTypes'
    BY <1>7
  <1>12. StreamTypes'
    BY <1>1, <1>7, <1>9 DEF StreamTypes
  <1>13. WorldTypes'
    BY <1>1, <1>8 DEF WorldTypes
  <1>14. HeldInv'
    BY <1>5
  <1>15. AckedInv'
    BY <1>5
  <1>16. LetGoInv'
    BY <1>5
  <1>17. WorkInv'
    BY <1>1, <1>2, <1>3, <1>5, <1>6, <1>7, <1>9 DEF WorkInv, Finished
  <1>18. BatchInv'
    BY <1>1, <1>2, <1>3, <1>5, <1>6, <1>7, <1>9 DEF BatchInv, Last
  <1>19. MsgInv'
    <2>1. \A s \in Runs : \A m : Right(s, m) => Right(s, m)'
      BY <1>1 DEF Right, Last
    <2>2. wire'[r] = "sent" => Right(r, msg'[r])
      BY <1>7
    <2>3. \A s \in Runs : wire'[s] = "sent" => Right(s, msg'[s])
      BY <1>7, <2>2 DEF MsgInv
    <2> QED
      BY SMTT(30), <1>7, <2>1, <2>3 DEF MsgInv, Right, Last
  <1>20. DeniedInv'
    BY <1>1, <1>2, <1>3, <1>5, <1>6, <1>7, <1>9 DEF DeniedInv, Enrolled
  <1>21. EndsAgree'
    BY <1>5
  <1> QED
    BY <1>1, <1>10, <1>11, <1>12, <1>13, <1>14, <1>15, <1>16, <1>17, <1>18, <1>19, <1>20, <1>21,
      StoreTypesUnchanged, PrefixInvUnchanged, AbsentInvUnchanged, ReplyInvUnchanged,
      SessInvUnchanged, FinalInvUnchanged

\* The answer to an end is the last thing a pass hears.
LEMMA RetryEndsKeeps ==
  ASSUME IInv, NEW r \in Runs, RetryEnds(r)
  PROVE  IInv'
  <1> USE DEF IInv, TypeParts
  <1>1. UNCHANGED <<status, reason, emitted, abandoned, started, loss, msg, reply, stray, credential,
            running, unhealthy, sess, up, ending, binding, dStatus, dReason, dLog>>
    BY DEF RetryEnds, Heard, Leave, Elsewhere, acknowledgeOutput, AcceptTruncation, ReleaseAll,
      Acknowledge, Mishap, spool, work, stream, process, session, store
  <1>2. /\ worker \in [Runs -> {"none", "pump", "retry"}]
        /\ at \in [Runs -> {"idle", "opening", "drain", "sending", "settle", "ending"}]
        /\ live \in [Runs -> BOOLEAN]
        /\ rejected \in [Runs -> BOOLEAN]
        /\ batch \in [Runs -> SUBSET Nat]
        /\ wire \in [Runs -> {"idle", "sent", "ok", "refused", "denied", "failed"}]
        /\ mishaps \in Nat
        /\ held \in [Runs -> SUBSET Nat]
        /\ acked \in [Runs -> Nat]
        /\ endAck \in [Runs -> BOOLEAN]
        /\ receipt \in [Runs -> BOOLEAN]
    BY DEF WorkTypes, StreamTypes, WorldTypes, SpoolTypes
  <1>3. ~ endAck[r]
    BY DEF RetryEnds, WorkInv
  <1>4. /\ SpoolTypes' /\ HeldInv' /\ AckedInv' /\ LetGoInv' /\ EndsAgree'
        /\ \A s \in Runs : s # r => endAck'[s] = endAck[s]
    <2>1. CASE UNCHANGED spool
      BY <1>1, <2>1, SpoolTypesUnchanged, HeldInvUnchanged, AckedInvUnchanged, LetGoInvUnchanged,
         EndsAgreeUnchanged DEF spool
    <2>2. CASE \E ok \in BOOLEAN : acknowledgeOutput(r, ok)
      BY <1>1, <1>3, <2>2, AckHasEffect, AckKeeps
    <2> QED
      BY <2>1, <2>2 DEF RetryEnds
  <1>5. worker' = [worker EXCEPT ![r] = "none"] /\ wire' = [wire EXCEPT ![r] = "idle"]
    BY DEF RetryEnds, Leave, Heard
  <1>6. at' = [at EXCEPT ![r] = "idle"]
    BY DEF RetryEnds, Leave
  <1>7. SpoolTypes'
    BY <1>4
  <1>8. WorkTypes'
    BY <1>1, <1>2, <1>3, <1>4, <1>5, <1>6 DEF RetryEnds, Heard, Leave, Elsewhere, WorkTypes
  <1>9. StreamTypes'
    BY <1>1, <1>2, <1>3, <1>4, <1>5, <1>6 DEF RetryEnds, Heard, Leave, Elsewhere, StreamTypes
  <1>10. WorldTypes'
    BY <1>1, <1>2 DEF RetryEnds, acknowledgeOutput, Mishap, WorldTypes
  <1>11. HeldInv'
    BY <1>4
  <1>12. AckedInv'
    BY <1>4
  <1>13. LetGoInv'
    BY <1>4
  <1>14. WorkInv'
    BY <1>1, <1>2, <1>3, <1>4, <1>5, <1>6 DEF WorkInv, Finished
  <1>15. BatchInv'
    BY <1>1, <1>2, <1>3, <1>4, <1>5, <1>6 DEF RetryEnds, Heard, Leave, Elsewhere, BatchInv, Last
  <1>16. MsgInv'
    BY <1>1, <1>2, <1>3, <1>4, <1>5, <1>6 DEF MsgInv, Right, Last, Finished
  <1>17. DeniedInv'
    BY <1>1, <1>2, <1>3, <1>4, <1>5, <1>6 DEF DeniedInv, Enrolled
  <1>18. EndsAgree'
    BY <1>4
  <1> QED
    BY <1>1, <1>7, <1>8, <1>9, <1>10, <1>11, <1>12, <1>13, <1>14, <1>15, <1>16, <1>17, <1>18,
      StoreTypesUnchanged, PrefixInvUnchanged, AbsentInvUnchanged, ReplyInvUnchanged,
      SessInvUnchanged, FinalInvUnchanged

\* Only a denied output is given up, and no enrolled executor is denied.
LEMMA RetryStopsKeeps ==
  ASSUME IInv, NEW r \in Runs, RetryStops(r)
  PROVE  IInv'
  <1> USE DEF IInv, TypeParts
  <1>1. UNCHANGED <<status, reason, emitted, acked, receipt, started, loss, msg, reply, stray, credential,
            running, unhealthy, sess, up, ending, binding, mishaps, dStatus, dReason, dLog>>
    BY DEF RetryStops, Abandon, ReleaseAll, Heard, Leave, Elsewhere, spool, work, stream, process,
      session, store
  <1>2. /\ worker \in [Runs -> {"none", "pump", "retry"}]
        /\ at \in [Runs -> {"idle", "opening", "drain", "sending", "settle", "ending"}]
        /\ live \in [Runs -> BOOLEAN]
        /\ rejected \in [Runs -> BOOLEAN]
        /\ batch \in [Runs -> SUBSET Nat]
        /\ wire \in [Runs -> {"idle", "sent", "ok", "refused", "denied", "failed"}]
        /\ held \in [Runs -> SUBSET Nat]
        /\ endAck \in [Runs -> BOOLEAN]
        /\ abandoned \in [Runs -> BOOLEAN]
    BY DEF WorkTypes, StreamTypes, SpoolTypes
  <1>3. status[r] \in Finished /\ ~ endAck[r]
    BY DEF RetryStops, WorkInv
  <1>4. /\ worker' = [worker EXCEPT ![r] = "none"] /\ at' = [at EXCEPT ![r] = "idle"]
        /\ wire' = [wire EXCEPT ![r] = "idle"]
    BY DEF RetryStops, Leave, Heard
  <1>5. /\ SpoolTypes' /\ HeldInv' /\ LetGoInv' /\ EndsAgree'
        /\ \A s \in Runs : s # r => endAck'[s] = endAck[s]
    <2>1. CASE Abandon(r) /\ wire[r] = "denied"
      BY <1>1, <1>2, <1>3, <2>1, AbandonKeeps DEF DeniedInv
    <2>2. CASE UNCHANGED spool
      BY <1>1, <2>2, SpoolTypesUnchanged, HeldInvUnchanged, LetGoInvUnchanged, EndsAgreeUnchanged
         DEF spool
    <2> QED
      BY <2>1, <2>2 DEF RetryStops
  <1>6. SpoolTypes'
    BY <1>5
  <1>7. WorkTypes'
    BY <1>1, <1>2, <1>3, <1>4, <1>5 DEF RetryStops, Abandon, ReleaseAll, Heard, Leave, Elsewhere,
      WorkTypes
  <1>8. StreamTypes'
    BY <1>1, <1>2, <1>3, <1>4, <1>5 DEF RetryStops, Abandon, ReleaseAll, Heard, Leave, Elsewhere,
      StreamTypes
  <1>9. HeldInv'
    BY <1>5
  <1>10. LetGoInv'
    BY <1>5
  <1>11. WorkInv'
    BY <1>1, <1>2, <1>3, <1>4, <1>5 DEF WorkInv, Finished
  <1>12. BatchInv'
    BY <1>1, <1>2, <1>3, <1>4, <1>5 DEF RetryStops, Abandon, ReleaseAll, Heard, Leave, Elsewhere,
      BatchInv, Last
  <1>13. MsgInv'
    BY <1>1, <1>2, <1>3, <1>4, <1>5 DEF MsgInv, Right, Last, Finished
  <1>14. DeniedInv'
    BY <1>1, <1>2, <1>3, <1>4, <1>5 DEF DeniedInv, Enrolled
  <1>15. EndsAgree'
    BY <1>5
  <1> QED
    BY <1>1, <1>6, <1>7, <1>8, <1>9, <1>10, <1>11, <1>12, <1>13, <1>14, <1>15, WorldTypesUnchanged,
      StoreTypesUnchanged, PrefixInvUnchanged, AckedInvUnchanged, AbsentInvUnchanged,
      ReplyInvUnchanged, SessInvUnchanged, FinalInvUnchanged

\* A cut exchange leaves its request as a stray.
LEMMA LoseExchangeKeeps ==
  ASSUME IInv, NEW r \in Runs, LoseExchange(r)
  PROVE  IInv'
  <1> USE DEF IInv, TypeParts
  <1>1. UNCHANGED <<status, reason, emitted, held, acked, endAck, receipt, abandoned, started, worker, at,
            live, rejected, loss, batch, msg, reply, credential, running, unhealthy, sess, up,
            ending, binding, dStatus, dReason, dLog>>
    BY DEF LoseExchange, Mishap, CutOff, Elsewhere, spool, work, stream, process, session, store
  <1>2. /\ wire \in [Runs -> {"idle", "sent", "ok", "refused", "denied", "failed"}]
        /\ stray \in [Runs -> SUBSET Message]
        /\ mishaps \in Nat
    BY DEF StreamTypes, WorldTypes
  <1>3. StreamTypes'
    BY <1>1, <1>2 DEF LoseExchange, Mishap, CutOff, Elsewhere, StreamTypes
  <1>4. WorldTypes'
    BY <1>1, <1>2 DEF LoseExchange, Mishap, CutOff, Elsewhere, WorldTypes
  <1>5. WorkInv'
    BY <1>1, <1>2 DEF LoseExchange, Mishap, CutOff, Elsewhere, WorkInv, Finished
  <1>6. MsgInv'
    BY <1>1, <1>2 DEF LoseExchange, Mishap, CutOff, Elsewhere, MsgInv, Right, Last, Finished
  <1>7. DeniedInv'
    BY <1>1, <1>2 DEF LoseExchange, Mishap, CutOff, Elsewhere, DeniedInv, Enrolled
  <1> QED
    BY <1>1, <1>3, <1>4, <1>5, <1>6, <1>7, SpoolTypesUnchanged, WorkTypesUnchanged,
      StoreTypesUnchanged, HeldInvUnchanged, PrefixInvUnchanged, AckedInvUnchanged,
      AbsentInvUnchanged, LetGoInvUnchanged, BatchInvUnchanged, ReplyInvUnchanged,
      SessInvUnchanged, FinalInvUnchanged, EndsAgreeUnchanged

\* So does one whose context has ended.
LEMMA ContextDoneKeeps ==
  ASSUME IInv, NEW r \in Runs, ContextDone(r)
  PROVE  IInv'
  <1> USE DEF IInv, TypeParts
  <1>1. UNCHANGED <<status, reason, emitted, held, acked, endAck, receipt, abandoned, started, worker, at,
            live, rejected, loss, batch, msg, reply, credential, running, unhealthy, sess, up,
            ending, binding, mishaps, dStatus, dReason, dLog>>
    BY DEF ContextDone, CutOff, Elsewhere, spool, work, stream, process, session, store
  <1>2. /\ wire \in [Runs -> {"idle", "sent", "ok", "refused", "denied", "failed"}]
        /\ stray \in [Runs -> SUBSET Message]
    BY DEF StreamTypes
  <1>3. StreamTypes'
    BY <1>1, <1>2 DEF ContextDone, CutOff, Elsewhere, StreamTypes
  <1>4. WorkInv'
    BY <1>1, <1>2 DEF ContextDone, CutOff, Elsewhere, WorkInv, Finished
  <1>5. MsgInv'
    BY <1>1, <1>2 DEF ContextDone, CutOff, Elsewhere, MsgInv, Right, Last, Finished
  <1>6. DeniedInv'
    BY <1>1, <1>2 DEF ContextDone, CutOff, Elsewhere, DeniedInv, Enrolled
  <1> QED
    BY <1>1, <1>3, <1>4, <1>5, <1>6, SpoolTypesUnchanged, WorkTypesUnchanged, WorldTypesUnchanged,
      StoreTypesUnchanged, HeldInvUnchanged, PrefixInvUnchanged, AckedInvUnchanged,
      AbsentInvUnchanged, LetGoInvUnchanged, BatchInvUnchanged, ReplyInvUnchanged,
      SessInvUnchanged, FinalInvUnchanged, EndsAgreeUnchanged

\* The answer is true of what is stored, and no enrolled executor is denied.
LEMMA ServeKeeps ==
  ASSUME IInv, NEW r \in Runs, Serve(r)
  PROVE  IInv'
  <1> USE DEF IInv, TypeParts
  <1>1. UNCHANGED <<status, reason, emitted, held, acked, endAck, receipt, abandoned, started, worker, at,
            live, rejected, loss, batch, msg, stray, credential, running, unhealthy, sess, up,
            ending, binding>>
    BY DEF Serve, spool, work, process, session
  <1>2. /\ wire \in [Runs -> {"idle", "sent", "ok", "refused", "denied", "failed"}]
        /\ reply \in [Runs -> Receipt]
        /\ mishaps \in Nat
        /\ dStatus \in [Runs -> {"absent", "pending", "complete", "truncated"}]
        /\ dReason \in [Runs -> Reasons]
        /\ dLog \in [Runs -> Seq(Data)]
        /\ msg \in [Runs -> Message]
        /\ worker \in [Runs -> {"none", "pump", "retry"}]
    BY DEF StreamTypes, WorldTypes, StoreTypes, WorkTypes
  <1>3. PICK res \in {"ok", "refused", "denied"} :
          /\ storeOutput(r, msg[r], res) /\ wire' = [wire EXCEPT ![r] = res]
          /\ reply' = [reply EXCEPT ![r] = IF res = "ok" THEN outputReceipt(r)' ELSE reply[r]]
    BY DEF Serve
  <1>4. Right(r, msg[r]) /\ worker[r] # "none" /\ dStatus[r] # "absent"
    BY <1>2 DEF Serve, MsgInv, WorkInv, AbsentInv, Finished
  <1>5. StoreEffect(r)
    BY <1>2, <1>3, <1>4, StoreHasEffect
  <1>6. /\ StoreTypes' /\ PrefixInv' /\ AckedInv' /\ AbsentInv' /\ FinalInv' /\ EndsAgree'
        /\ \A s \in Runs : /\ Len(dLog'[s]) \in Nat /\ Len(dLog[s]) <= Len(dLog'[s])
                           /\ dStatus[s] \in Finished => /\ Len(dLog'[s]) = Len(dLog[s])
                                                         /\ dStatus'[s] = dStatus[s]
                                                         /\ dReason'[s] = dReason[s]
    BY <1>1, <1>5, StoreKeeps
  <1>7. mishaps' \in Nat
    BY <1>2, <1>3 DEF storeOutput, Mishap
  <1>8. res = "denied" => ~ Enrolled
    BY <1>3, <1>4 DEF storeOutput, authorizeOutput, appendOutput, finishOutput
  <1>9. outputReceipt(r)' \in Receipt
    BY <1>6 DEF outputReceipt, Receipt, StoreTypes
  <1>10. StreamTypes'
    BY <1>1, <1>2, <1>3, <1>9 DEF StreamTypes, Serve
  <1>11. WorldTypes'
    BY <1>1, <1>7 DEF WorldTypes
  <1>12. StoreTypes'
    BY <1>6
  <1>13. PrefixInv'
    BY <1>6
  <1>14. AckedInv'
    BY <1>6
  <1>15. AbsentInv'
    BY <1>6
  <1>16. WorkInv'
    BY <1>1, <1>2, <1>3, <1>4 DEF Serve, WorkInv
  <1>17. MsgInv'
    BY <1>1, <1>2, <1>3 DEF Serve, MsgInv, Right, Last
  <1>18. ReplyInv'
    BY <1>1, <1>2, <1>3, <1>6 DEF ReplyInv, outputReceipt, Final, Receipt
  <1>19. DeniedInv'
    BY <1>1, <1>2, <1>3, <1>8 DEF DeniedInv, Enrolled
  <1>20. FinalInv'
    BY <1>6
  <1>21. EndsAgree'
    BY <1>6
  <1> QED
    BY <1>1, <1>10, <1>11, <1>12, <1>13, <1>14, <1>15, <1>16, <1>17, <1>18, <1>19, <1>20, <1>21,
      SpoolTypesUnchanged, WorkTypesUnchanged, HeldInvUnchanged, LetGoInvUnchanged,
      BatchInvUnchanged, SessInvUnchanged

\* A late request is as true as it was when it was sent.
LEMMA ServeStrayKeeps ==
  ASSUME IInv, NEW r \in Runs, ServeStray(r)
  PROVE  IInv'
  <1> USE DEF IInv, TypeParts
  <1>1. UNCHANGED <<status, reason, emitted, held, acked, endAck, receipt, abandoned, started, worker, at,
            live, rejected, loss, batch, wire, msg, reply, credential, running, unhealthy, sess,
            up, ending, binding>>
    BY DEF ServeStray, spool, work, process, session
  <1>2. /\ stray \in [Runs -> SUBSET Message]
        /\ mishaps \in Nat
        /\ dStatus \in [Runs -> {"absent", "pending", "complete", "truncated"}]
        /\ dReason \in [Runs -> Reasons]
        /\ dLog \in [Runs -> Seq(Data)]
        /\ reply \in [Runs -> Receipt]
    BY DEF StreamTypes, WorldTypes, StoreTypes
  <1>3. PICK m \in stray[r], res \in {"ok", "refused", "denied"} :
          storeOutput(r, m, res) /\ stray' = [stray EXCEPT ![r] = stray[r] \ {m}]
    BY DEF ServeStray
  <1>4. StoreEffect(r)
    BY <1>2, <1>3, StoreHasEffect DEF MsgInv
  <1>5. /\ StoreTypes' /\ PrefixInv' /\ AckedInv' /\ AbsentInv' /\ FinalInv' /\ EndsAgree'
        /\ \A s \in Runs : /\ Len(dLog'[s]) \in Nat /\ Len(dLog[s]) <= Len(dLog'[s])
                           /\ dStatus[s] \in Finished => /\ Len(dLog'[s]) = Len(dLog[s])
                                                         /\ dStatus'[s] = dStatus[s]
                                                         /\ dReason'[s] = dReason[s]
    BY <1>1, <1>4, StoreKeeps
  <1>6. mishaps' \in Nat
    BY <1>2, <1>3 DEF storeOutput, Mishap
  <1>7. UNCHANGED <<wire, msg, reply>>
    BY DEF ServeStray
  <1>8. StreamTypes'
    BY <1>1, <1>2, <1>3, <1>7 DEF StreamTypes
  <1>9. WorldTypes'
    BY <1>1, <1>6 DEF WorldTypes
  <1>10. StoreTypes'
    BY <1>5
  <1>11. PrefixInv'
    BY <1>5
  <1>12. AckedInv'
    BY <1>5
  <1>13. AbsentInv'
    BY <1>5
  <1>14. MsgInv'
    BY <1>1, <1>2, <1>3, <1>7 DEF MsgInv, Right, Last
  <1>15. ReplyInv'
    BY <1>1, <1>2, <1>5, <1>7 DEF ReplyInv, Final, Receipt
  <1>16. FinalInv'
    BY <1>5
  <1>17. EndsAgree'
    BY <1>5
  <1> QED
    BY <1>1, <1>8, <1>9, <1>10, <1>11, <1>12, <1>13, <1>14, <1>15, <1>16, <1>17, SpoolTypesUnchanged,
      WorkTypesUnchanged, HeldInvUnchanged, LetGoInvUnchanged, WorkInvUnchanged,
      BatchInvUnchanged, DeniedInvUnchanged, SessInvUnchanged

\* A dropped request does nothing.
LEMMA DropStrayKeeps ==
  ASSUME IInv, NEW r \in Runs, DropStray(r)
  PROVE  IInv'
  <1> USE DEF IInv, TypeParts
  <1>1. UNCHANGED <<status, reason, emitted, held, acked, endAck, receipt, abandoned, started, worker, at,
            live, rejected, loss, batch, wire, msg, reply, credential, running, unhealthy, sess,
            up, ending, binding, mishaps, dStatus, dReason, dLog>>
    BY DEF DropStray, spool, work, stream, process, session, store
  <1>2. /\ stray \in [Runs -> SUBSET Message]
    BY DEF StreamTypes
  <1>3. StreamTypes'
    BY <1>1, <1>2 DEF DropStray, StreamTypes
  <1>4. MsgInv'
    BY <1>1, <1>2 DEF DropStray, MsgInv, Right, Last, Finished
  <1> QED
    BY <1>1, <1>3, <1>4, SpoolTypesUnchanged, WorkTypesUnchanged, WorldTypesUnchanged,
      StoreTypesUnchanged, HeldInvUnchanged, PrefixInvUnchanged, AckedInvUnchanged,
      AbsentInvUnchanged, LetGoInvUnchanged, WorkInvUnchanged, BatchInvUnchanged,
      ReplyInvUnchanged, DeniedInvUnchanged, SessInvUnchanged, FinalInvUnchanged,
      EndsAgreeUnchanged

-----------------------------------------------------------------------------
(* The invariant. *)

\* Nothing is known, held, sent or answered at first.
LEMMA InitHolds == Init => IInv
  <1> SUFFICES ASSUME Init PROVE IInv
    OBVIOUS
  <1>1. TypeParts
    <2>0. "" \in Reasons /\ <<>> \in Seq(Data)
      BY DEF Reasons
    <2>1. /\ SpoolTypes
          /\ WorkTypes
          /\ WorldTypes
          /\ StoreTypes
      <3>1. SpoolTypes
        BY <2>0 DEF Init, SpoolTypes
      <3>2. WorkTypes
        BY <2>0 DEF Init, WorkTypes
      <3>3. WorldTypes
        BY DEF Init, WorldTypes
      <3>4. StoreTypes
        BY <2>0 DEF Init, StoreTypes
      <3> QED
        BY <3>1, <3>2, <3>3, <3>4
    <2>2. Ident \in Message /\ [seq |-> 0, status |-> "pending", reason |-> ""] \in Receipt
      BY DEF Ident, Message, Receipt, Finished, Reasons
    <2>3. StreamTypes
      BY <2>2 DEF Init, StreamTypes
    <2> QED
      BY <2>1, <2>3 DEF TypeParts
  <1>2. HeldInv /\ PrefixInv /\ AckedInv /\ BatchInv
    <2>1. \A r \in Runs : /\ Last(r) = 0 /\ Len(dLog[r]) = 0 /\ acked[r] = 0
                         /\ held[r] = {} /\ batch[r] = {} /\ ~ endAck[r]
      BY DEF Init, Last
    <2>2. HeldInv
      <3>1. (0 + 1) .. 0 = {}
        OBVIOUS
      <3> QED
        BY <2>1, <3>1, Zenon DEF HeldInv
    <2>3. PrefixInv
      BY <2>1 DEF PrefixInv
    <2>4. AckedInv /\ BatchInv
      BY <2>1 DEF AckedInv, BatchInv
    <2> QED
      BY <2>2, <2>3, <2>4
  <1>3. AbsentInv /\ LetGoInv /\ WorkInv /\ EndsAgree
    BY DEF Init, AbsentInv, LetGoInv, WorkInv, EndsAgree
  <1>4. MsgInv /\ ReplyInv /\ DeniedInv /\ SessInv /\ FinalInv
    <2>1. MsgInv /\ DeniedInv /\ FinalInv
      BY DEF Init, MsgInv, DeniedInv, FinalInv, Finished
    <2>2. \A r \in Runs : reply[r].seq = 0 /\ reply[r].status = "pending" /\ Len(dLog[r]) = 0
      BY DEF Init
    <2>3. ReplyInv
      BY <2>2 DEF ReplyInv, Final, Finished
    <2>4. SessInv
      <3>1. up = FALSE /\ sess = 0 /\ ending = {} /\ \A r \in Runs : binding[r] = 0
        BY DEF Init
      <3> QED
        BY <3>1 DEF SessInv
    <2> QED
      BY <2>1, <2>3, <2>4
  <1> QED
    BY <1>1, <1>2, <1>3, <1>4 DEF IInv

\* Every step keeps the invariant.
LEMMA NextKeeps ==
  ASSUME IInv, [Next]_vars
  PROVE  IInv'
  <1>1. CASE UNCHANGED vars
    <2>1. /\ UNCHANGED <<status, reason, emitted, held, acked, endAck, receipt, abandoned>>
          /\ UNCHANGED <<started, worker, at, live, rejected, loss, batch>>
          /\ UNCHANGED <<wire, msg, reply, stray, credential, running, unhealthy>>
          /\ UNCHANGED <<sess, up, ending, binding, dStatus, dReason, dLog, mishaps>>
      BY <1>1 DEF vars, spool, work, stream, process, session, store
    <2> QED
      BY <2>1, SpoolTypesUnchanged, WorkTypesUnchanged, StreamTypesUnchanged, WorldTypesUnchanged,
          StoreTypesUnchanged, HeldInvUnchanged, PrefixInvUnchanged, AckedInvUnchanged,
          AbsentInvUnchanged, LetGoInvUnchanged, WorkInvUnchanged, BatchInvUnchanged,
          MsgInvUnchanged, ReplyInvUnchanged, DeniedInvUnchanged, SessInvUnchanged,
          FinalInvUnchanged, EndsAgreeUnchanged
         DEF IInv, TypeParts
  <1>2. CASE Control
    BY <1>2, NewSessionKeeps, SessionLostKeeps, DispatcherCrashKeeps, ExecutorCrashKeeps,
       StartNodeKeeps, InterruptUnresumableOutputKeeps, InterruptFailedKeeps DEF Control
  <1>3. ASSUME NEW r \in Runs, Pump(r)
        PROVE  IInv'
    BY <1>3, StartPumpKeeps, PumpHearsKeeps, CancelKeeps, PumpFinishFailsKeeps, PumpSettleKeeps,
       PumpEndsKeeps, EmitKeeps, EmitLostKeeps, PumpFinishKeeps DEF Pump
  <1>4. ASSUME NEW r \in Runs, Retry(r)
        PROVE  IInv'
    BY <1>4, RetryStartKeeps, RetryHearsKeeps, RetryEndsKeeps, RetryStopsKeeps DEF Retry
  <1>5. ASSUME NEW r \in Runs, Stream(r)
        PROVE  IInv'
    BY <1>5, ServeKeeps, ServeStrayKeeps, DropStrayKeeps, LoseExchangeKeeps, ContextDoneKeeps
       DEF Stream
  <1> QED
    BY <1>1, <1>2, <1>3, <1>4, <1>5, CreateOutputKeeps, AdmitTxKeeps, FinishRefusedOutputKeeps DEF Next

\* The conjuncts of the invariant hold in every reachable state.
THEOREM DeliveryInvariant == Spec => []IInv
  BY InitHolds, NextKeeps, PTL DEF Spec

\* Until the dispatcher ended the output over a quota, or an executor that is not
\* enrolled gave it up, every frame is in the spool or committed; and a finished
\* output can always be settled with what the dispatcher answers (Acknowledge,
\* AcceptTruncation, Abandon, storeOutput).
THEOREM NoFrameIsLost == Spec => []NothingIsLost
  <1>1. IInv => NothingIsLost
    <2> SUFFICES ASSUME IInv PROVE NothingIsLost
      OBVIOUS
    <2> USE DEF IInv
    <2>1. TypeOK
      BY DEF TypeOK, TypeParts, SpoolTypes, WorkTypes, StreamTypes, WorldTypes, StoreTypes
    <2>2. /\ emitted \in [Runs -> Seq(Data)] /\ dLog \in [Runs -> Seq(Data)]
          /\ acked \in [Runs -> Nat]
      BY <2>1 DEF TypeOK
    <2>3. \A r \in Runs : Last(r) \in Nat /\ Len(dLog[r]) \in Nat /\ acked[r] \in Nat
      BY <2>2 DEF Last
    <2>4. UncommittedIsHeld
      <3> SUFFICES ASSUME NEW r \in Runs, ~ receipt[r], ~ (abandoned[r] /\ ~ Enrolled),
                          NEW i \in 1 .. Last(r)
                   PROVE  i \in held[r] \/ i <= Len(dLog[r])
        BY DEF UncommittedIsHeld
      <3>1. ~ abandoned[r]
        BY DEF LetGoInv
      <3>2. CASE endAck[r]
        BY <2>3, <3>1, <3>2 DEF EndsAgree, Last
      <3>3. CASE ~ endAck[r]
        <4>1. held[r] = (acked[r] + 1) .. Last(r) /\ acked[r] <= Len(dLog[r])
          BY <3>3 DEF HeldInv, AckedInv
        <4> QED
          BY <2>3, <4>1
      <3> QED
        BY <3>2, <3>3
    <2>5. ReceiptIsAcceptable
      <3> SUFFICES ASSUME NEW r \in Runs, status[r] \in Finished, ~ endAck[r], dStatus[r] \in Finished,
                          Enrolled \/ (up /\ binding[r] = sess)
                   PROVE  IF dStatus[r] = "truncated" /\ dReason[r] \in QuotaReasons
                          THEN CanTruncate(r, outputReceipt(r)) ELSE CanAcknowledge(r, outputReceipt(r))
        BY DEF ReceiptIsAcceptable
      <3>1. ~ receipt[r] /\ acked[r] <= Len(dLog[r]) /\ Len(dLog[r]) <= Last(r)
        BY DEF LetGoInv, AckedInv, PrefixInv
      <3>2. CASE dStatus[r] = "truncated" /\ dReason[r] \in QuotaReasons
        BY <3>1, <3>2 DEF CanTruncate, outputReceipt, Last
      <3>3. CASE ~ (dStatus[r] = "truncated" /\ dReason[r] \in QuotaReasons)
        <4>1. Len(dLog[r]) = Last(r) /\ dStatus[r] = status[r] /\ dReason[r] = reason[r]
          BY <3>3 DEF FinalInv, Finished
        <4> QED
          BY <2>3, <3>1, <3>3, <4>1 DEF CanAcknowledge, outputReceipt, Last
      <3> QED
        BY <3>2, <3>3
    <2> QED
      BY <2>1, <2>4, <2>5 DEF NothingIsLost
  <1> QED
    BY <1>1, DeliveryInvariant, PTL

\* An end acknowledged in the spool is the dispatcher's end with every frame
\* committed; an accepted truncation is the dispatcher's, at its committed prefix
\* (Acknowledge, AcceptTruncation, finishOutput).
THEOREM BothEndsAgree == Spec => []EndsAgree
  <1>1. IInv => EndsAgree
    BY DEF IInv
  <1> QED
    BY <1>1, DeliveryInvariant, PTL

-----------------------------------------------------------------------------
(* The charges.  *)

\* A charge is a sum over frames.
LEMMA BytesIsSum == ASSUME NEW log, NEW S PROVE Bytes(log, S) = SumOver(S, log)
  BY DEF Bytes, SumOver

\* Some frames of a log.
LEMMA FramesFinite ==
  ASSUME NEW log \in Seq(Nat), NEW S \in SUBSET (1 .. Len(log))
  PROVE  IsFiniteSet(S) /\ \A i \in S : log[i] \in Nat
  <1>1. IsFiniteSet(1 .. Len(log))
    BY FS_Interval
  <1>2. IsFiniteSet(S)
    BY <1>1, FS_Subset
  <1>3. \A i \in S : log[i] \in Nat
    OBVIOUS
  <1> QED
    BY <1>2, <1>3

\* A charge is a number, nothing for no frames, and splits with its frames.
LEMMA ChargeIsNat ==
  ASSUME NEW log \in Seq(Nat), NEW S \in SUBSET (1 .. Len(log))
  PROVE  Charge(log, S) \in Nat
  <1>1. Bytes(log, S) \in Nat
    BY FramesFinite, SumNat, BytesIsSum
  <1>2. Cardinality(S) \in Nat
    BY FramesFinite, FS_CardinalityType
  <1>3. \A c, a \in Nat : c * a \in Nat
    OBVIOUS
  <1>4. FrameCharge * Cardinality(S) \in Nat
    BY <1>2, <1>3, OutputAssumption
  <1> QED
    BY <1>1, <1>4 DEF Charge

LEMMA ChargeOfNone == ASSUME NEW log PROVE Charge(log, {}) = 0
  <1>1. Bytes(log, {}) = 0 /\ Cardinality({}) = 0
    BY SumEmpty, BytesIsSum, FS_EmptySet
  <1> QED
    BY <1>1, OutputAssumption DEF Charge

LEMMA ChargeSplits ==
  ASSUME NEW log \in Seq(Nat), NEW S \in SUBSET (1 .. Len(log)), NEW T \in SUBSET S
  PROVE  Charge(log, S) = Charge(log, T) + Charge(log, S \ T)
  <1>1. IsFiniteSet(S) /\ \A i \in S : log[i] \in Nat
    BY FramesFinite
  <1>2. /\ Bytes(log, S) = Bytes(log, T) + Bytes(log, S \ T)
        /\ Bytes(log, T) \in Nat /\ Bytes(log, S \ T) \in Nat
    <2>1. /\ SumOver(S, log) = SumOver(T, log) + SumOver(S \ T, log)
          /\ SumOver(T, log) \in Nat /\ SumOver(S \ T, log) \in Nat
      BY <1>1, SumPart
    <2> QED
      BY <2>1, BytesIsSum
  <1>3. /\ Cardinality(S) = Cardinality(T) + Cardinality(S \ T)
        /\ Cardinality(T) \in Nat /\ Cardinality(S \ T) \in Nat
    <2>1. IsFiniteSet(T) /\ IsFiniteSet(S \ T)
      BY <1>1, FS_Subset
    <2>2. S \cap T = T
      OBVIOUS
    <2>3. Cardinality(S \ T) = Cardinality(S) - Cardinality(T)
      BY <1>1, <2>2, FS_Difference
    <2> QED
      BY <1>1, <2>1, <2>3, FS_CardinalityType
  <1>4. \A c, a, b \in Nat : c * (a + b) = c * a + c * b
    OBVIOUS
  <1>5. FrameCharge * Cardinality(S) = FrameCharge * Cardinality(T) + FrameCharge * Cardinality(S \ T)
    BY <1>3, <1>4, OutputAssumption
  <1>6. FrameCharge * Cardinality(T) \in Nat /\ FrameCharge * Cardinality(S \ T) \in Nat
    BY <1>3, OutputAssumption
  <1> QED
    BY <1>2, <1>5, <1>6 DEF Charge

\* A frame that is appended is charged.
LEMMA ChargeOfAppend ==
  ASSUME NEW log \in Seq(Nat), NEW S \in SUBSET (1 .. Len(log)), NEW d \in Nat
  PROVE  Charge(Append(log, d), S \cup {Len(log) + 1}) = Charge(log, S) + d + FrameCharge
  <1> DEFINE n == Len(log) + 1
             more == Append(log, d)
  <1>1. n \in Nat /\ n \notin S /\ more[n] = d /\ \A i \in S : more[i] = log[i]
    OBVIOUS
  <1>2. IsFiniteSet(S) /\ \A i \in S : log[i] \in Nat
    BY FramesFinite
  <1> HIDE DEF n, more
  <1>3. SumOver(S, more) = SumOver(S, log) /\ SumOver(S, log) \in Nat
    <2>1. \A i \in S : log[i] \in Int /\ more[i] = log[i]
      BY <1>1, <1>2
    <2>2. SumOver(S, more) = SumOver(S, log)
      BY <1>2, <2>1, SumSame
    <2> QED
      BY <1>2, <2>2, SumNat
  <1>4. SumOver(S \cup {n}, more) = SumOver(S, more) + d
    <2>1. (\A i \in S : more[i] \in Int) /\ more[n] \in Int
      BY <1>1, <1>2
    <2>2. SumOver(S \cup {n}, more) = SumOver(S, more) + more[n]
      BY <1>1, <1>2, <2>1, SumAdd
    <2> QED
      BY <1>1, <2>2
  <1>5. Cardinality(S \cup {n}) = Cardinality(S) + 1 /\ Cardinality(S) \in Nat
    BY <1>1, <1>2, FS_AddElement, FS_CardinalityType
  <1>6. \A c, a \in Nat : c * (a + 1) = c * a + c /\ c * a \in Nat
    OBVIOUS
  <1>7. /\ FrameCharge * Cardinality(S \cup {n}) = FrameCharge * Cardinality(S) + FrameCharge
        /\ FrameCharge * Cardinality(S) \in Nat /\ FrameCharge \in Nat
    BY <1>5, <1>6, OutputAssumption
  <1>8. Charge(more, S \cup {n}) = Charge(log, S) + d + FrameCharge
    BY <1>3, <1>4, <1>7, BytesIsSum DEF Charge
  <1> QED
    BY <1>8 DEF n, more

\* Both counters as sums, now and after a step.
LEMMA SpoolForm == SpoolChargeIsExact <=> usage = SumOver(Runs, Spooled) /\ usage <= SpoolBytes
  BY DEF SpoolChargeIsExact, SumOver

LEMMA SpoolFormNext ==
  SpoolChargeIsExact' <=> usage' = SumOver(Runs, Spooled') /\ usage' <= SpoolBytes
  BY DEF SpoolChargeIsExact, SumOver, MapThenSumSet, MapThenFoldSet

LEMMA StoreForm ==
  StoreChargeIsExact <=> dUsage = SumOver(Runs, Kept) /\ (StoreBytes > 0 => dUsage <= StoreBytes)
  BY DEF StoreChargeIsExact, SumOver

LEMMA StoreFormNext ==
  StoreChargeIsExact' <=> dUsage' = SumOver(Runs, Kept') /\ (StoreBytes > 0 => dUsage' <= StoreBytes)
  BY DEF StoreChargeIsExact, SumOver, MapThenSumSet, MapThenFoldSet

\* Frames are byte counts.
LEMMA FramesAreBytes ==
  ASSUME NEW s \in Seq(Data)
  PROVE  s \in Seq(Nat)
  <1>1. Data \subseteq Nat
    BY OutputAssumption
  <1>2. Len(s) \in Nat /\ s \in [1 .. Len(s) -> Data]
    OBVIOUS
  <1>3. s \in [1 .. Len(s) -> Nat]
    BY <1>1, <1>2
  <1> QED
    BY <1>2, <1>3

\* What the logs hold.
LEMMA LogsHold ==
  ASSUME IInv, NEW r \in Runs
  PROVE  /\ emitted[r] \in Seq(Nat) /\ held[r] \in SUBSET (1 .. Len(emitted[r]))
         /\ dLog[r] \in Seq(Nat)
  <1>1. emitted[r] \in Seq(Data) /\ dLog[r] \in Seq(Data) /\ acked[r] \in Nat
    BY DEF IInv, TypeParts, SpoolTypes, StoreTypes
  <1>2. emitted[r] \in Seq(Nat) /\ dLog[r] \in Seq(Nat)
    BY <1>1, FramesAreBytes
  <1>3. held[r] \in SUBSET (1 .. Len(emitted[r]))
    BY <1>1 DEF IInv, HeldInv, Last
  <1> QED
    BY <1>2, <1>3

LEMMA ChargesAreNat ==
  ASSUME IInv
  PROVE  \A r \in Runs : /\ Charge(emitted[r], held[r]) \in Nat /\ Spooled[r] \in Nat
                         /\ Charge(dLog[r], 1 .. Len(dLog[r])) \in Nat /\ Kept[r] \in Nat
  <1> SUFFICES ASSUME NEW r \in Runs
               PROVE  /\ Charge(emitted[r], held[r]) \in Nat /\ Spooled[r] \in Nat
                      /\ Charge(dLog[r], 1 .. Len(dLog[r])) \in Nat /\ Kept[r] \in Nat
    OBVIOUS
  <1>1. Charge(emitted[r], held[r]) \in Nat /\ Charge(dLog[r], 1 .. Len(dLog[r])) \in Nat
    BY LogsHold, ChargeIsNat
  <1>2. Spooled[r] = (IF r \in Unfinished THEN RunCharge ELSE 0) + Charge(emitted[r], held[r])
    BY DEF Spooled
  <1>3. Kept[r] = (IF dStatus[r] # "absent" THEN RunCharge ELSE 0) + Charge(dLog[r], 1 .. Len(dLog[r]))
    BY DEF Kept
  <1> QED
    BY <1>1, <1>2, <1>3, OutputAssumption

\* Naturals added in two orders.
LEMMA Regroup == \A i, j, k, l \in Nat : i + (j + k + l) = (i + j) + (k + l) /\ i + j + k = i + (j + k)
  OBVIOUS

\* A step that moves one run's charge and the counter by the same amount.
LEMMA SpoolMoves ==
  ASSUME IInv, SpoolChargeIsExact, NEW r \in Runs, NEW c \in Int,
         \A s \in Runs : s # r => Spooled'[s] = Spooled[s],
         Spooled'[r] = Spooled[r] + c, usage' = usage + c, usage' <= SpoolBytes
  PROVE  SpoolChargeIsExact'
  <1>1. \A s \in Runs : Spooled[s] \in Int /\ (s # r => Spooled'[s] = Spooled[s])
    BY ChargesAreNat
  <1>2. SumOver(Runs, Spooled') = SumOver(Runs, Spooled) + c
    <2>1. IsFiniteSet(Runs)
      BY OutputAssumption
    <2> QED
      BY <1>1, <2>1, SumChange
  <1>3. SumOver(Runs, Spooled) = usage
    BY SpoolForm
  <1> QED
    BY <1>2, <1>3, SpoolFormNext

LEMMA StoreMoves ==
  ASSUME IInv, StoreChargeIsExact, NEW r \in Runs, NEW c \in Int,
         \A s \in Runs : s # r => Kept'[s] = Kept[s],
         Kept'[r] = Kept[r] + c, dUsage' = dUsage + c, StoreBytes > 0 => dUsage' <= StoreBytes
  PROVE  StoreChargeIsExact'
  <1>1. \A s \in Runs : Kept[s] \in Int /\ (s # r => Kept'[s] = Kept[s])
    BY ChargesAreNat
  <1>2. SumOver(Runs, Kept') = SumOver(Runs, Kept) + c
    <2>1. IsFiniteSet(Runs)
      BY OutputAssumption
    <2> QED
      BY <1>1, <2>1, SumChange
  <1>3. SumOver(Runs, Kept) = dUsage
    BY StoreForm
  <1> QED
    BY <1>2, <1>3, StoreFormNext

\* The counters are numbers.
LEMMA UsageIsNat ==
  ASSUME IInv, ChargesAreExact
  PROVE  usage \in Nat /\ dUsage \in Nat /\ usage <= SpoolBytes
  <1>1. SumOver(Runs, Spooled) \in Nat /\ SumOver(Runs, Kept) \in Nat
    <2>1. IsFiniteSet(Runs) /\ (\A r \in Runs : Spooled[r] \in Nat) /\ \A r \in Runs : Kept[r] \in Nat
      BY OutputAssumption, ChargesAreNat
    <2> QED
      BY <2>1, SumNat
  <1> QED
    BY <1>1, SpoolForm, StoreForm DEF ChargesAreExact

\* Steps that release, admit and append nothing.
LEMMA SpoolStays ==
  ASSUME SpoolChargeIsExact, UNCHANGED <<emitted, held, endAck, usage>>,
         \A r \in Runs : status'[r] = "absent" <=> status[r] = "absent"
  PROVE  SpoolChargeIsExact'
  <1>1. Unfinished' = Unfinished
    BY DEF Unfinished
  <1>2. Spooled' = Spooled
    BY <1>1 DEF Spooled
  <1> QED
    BY <1>2, SpoolForm, SpoolFormNext

LEMMA StoreStays ==
  ASSUME StoreChargeIsExact, UNCHANGED <<dLog, dUsage>>,
         \A r \in Runs : dStatus'[r] = "absent" <=> dStatus[r] = "absent"
  PROVE  StoreChargeIsExact'
  <1>1. Kept' = Kept
    BY DEF Kept
  <1> QED
    BY <1>1, StoreForm, StoreFormNext

\* Everything of a run leaves the spool.
LEMMA ReleaseAllCharges ==
  ASSUME IInv, ChargesAreExact, NEW r \in Runs, ~ endAck[r], status[r] # "absent", ReleaseAll(r)
  PROVE  SpoolChargeIsExact'
  <1>1. /\ held \in [Runs -> SUBSET Nat] /\ endAck \in [Runs -> BOOLEAN]
    BY DEF IInv, TypeParts, SpoolTypes
  <1> DEFINE c == - Charge(emitted[r], held[r]) - RunCharge
  <1>2. Charge(emitted[r], held[r]) \in Nat /\ RunCharge \in Nat
    BY ChargesAreNat, OutputAssumption
  <1>3. c \in Int /\ usage' = usage + c /\ usage' <= SpoolBytes
    BY <1>2, UsageIsNat, OutputAssumption DEF ReleaseAll
  <1>4. r \in Unfinished /\ r \notin Unfinished' /\ held'[r] = {}
    BY <1>1 DEF Unfinished, ReleaseAll
  <1>5. Spooled[r] = RunCharge + Charge(emitted[r], held[r])
    BY <1>4 DEF Spooled
  <1>6. Spooled'[r] = 0
    BY <1>4, ChargeOfNone DEF Spooled
  <1>7. \A s \in Runs : s # r => Spooled'[s] = Spooled[s]
    BY <1>1 DEF Spooled, Unfinished, ReleaseAll
  <1>8. Spooled'[r] = Spooled[r] + c
    BY <1>2, <1>5, <1>6
  <1> HIDE DEF c
  <1> QED
    BY <1>3, <1>7, <1>8, SpoolMoves DEF ChargesAreExact

\* A receipt releases what it covers.
LEMMA AcknowledgeCharges ==
  ASSUME IInv, ChargesAreExact, NEW r \in Runs, ~ endAck[r], status[r] # "absent",
         NEW rc, Acknowledge(r, rc)
  PROVE  SpoolChargeIsExact'
  <1>1. /\ held \in [Runs -> SUBSET Nat] /\ endAck \in [Runs -> BOOLEAN]
    BY DEF IInv, TypeParts, SpoolTypes
  <1> DEFINE T == Covered(r, rc)
             over == IF EndsRun(r, rc) THEN RunCharge ELSE 0
             c == - Charge(emitted[r], T) - over
  <1>2. emitted[r] \in Seq(Nat) /\ held[r] \in SUBSET (1 .. Len(emitted[r])) /\ T \in SUBSET held[r]
    BY LogsHold DEF Covered
  <1>3. /\ Charge(emitted[r], held[r]) = Charge(emitted[r], T) + Charge(emitted[r], held[r] \ T)
        /\ Charge(emitted[r], T) \in Nat /\ Charge(emitted[r], held[r] \ T) \in Nat
    <2> HIDE DEF T
    <2>1. T \in SUBSET (1 .. Len(emitted[r])) /\ held[r] \ T \in SUBSET (1 .. Len(emitted[r]))
      BY <1>2
    <2> QED
      BY <1>2, <2>1, ChargeSplits, ChargeIsNat
  <1>4. over \in Nat
    BY OutputAssumption
  <1>5. usage' = usage - (Charge(emitted[r], T) + over)
    BY DEF Acknowledge, Released
  <1>6. c \in Int /\ usage' = usage + c /\ usage' <= SpoolBytes
    <2> HIDE DEF T, over
    <2> QED
      BY <1>3, <1>4, <1>5, UsageIsNat, OutputAssumption
  <1>7. held'[r] = held[r] \ T /\ emitted' = emitted /\ (r \in Unfinished' <=> ~ EndsRun(r, rc)) /\ r \in Unfinished
    BY <1>1 DEF Acknowledge, Unfinished
  <1>8. Spooled[r] = RunCharge + Charge(emitted[r], held[r])
    BY <1>7 DEF Spooled
  <1>9. Spooled'[r] = (IF EndsRun(r, rc) THEN 0 ELSE RunCharge) + Charge(emitted[r], held[r] \ T)
    BY <1>7 DEF Spooled
  <1>10. \A s \in Runs : s # r => Spooled'[s] = Spooled[s]
    BY <1>1 DEF Spooled, Unfinished, Acknowledge
  <1>11. Spooled'[r] = Spooled[r] + c
    <2> HIDE DEF T
    <2> QED
      BY <1>3, <1>8, <1>9, OutputAssumption
  <1> HIDE DEF c
  <1> QED
    BY <1>6, <1>10, <1>11, SpoolMoves DEF ChargesAreExact

LEMMA AckCharges ==
  ASSUME IInv, ChargesAreExact, NEW r \in Runs, ~ endAck[r], status[r] # "absent",
         NEW ok \in BOOLEAN, acknowledgeOutput(r, ok)
  PROVE  SpoolChargeIsExact'
  <1>1. CASE UNCHANGED spool
    BY <1>1, SpoolStays DEF spool, ChargesAreExact
  <1>2. CASE AcceptTruncation(r, reply[r])
    BY <1>2, ReleaseAllCharges DEF AcceptTruncation
  <1>3. CASE Acknowledge(r, reply[r])
    BY <1>3, AcknowledgeCharges
  <1> QED
    BY <1>1, <1>2, <1>3 DEF acknowledgeOutput

\* An admission and a frame are charged within the limit.
LEMMA AdmitCharges ==
  ASSUME IInv, ChargesAreExact, NEW r \in Runs, AdmitTx(r)
  PROVE  SpoolChargeIsExact'
  <1>1. status \in [Runs -> {"absent", "open", "complete", "truncated"}] /\ ~ endAck[r]
    BY DEF IInv, TypeParts, SpoolTypes, LetGoInv, Finished, AdmitTx
  <1>2. RunCharge \in Int /\ usage' = usage + RunCharge /\ usage' <= SpoolBytes
    BY UsageIsNat, OutputAssumption DEF AdmitTx, SpoolFull
  <1>3. r \notin Unfinished /\ r \in Unfinished' /\ emitted' = emitted /\ held' = held
    BY <1>1 DEF Unfinished, AdmitTx
  <1>4. \A s \in Runs : s # r => Spooled'[s] = Spooled[s]
    BY <1>1 DEF Spooled, Unfinished, AdmitTx
  <1>5. Spooled[r] = 0 + Charge(emitted[r], held[r]) /\ Spooled'[r] = RunCharge + Charge(emitted[r], held[r])
    BY <1>3 DEF Spooled
  <1>6. Spooled'[r] = Spooled[r] + RunCharge
    BY <1>5, ChargesAreNat, OutputAssumption
  <1> QED
    BY <1>2, <1>4, <1>6, SpoolMoves DEF ChargesAreExact

\* A frame appended and held adds its length and the overhead of a frame.
LEMMA FrameCharges ==
  ASSUME IInv, NEW r \in Runs, NEW d \in Nat, Unfinished' = Unfinished,
         emitted'[r] = Append(emitted[r], d), held'[r] = held[r] \cup {Len(emitted[r]) + 1}
  PROVE  Spooled'[r] = Spooled[r] + (d + FrameCharge)
  <1>1. FrameCharge \in Nat /\ RunCharge \in Nat
    BY OutputAssumption
  <1>2. Charge(emitted'[r], held'[r]) = Charge(emitted[r], held[r]) + d + FrameCharge
    <2>1. emitted[r] \in Seq(Nat) /\ held[r] \in SUBSET (1 .. Len(emitted[r]))
      BY LogsHold
    <2>2. Charge(Append(emitted[r], d), held[r] \cup {Len(emitted[r]) + 1})
            = Charge(emitted[r], held[r]) + d + FrameCharge
      BY <2>1, ChargeOfAppend
    <2> QED
      BY <2>2
  <1> DEFINE b == IF r \in Unfinished THEN RunCharge ELSE 0
             was == Charge(emitted[r], held[r])
             is == Charge(emitted'[r], held'[r])
  <1>3. Spooled'[r] = b + is
    BY DEF Spooled
  <1>4. Spooled[r] = b + was
    BY DEF Spooled
  <1>5. was \in Nat /\ b \in Nat /\ is = was + d + FrameCharge
    BY <1>1, <1>2, ChargesAreNat
  <1> HIDE DEF b, was, is
  <1> QED
    BY <1>1, <1>3, <1>4, <1>5

LEMMA EmitCharges ==
  ASSUME IInv, ChargesAreExact, NEW r \in Runs, NEW d \in Data, AppendResult(r, d) = "", Stored(r, d)
  PROVE  SpoolChargeIsExact'
  <1>1. held \in [Runs -> SUBSET Nat] /\ emitted \in [Runs -> Seq(Data)]
    BY DEF IInv, TypeParts, SpoolTypes
  <1>2. d \in Nat /\ FrameCharge \in Nat /\ RunCharge \in Nat /\ SpoolBytes \in Nat
    BY OutputAssumption
  <1> DEFINE c == d + FrameCharge
  <1>3. c \in Int /\ usage' = usage + c /\ usage' <= SpoolBytes
    BY <1>2, UsageIsNat DEF AppendResult, Stored
  <1>4. /\ emitted'[r] = Append(emitted[r], d) /\ held'[r] = held[r] \cup {Len(emitted[r]) + 1}
        /\ Unfinished' = Unfinished
    BY <1>1 DEF Stored, Unfinished
  <1>5. Spooled'[r] = Spooled[r] + c
    BY <1>2, <1>4, FrameCharges
  <1>6. \A s \in Runs : s # r => Spooled'[s] = Spooled[s]
    BY <1>1, <1>4 DEF Spooled, Stored
  <1> HIDE DEF c
  <1> QED
    BY <1>3, <1>5, <1>6, SpoolMoves DEF ChargesAreExact

\* The same of the dispatcher.
LEMMA CreateCharges ==
  ASSUME IInv, ChargesAreExact, NEW r \in Runs, CreateOutput(r)
  PROVE  StoreChargeIsExact'
  <1>1. dStatus \in [Runs -> {"absent", "pending", "complete", "truncated"}]
    BY DEF IInv, TypeParts, StoreTypes
  <1>2. /\ RunCharge \in Int /\ dUsage' = dUsage + RunCharge
        /\ StoreBytes > 0 => dUsage' <= StoreBytes
    BY UsageIsNat, OutputAssumption DEF CreateOutput, exceedsOptionalLimit, exceedsOutputLimit
  <1>3. \A s \in Runs : s # r => Kept'[s] = Kept[s]
    BY <1>1 DEF Kept, CreateOutput
  <1>4. /\ Kept[r] = 0 + Charge(dLog[r], 1 .. Len(dLog[r]))
        /\ Kept'[r] = RunCharge + Charge(dLog[r], 1 .. Len(dLog[r]))
    BY <1>1 DEF Kept, CreateOutput
  <1>5. Kept'[r] = Kept[r] + RunCharge
    BY <1>4, ChargesAreNat, OutputAssumption
  <1> QED
    BY <1>2, <1>3, <1>5, StoreMoves DEF ChargesAreExact

LEMMA StoreCharges ==
  ASSUME IInv, ChargesAreExact, NEW r \in Runs, NEW m \in Message, NEW res, storeOutput(r, m, res)
  PROVE  StoreChargeIsExact'
  <1>1. /\ dStatus \in [Runs -> {"absent", "pending", "complete", "truncated"}]
        /\ dLog \in [Runs -> Seq(Data)] /\ m.data \in Nat /\ FrameCharge \in Nat
    BY OutputAssumption DEF IInv, TypeParts, StoreTypes, Message
  <1>2. CASE UNCHANGED store
    BY <1>2, StoreStays DEF store, ChargesAreExact
  <1>3. ASSUME NEW v, NEW why, dStatus[r] = "pending", FinalizeOutput(r, v, why), v # "absent"
        PROVE  StoreChargeIsExact'
    BY <1>1, <1>3, StoreStays DEF FinalizeOutput, ChargesAreExact
  <1>4. CASE /\ dStatus[r] = "pending" /\ appendReason(r, m.data) = ""
             /\ dLog' = [dLog EXCEPT ![r] = Append(@, m.data)]
             /\ chargeOutput(m.data) /\ UNCHANGED <<dStatus, dReason>>
    <2> DEFINE c == m.data + FrameCharge
    <2>1. ~ exceedsOptionalLimit(dUsage, c, StoreBytes)
      BY <1>4 DEF appendReason
    <2>2. c \in Int /\ dUsage' = dUsage + c /\ (StoreBytes > 0 => dUsage' <= StoreBytes)
      <3>1. StoreBytes \in Nat /\ c \in Nat /\ dUsage \in Nat
        BY <1>1, UsageIsNat, OutputAssumption
      <3>2. dUsage' = dUsage + c
        <4>1. dUsage' = dUsage + m.data + FrameCharge
          BY <1>4 DEF chargeOutput
        <4>2. dUsage + m.data + FrameCharge = dUsage + (m.data + FrameCharge)
          BY <1>1, <3>1, Regroup
        <4> QED
          BY <4>1, <4>2
      <3> HIDE DEF c
      <3> QED
        BY <2>1, <3>1, <3>2 DEF exceedsOptionalLimit, exceedsOutputLimit
    <2>3. dLog[r] \in Seq(Nat) /\ dLog'[r] = Append(dLog[r], m.data) /\ Len(dLog[r]) \in Nat
      <3>1. dLog[r] \in Seq(Nat)
        BY LogsHold
      <3>2. dLog'[r] = Append(dLog[r], m.data)
        BY <1>1, <1>4
      <3> QED
        BY <3>1, <3>2
    <2>4. 1 .. Len(dLog'[r]) = (1 .. Len(dLog[r])) \cup {Len(dLog[r]) + 1}
      BY <2>3
    <2>5. Charge(dLog'[r], 1 .. Len(dLog'[r])) = Charge(dLog[r], 1 .. Len(dLog[r])) + m.data + FrameCharge
      <3>1. Charge(Append(dLog[r], m.data), (1 .. Len(dLog[r])) \cup {Len(dLog[r]) + 1})
              = Charge(dLog[r], 1 .. Len(dLog[r])) + m.data + FrameCharge
        BY <1>1, <2>3, ChargeOfAppend
      <3> QED
        BY <2>3, <2>4, <3>1
    <2>6. /\ Kept[r] = RunCharge + Charge(dLog[r], 1 .. Len(dLog[r]))
          /\ Kept'[r] = RunCharge + Charge(dLog'[r], 1 .. Len(dLog'[r]))
      BY <1>4 DEF Kept
    <2>7. Kept'[r] = Kept[r] + c
      BY <1>1, <2>5, <2>6, ChargesAreNat, OutputAssumption
    <2>8. \A s \in Runs : s # r => Kept'[s] = Kept[s]
      BY <1>1, <1>4 DEF Kept
    <2> HIDE DEF c
    <2> QED
      BY <2>2, <2>7, <2>8, StoreMoves DEF ChargesAreExact
  <1>5. CASE m.kind = "frame" /\ appendOutput(r, m, res)
    BY <1>2, <1>3, <1>4, <1>5 DEF appendOutput
  <1>6. CASE m.kind = "end" /\ finishOutput(r, m, res)
    BY <1>2, <1>3, <1>6 DEF finishOutput, Message, Finished
  <1>7. CASE appendLowSpace(r, m)
    BY <1>3, <1>7 DEF appendLowSpace
  <1> QED
    BY <1>2, <1>5, <1>6, <1>7 DEF storeOutput

\* Every step keeps both counters exact.
LEMMA StepKeepsCharges ==
  ASSUME IInv, ChargesAreExact, [Next]_vars
  PROVE  ChargesAreExact'
  <1> DEFINE SpoolSame == /\ UNCHANGED <<emitted, held, endAck, usage>>
                          /\ \A r \in Runs : status'[r] = "absent" <=> status[r] = "absent"
             StoreSame == /\ UNCHANGED <<dLog, dUsage>>
                          /\ \A r \in Runs : dStatus'[r] = "absent" <=> dStatus[r] = "absent"
  <1>0. /\ status \in [Runs -> {"absent", "open", "complete", "truncated"}]
        /\ dStatus \in [Runs -> {"absent", "pending", "complete", "truncated"}]
    BY DEF IInv, TypeParts, StoreTypes, SpoolTypes
  <1>1. SpoolSame /\ StoreSame => ChargesAreExact'
    BY SpoolStays, StoreStays DEF ChargesAreExact
  <1>2. SpoolChargeIsExact' /\ StoreSame => ChargesAreExact'
    BY StoreStays DEF ChargesAreExact
  <1>3. SpoolSame /\ StoreChargeIsExact' => ChargesAreExact'
    BY SpoolStays DEF ChargesAreExact
  <1>4. CASE UNCHANGED <<spool, store>>
    BY <1>1, <1>4 DEF spool, store
  <1>5. CASE StartNode
    <2>1. SpoolSame /\ StoreSame
      BY <1>0, <1>5 DEF StartNode, store
    <2> QED
      BY <1>1, <2>1
  <1>6. ASSUME NEW s \in 1 .. MaxSessions, interruptUnresumableOutput(s) PROVE ChargesAreExact'
    <2>1. SpoolSame /\ StoreSame
      BY <1>0, <1>6 DEF interruptUnresumableOutput, unresumable, spool
    <2> QED
      BY <1>1, <2>1
  <1>7. ASSUME NEW r \in Runs, CreateOutput(r) PROVE ChargesAreExact'
    BY <1>3, <1>7, CreateCharges DEF CreateOutput, spool
  <1>8. ASSUME NEW r \in Runs, AdmitTx(r) PROVE ChargesAreExact'
    BY <1>2, <1>8, AdmitCharges DEF AdmitTx, store
  <1>9. ASSUME NEW r \in Runs, finishRefusedOutput(r) PROVE ChargesAreExact'
    <2>1. SpoolSame /\ StoreSame
      BY <1>0, <1>9 DEF finishRefusedOutput, FinalizeOutput, spool
    <2> QED
      BY <1>1, <2>1
  <1>10. ASSUME NEW r \in Runs, NEW d \in Data, Emit(r, d) PROVE ChargesAreExact'
    BY <1>2, <1>10, EmitCharges DEF Emit, Elsewhere, store
  <1>11. ASSUME NEW r \in Runs, NEW incomplete \in BOOLEAN, PumpFinish(r, incomplete) PROVE ChargesAreExact'
    <2>1. status[r] = "open"
      BY <1>11 DEF PumpFinish, IInv, WorkInv
    <2>2. \E v \in Finished : status' = [status EXCEPT ![r] = v]
      BY <1>11 DEF PumpFinish, FinishRun, Finished
    <2>3. SpoolSame /\ StoreSame
      BY <1>0, <1>11, <2>1, <2>2 DEF PumpFinish, FinishRun, Elsewhere, store, Finished
    <2> QED
      BY <1>1, <2>3
  <1>12. ASSUME NEW r \in Runs, NEW ok \in BOOLEAN, acknowledgeOutput(r, ok), worker[r] # "none",
                UNCHANGED store
         PROVE  ChargesAreExact'
    <2>1. ~ endAck[r] /\ status[r] # "absent"
      BY <1>12 DEF IInv, TypeParts, WorkTypes, WorkInv, Finished
    <2> QED
      BY <1>2, <1>12, <2>1, AckCharges DEF store
  <1>13. ASSUME NEW r \in Runs, Abandon(r), ~ endAck[r], status[r] \in Finished, UNCHANGED store
         PROVE  ChargesAreExact'
    BY <1>2, <1>13, ReleaseAllCharges DEF Abandon, store, Finished
  <1>14. ASSUME NEW r \in Runs, PumpHears(r) \/ PumpSettle(r) \/ PumpEnds(r) PROVE ChargesAreExact'
    BY <1>4, <1>12, <1>14 DEF PumpHears, PumpSettle, PumpEnds, Elsewhere
  <1>15. ASSUME NEW r \in Runs, RetryStart(r) \/ RetryHears(r) \/ RetryEnds(r) \/ RetryStops(r)
         PROVE  ChargesAreExact'
    <2>1. worker[r] = "retry" => ~ endAck[r] /\ status[r] \in Finished
      BY DEF IInv, WorkInv
    <2> QED
      BY <1>4, <1>12, <1>13, <1>15, <2>1 DEF RetryStart, RetryHears, RetryEnds, RetryStops, Elsewhere
  <1>16. ASSUME NEW r \in Runs, NEW m \in Message, NEW res, storeOutput(r, m, res), UNCHANGED spool
         PROVE  ChargesAreExact'
    BY <1>3, <1>16, StoreCharges DEF spool
  <1>17. ASSUME NEW r \in Runs, Serve(r) \/ ServeStray(r) PROVE ChargesAreExact'
    <2>1. msg[r] \in Message /\ stray[r] \subseteq Message
      BY DEF IInv, TypeParts, StreamTypes
    <2>2. CASE Serve(r)
      BY <1>16, <2>1, <2>2 DEF Serve
    <2>3. CASE ServeStray(r)
      BY <1>16, <2>1, <2>3 DEF ServeStray
    <2> QED
      BY <1>17, <2>2, <2>3
  <1> HIDE DEF SpoolSame, StoreSame
  <1>18. CASE Control
    BY <1>4, <1>5, <1>6, <1>18
       DEF Control, NewSession, SessionLost, DispatcherCrash, ExecutorCrash, interruptFailed
  <1>19. ASSUME NEW r \in Runs, Pump(r) PROVE ChargesAreExact'
    <2>1. CASE StartPump(r) \/ Cancel(r) \/ PumpFinishFails(r) \/ \E d \in Data : EmitLost(r, d)
      BY <1>4, <2>1 DEF StartPump, Cancel, PumpFinishFails, EmitLost, Elsewhere
    <2> QED
      BY <1>10, <1>11, <1>14, <1>19, <2>1 DEF Pump
  <1>20. ASSUME NEW r \in Runs, Stream(r) PROVE ChargesAreExact'
    <2>1. CASE DropStray(r) \/ LoseExchange(r) \/ ContextDone(r)
      BY <1>4, <2>1 DEF DropStray, LoseExchange, ContextDone, CutOff, Elsewhere
    <2> QED
      BY <1>17, <1>20, <2>1 DEF Stream
  <1>21. CASE UNCHANGED vars
    BY <1>4, <1>21 DEF vars
  <1> QED
    BY <1>7, <1>8, <1>9, <1>15, <1>18, <1>19, <1>20, <1>21 DEF Next, Retry

LEMMA InitCharges == Init => ChargesAreExact
  <1> SUFFICES ASSUME Init PROVE ChargesAreExact
    OBVIOUS
  <1>1. \A r \in Runs : Spooled[r] = 0 /\ Kept[r] = 0
    <2> SUFFICES ASSUME NEW r \in Runs PROVE Spooled[r] = 0 /\ Kept[r] = 0
      OBVIOUS
    <2>1. r \notin Unfinished /\ held[r] = {} /\ 1 .. Len(dLog[r]) = {} /\ dStatus[r] = "absent"
      <3>1. status[r] = "absent" /\ dStatus[r] = "absent" /\ held[r] = {} /\ dLog[r] = <<>>
        BY DEF Init
      <3>2. Len(<<>>) = 0 /\ 1 .. 0 = {}
        OBVIOUS
      <3>3. r \notin Unfinished
        BY <3>1 DEF Unfinished
      <3> QED
        BY <3>1, <3>2, <3>3
    <2>2. Charge(emitted[r], held[r]) = 0 /\ Charge(dLog[r], 1 .. Len(dLog[r])) = 0
      BY <2>1, ChargeOfNone
    <2>3. Spooled[r] = 0 + 0
      BY <2>1, <2>2 DEF Spooled
    <2>4. Kept[r] = 0 + 0
      BY <2>1, <2>2 DEF Kept
    <2> QED
      BY <2>3, <2>4
  <1>2. SumOver(Runs, Spooled) = 0 /\ SumOver(Runs, Kept) = 0
    <2>1. IsFiniteSet(Runs)
      BY OutputAssumption
    <2>2. SumOver(Runs, Spooled) = 0
      BY <1>1, <2>1, SumOfNothing
    <2>3. SumOver(Runs, Kept) = 0
      BY <1>1, <2>1, SumOfNothing
    <2> QED
      BY <2>2, <2>3
  <1>3. SpoolChargeIsExact /\ StoreChargeIsExact
    <2>1. SpoolBytes \in Nat /\ StoreBytes \in Nat
      BY OutputAssumption
    <2>2. usage = 0 /\ dUsage = 0
      BY DEF Init
    <2> QED
      BY <1>2, <2>1, <2>2, SpoolForm, StoreForm
  <1> QED
    BY <1>3 DEF ChargesAreExact

\* Both usage counters are what the runs occupy and within their limits, for any
\* number of runs and frames, through partial acknowledgements, truncations, lost
\* and repeated requests and restarts (AdmitTx, Append, Acknowledge,
\* AcceptTruncation, Abandon, createOutputMetadata, appendOutput).
THEOREM UsageIsExact == Spec => []ChargesAreExact
  BY InitCharges, StepKeepsCharges, DeliveryInvariant, PTL DEF Spec

-----------------------------------------------------------------------------
(* The refinement. *)

\* A step that leaves both logs, their states and their ends alone is not seen.
LEMMA Unseen ==
  ASSUME UNCHANGED <<status, emitted, dStatus, dLog>>
  PROVE  UNCHANGED <<emitted, writing, dLog, verdict>>
  BY DEF writing, verdict

\* A request that is true shows the next frame, or ends the output.
LEMMA StoreIsSeen ==
  ASSUME IInv, NEW r \in Runs, StoreEffect(r), status' = status, emitted' = emitted
  PROVE  Log!LogNext \/ UNCHANGED <<emitted, writing, dLog, verdict>>
  <1> USE DEF IInv, TypeParts
  <1>1. /\ dLog \in [Runs -> Seq(Data)] /\ emitted \in [Runs -> Seq(Data)]
        /\ status \in [Runs -> {"absent", "open", "complete", "truncated"}]
        /\ dStatus \in [Runs -> {"absent", "pending", "complete", "truncated"}]
    BY DEF StoreTypes, SpoolTypes
  <1>2. CASE UNCHANGED <<dStatus, dReason, dLog>>
    BY <1>2, Unseen
  <1>3. CASE /\ dStatus[r] = "pending" /\ Len(dLog[r]) < Last(r)
             /\ dLog' = [dLog EXCEPT ![r] = Append(dLog[r], emitted[r][Len(dLog[r]) + 1])]
             /\ UNCHANGED <<dStatus, dReason>>
    <2>1. writing' = writing /\ verdict' = verdict /\ verdict[r] = "open"
      BY <1>3 DEF writing, verdict
    <2>2. Log!Show(r)
      BY <1>1, <1>3, <2>1 DEF Log!Show, Last
    <2> QED
      BY <2>2 DEF Log!LogNext
  <1>4. ASSUME NEW v \in Finished, NEW w \in Reasons, dStatus[r] = "pending", UNCHANGED dLog,
               dStatus' = [dStatus EXCEPT ![r] = v],
               \/ v = "truncated"
               \/ status[r] \in Finished /\ Len(dLog[r]) = Last(r) /\ v = status[r]
        PROVE  Log!LogNext
    <2>1. verdict \in [Runs -> {"none", "open", "complete", "truncated"}] /\ verdict[r] = "open"
      BY <1>1, <1>4 DEF verdict
    <2>2. verdict' = [verdict EXCEPT ![r] = v]
      <3>1. \A s \in Runs : verdict'[s] = IF s = r THEN v ELSE verdict[s]
        BY <1>1, <1>4 DEF verdict, Finished
      <3>2. verdict' = [s \in Runs |-> verdict'[s]]
        BY DEF verdict
      <3> QED
        BY <2>1, <3>1, <3>2
    <2>3. CASE v = "truncated"
      <3>1. \A s \in Runs : (dStatus'[s] # "complete") = (dStatus[s] # "complete")
        BY <1>1, <1>4, <2>3
      <3>2. writing' = writing
        BY <3>1 DEF writing
      <3>3. Log!Truncate({r})
        BY <1>4, <2>1, <2>2, <2>3, <3>2 DEF Log!Truncate
      <3> QED
        BY <3>3 DEF Log!LogNext
    <2>4. CASE v # "truncated"
      <3>1. v = "complete" /\ status[r] = "complete" /\ Len(dLog[r]) = Last(r)
        BY <1>4, <2>4 DEF Finished
      <3>2. writing' = writing /\ ~ writing[r]
        BY <1>1, <1>4, <3>1 DEF writing
      <3>3. dLog[r] = emitted[r]
        BY <1>1, <3>1, SameSequence DEF PrefixInv, Last
      <3>4. Log!Complete(r)
        BY <1>4, <2>1, <2>2, <3>1, <3>2, <3>3 DEF Log!Complete
      <3> QED
        BY <3>4 DEF Log!LogNext
    <2> QED
      BY <2>3, <2>4
  <1> QED
    BY <1>2, <1>3, <1>4 DEF StoreEffect

\* Each step is one that a reader may see, or is not seen.
LEMMA StepIsSeen ==
  ASSUME IInv, [Next]_vars
  PROVE  [Log!LogNext]_(Log!logVars)
  <1> DEFINE Quiet == UNCHANGED <<status, emitted, dStatus, dLog>>
  <1> DEFINE Seen == Log!LogNext \/ UNCHANGED <<emitted, writing, dLog, verdict>>
  <1> SUFFICES Seen
    BY DEF Log!logVars
  <1> USE DEF IInv, TypeParts
  <1>0. /\ status \in [Runs -> {"absent", "open", "complete", "truncated"}]
        /\ dStatus \in [Runs -> {"absent", "pending", "complete", "truncated"}]
        /\ emitted \in [Runs -> Seq(Data)] /\ dLog \in [Runs -> Seq(Data)]
    BY DEF StoreTypes, SpoolTypes
  <1>1. Quiet => Seen
    BY Unseen
  <1>2. CASE UNCHANGED vars
    BY <1>1, <1>2 DEF vars, spool, store
  <1>3. ASSUME NewSession \/ SessionLost \/ DispatcherCrash \/ ExecutorCrash
        PROVE  Seen
    BY <1>1, <1>3 DEF NewSession, SessionLost, DispatcherCrash, ExecutorCrash, spool, store
  <1>4. ASSUME StartNode PROVE Seen
    <2> DEFINE open == {r \in Runs : status[r] = "open"}
    <2>1. verdict' = verdict /\ emitted' = emitted /\ dLog' = dLog /\ dStatus' = dStatus
      BY <1>4 DEF StartNode, store, verdict
    <2>2. \A r \in Runs : writing'[r] = (writing[r] /\ r \notin open)
      BY <1>0, <1>4, <2>1 DEF StartNode, writing
    <2>3. writing' = [r \in Runs |-> writing'[r]]
      BY DEF writing
    <2>4. writing' = [r \in Runs |-> writing[r] /\ r \notin open]
      BY <2>2, <2>3
    <2>5. Log!Stop(open)
      BY <2>1, <2>4 DEF Log!Stop
    <2>6. open \in SUBSET Runs
      OBVIOUS
    <2> HIDE DEF open
    <2> QED
      BY <2>5, <2>6 DEF Log!LogNext
  <1>5. ASSUME NEW s \in 1 .. MaxSessions, interruptUnresumableOutput(s) PROVE Seen
    <2> DEFINE cut == unresumable(s)
    <2>1. /\ emitted' = emitted /\ dLog' = dLog /\ status' = status /\ cut \subseteq Runs
          /\ \A r \in cut : dStatus[r] = "pending"
          /\ dStatus' = [r \in Runs |-> IF r \in cut THEN "truncated" ELSE dStatus[r]]
      BY <1>5 DEF interruptUnresumableOutput, unresumable, spool
    <2> HIDE DEF cut
    <2>2. \A r \in cut : verdict[r] = "open"
      BY <2>1 DEF verdict
    <2>3. \A r \in Runs : verdict'[r] = IF r \in cut THEN "truncated" ELSE verdict[r]
      BY <2>1 DEF verdict
    <2>4. verdict' = [r \in Runs |-> verdict'[r]]
      BY DEF verdict
    <2>5. verdict' = [r \in Runs |-> IF r \in cut THEN "truncated" ELSE verdict[r]]
      BY <2>3, <2>4
    <2>6. \A r \in Runs : (dStatus'[r] # "complete") = (dStatus[r] # "complete")
      BY <2>1
    <2>7. writing' = writing
      BY <2>1, <2>6 DEF writing
    <2>8. Log!Truncate(cut)
      BY <2>1, <2>2, <2>5, <2>7 DEF Log!Truncate
    <2> QED
      BY <2>1, <2>8 DEF Log!LogNext
  <1>6. ASSUME NEW s \in 1 .. MaxSessions, interruptFailed(s) PROVE Seen
    BY <1>1, <1>6 DEF interruptFailed, spool, store
  <1>7. ASSUME NEW r \in Runs, CreateOutput(r) PROVE Seen
    <2>1. /\ emitted' = emitted /\ dLog' = dLog /\ status' = status /\ dStatus[r] = "absent"
          /\ dStatus' = [dStatus EXCEPT ![r] = "pending"]
      BY <1>7 DEF CreateOutput, spool
    <2>2. \A s \in Runs : verdict'[s] = IF s = r THEN "open" ELSE verdict[s]
      BY <1>0, <2>1 DEF verdict
    <2>3. verdict \in [Runs -> {"none", "open", "complete", "truncated"}] /\ verdict[r] = "none"
      BY <1>0, <2>1 DEF verdict
    <2>4. verdict' = [s \in Runs |-> verdict'[s]]
      BY DEF verdict
    <2>5. verdict' = [verdict EXCEPT ![r] = "open"]
      BY <2>2, <2>3, <2>4
    <2>6. \A s \in Runs : (dStatus'[s] # "complete") = (dStatus[s] # "complete")
      BY <1>0, <2>1
    <2>7. writing' = writing
      BY <2>1, <2>6 DEF writing
    <2>8. Log!Open(r)
      BY <2>1, <2>3, <2>5, <2>7 DEF Log!Open
    <2> QED
      BY <2>8 DEF Log!LogNext
  <1>8. ASSUME NEW r \in Runs, AdmitTx(r) PROVE Seen
    <2>1. /\ emitted' = emitted /\ dLog' = dLog /\ dStatus' = dStatus /\ status[r] = "absent"
          /\ dStatus[r] = "pending" /\ status' = [status EXCEPT ![r] = "open"]
      BY <1>8 DEF AdmitTx, store
    <2>2. verdict' = verdict
      BY <2>1 DEF verdict
    <2>3. \A s \in Runs : writing'[s] = writing[s]
      BY <1>0, <2>1 DEF writing
    <2>4. writing' = writing
      BY <2>3 DEF writing
    <2> QED
      BY <2>1, <2>2, <2>4
  <1>9. ASSUME NEW r \in Runs, finishRefusedOutput(r) PROVE Seen
    <2>1. /\ emitted' = emitted /\ dLog' = dLog /\ status' = status /\ status[r] = "absent"
          /\ dStatus[r] = "pending" /\ dStatus' = [dStatus EXCEPT ![r] = "complete"]
      BY <1>9 DEF finishRefusedOutput, FinalizeOutput, spool
    <2>2. \A s \in Runs : verdict'[s] = IF s = r THEN "complete" ELSE verdict[s]
      BY <1>0, <2>1 DEF verdict
    <2>3. \A s \in Runs : writing'[s] = IF s = r THEN FALSE ELSE writing[s]
      BY <1>0, <2>1 DEF writing
    <2>4. verdict' = [s \in Runs |-> verdict'[s]] /\ writing' = [s \in Runs |-> writing'[s]]
      BY DEF verdict, writing
    <2>5. verdict = [s \in Runs |-> verdict[s]] /\ writing = [s \in Runs |-> writing[s]]
      BY DEF verdict, writing
    <2>6. verdict' = [verdict EXCEPT ![r] = "complete"]
      BY <2>2, <2>4, <2>5
    <2>7. writing' = [writing EXCEPT ![r] = FALSE]
      BY <2>3, <2>4, <2>5
    <2>8. verdict[r] = "open" /\ emitted[r] = <<>>
      BY <2>1 DEF verdict, AbsentInv
    <2>9. Log!Refuse(r)
      BY <2>1, <2>6, <2>7, <2>8 DEF Log!Refuse
    <2> QED
      BY <2>9 DEF Log!LogNext
  <1>10. ASSUME NEW r \in Runs, NEW d \in Data, Emit(r, d) PROVE Seen
    <2>1. /\ emitted' = [emitted EXCEPT ![r] = Append(emitted[r], d)]
          /\ dLog' = dLog /\ dStatus' = dStatus /\ status' = status
      BY <1>10 DEF Emit, Stored, Elsewhere, store
    <2>2. writing' = writing /\ verdict' = verdict
      BY <2>1 DEF writing, verdict
    <2>3. status[r] = "open"
      BY <1>10 DEF Emit, WorkInv
    <2>4. writing[r]
      BY <2>3 DEF writing
    <2>5. Log!Write(r, d)
      BY <2>1, <2>2, <2>4 DEF Log!Write
    <2> QED
      BY <2>5 DEF Log!LogNext
  <1>11. ASSUME NEW r \in Runs, NEW incomplete \in BOOLEAN, PumpFinish(r, incomplete) PROVE Seen
    <2>1. dLog' = dLog /\ dStatus' = dStatus /\ emitted' = emitted
      BY <1>11 DEF PumpFinish, FinishRun, Elsewhere, store
    <2>2. \E v \in Finished : status' = [status EXCEPT ![r] = v]
      BY <1>11 DEF PumpFinish, FinishRun, Finished
    <2>3. status[r] = "open"
      BY <1>11 DEF PumpFinish, WorkInv
    <2>4. \A s \in Runs : writing'[s] = (writing[s] /\ s \notin {r})
      BY <1>0, <2>1, <2>2, <2>3 DEF writing, Finished
    <2>5. writing' = [s \in Runs |-> writing'[s]]
      BY DEF writing
    <2>6. writing' = [s \in Runs |-> writing[s] /\ s \notin {r}]
      BY <2>4, <2>5
    <2>7. verdict' = verdict
      BY <2>1 DEF verdict
    <2>8. Log!Stop({r})
      BY <2>1, <2>6, <2>7 DEF Log!Stop
    <2> QED
      BY <2>8 DEF Log!LogNext
  <1>12. ASSUME NEW r \in Runs, \/ StartPump(r) \/ PumpHears(r) \/ Cancel(r) \/ PumpFinishFails(r)
                                \/ PumpSettle(r) \/ PumpEnds(r)
                                \/ \E d \in Data : EmitLost(r, d)
         PROVE  Seen
    <2>1. Quiet
      BY <1>12 DEF StartPump, PumpHears, Cancel, PumpFinishFails, PumpSettle, PumpEnds, EmitLost,
         Elsewhere, store, spool, acknowledgeOutput, AcceptTruncation, ReleaseAll, Acknowledge
    <2> QED
      BY <1>1, <2>1
  <1>13. ASSUME NEW r \in Runs, Retry(r) PROVE Seen
    <2>1. Quiet
      BY <1>13 DEF Retry, RetryStart, RetryHears, RetryEnds, RetryStops, Abandon, Elsewhere, store,
         spool, acknowledgeOutput, AcceptTruncation, ReleaseAll, Acknowledge
    <2> QED
      BY <1>1, <2>1
  <1>14. ASSUME NEW r \in Runs, DropStray(r) \/ LoseExchange(r) \/ ContextDone(r) PROVE Seen
    BY <1>1, <1>14 DEF DropStray, LoseExchange, ContextDone, CutOff, Elsewhere, store, spool
  <1>15. ASSUME NEW r \in Runs, Serve(r) PROVE Seen
    <2>1. msg[r] \in Message /\ Right(r, msg[r]) /\ status' = status /\ emitted' = emitted
      BY <1>15 DEF Serve, MsgInv, StreamTypes, spool
    <2>2. \E res : storeOutput(r, msg[r], res)
      BY <1>15 DEF Serve
    <2>3. StoreEffect(r)
      BY <2>1, <2>2, StoreHasEffect
    <2> QED
      BY <2>1, <2>3, StoreIsSeen
  <1>16. ASSUME NEW r \in Runs, ServeStray(r) PROVE Seen
    <2>1. PICK m \in stray[r] : \E res : storeOutput(r, m, res)
      BY <1>16 DEF ServeStray
    <2>2. m \in Message /\ Right(r, m)
      BY <2>1 DEF MsgInv, StreamTypes
    <2>3. StoreEffect(r)
      BY <2>1, <2>2, StoreHasEffect
    <2>4. status' = status /\ emitted' = emitted
      BY <1>16 DEF ServeStray, spool
    <2> QED
      BY <2>3, <2>4, StoreIsSeen
  <1> HIDE DEF Seen, Quiet
  <1>17. CASE Control
    BY <1>3, <1>4, <1>5, <1>6, <1>17 DEF Control
  <1>18. ASSUME NEW r \in Runs, Pump(r) PROVE Seen
    BY <1>10, <1>11, <1>12, <1>18 DEF Pump
  <1>19. ASSUME NEW r \in Runs, Stream(r) PROVE Seen
    BY <1>14, <1>15, <1>16, <1>19 DEF Stream
  <1> QED
    BY <1>2, <1>7, <1>8, <1>9, <1>13, <1>17, <1>18, <1>19 DEF Next

\* Readers see a growing prefix of what the run wrote, a final output never
\* changes, and it is complete only when everything is there: OutputDelivery
\* implements OutputLog (storeOutput, appendOutput, finishOutput,
\* finishRefusedOutput, interruptUnresumableOutput).
THEOREM DeliveryImplementsLog == Spec => ImplementsLog
  <1>1. Init => Log!LogInit
    <2> SUFFICES ASSUME Init PROVE Log!LogInit
      OBVIOUS
    <2>1. \A r \in Runs : writing[r] = TRUE
      BY DEF Init, writing
    <2>2. writing = [r \in Runs |-> TRUE]
      BY <2>1 DEF writing
    <2>3. verdict = [r \in Runs |-> "none"]
      BY DEF Init, verdict
    <2> QED
      BY <2>2, <2>3 DEF Init, Log!LogInit
  <1>2. IInv /\ [Next]_vars => [Log!LogNext]_(Log!logVars)
    BY StepIsSeen
  <1> QED
    BY <1>1, <1>2, DeliveryInvariant, PTL DEF Spec, ImplementsLog, Log!LogSpec

=============================================================================
