------------------------------ MODULE OutputLog ------------------------------
(***************************************************************************)
(* What a reader of a run's output is promised: the lines shown are, at    *)
(* every moment, the first lines the run wrote; once the output is         *)
(* declared final nothing is added or changed; and it is declared complete *)
(* only when the run has stopped writing and everything it wrote is shown. *)
(* OutputDelivery implements this.                                         *)
(***************************************************************************)
EXTENDS Naturals, Sequences

CONSTANTS Runs, Data

VARIABLES
  written,  \* written[r]: what the run has written so far
  writing,  \* writing[r]: it may still write
  shown,    \* shown[r]: what a reader sees
  verdict   \* verdict[r]: "none", "open", "complete" or "truncated"

logVars == <<written, writing, shown, verdict>>

LogInit ==
  /\ written = [r \in Runs |-> <<>>] /\ shown = [r \in Runs |-> <<>>]
  /\ writing = [r \in Runs |-> TRUE] /\ verdict = [r \in Runs |-> "none"]

Open(r) ==
  /\ verdict[r] = "none" /\ verdict' = [verdict EXCEPT ![r] = "open"]
  /\ UNCHANGED <<written, writing, shown>>

Write(r, d) ==
  /\ writing[r] /\ written' = [written EXCEPT ![r] = Append(@, d)]
  /\ UNCHANGED <<writing, shown, verdict>>

\* One run, or every run of a process that died, stops writing.
Stop(S) ==
  /\ writing' = [r \in Runs |-> writing[r] /\ r \notin S]
  /\ UNCHANGED <<written, shown, verdict>>

Show(r) ==
  /\ verdict[r] = "open" /\ Len(shown[r]) < Len(written[r])
  /\ shown' = [shown EXCEPT ![r] = Append(@, written[r][Len(@) + 1])]
  /\ UNCHANGED <<written, writing, verdict>>

Complete(r) ==
  /\ verdict[r] = "open" /\ ~ writing[r] /\ shown[r] = written[r]
  /\ verdict' = [verdict EXCEPT ![r] = "complete"]
  /\ UNCHANGED <<written, writing, shown>>

\* An upload the executor refused never writes: its empty output is complete.
Refuse(r) ==
  /\ verdict[r] = "open" /\ written[r] = <<>>
  /\ writing' = [writing EXCEPT ![r] = FALSE]
  /\ verdict' = [verdict EXCEPT ![r] = "complete"]
  /\ UNCHANGED <<written, shown>>

Truncate(S) ==
  /\ \A r \in S : verdict[r] = "open"
  /\ verdict' = [r \in Runs |-> IF r \in S THEN "truncated" ELSE verdict[r]]
  /\ UNCHANGED <<written, writing, shown>>

LogNext ==
  \/ \E r \in Runs : Open(r) \/ Show(r) \/ Complete(r) \/ Refuse(r)
  \/ \E r \in Runs, d \in Data : Write(r, d)
  \/ \E S \in SUBSET Runs : Stop(S) \/ Truncate(S)

LogSpec == LogInit /\ [][LogNext]_logVars
=============================================================================
