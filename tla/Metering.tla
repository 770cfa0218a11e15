------------------------------ MODULE Metering ------------------------------
(***************************************************************************)
(* What metering promises (meter.rs, "every request that crosses the        *)
(* gateway is metered", and proxy.rs, finish): the step that ends an answer *)
(* gives its account, which is written once and stands for good.  Whoever   *)
(* reads the records finds the end of all that was written.                 *)
(***************************************************************************)
EXTENDS Integers, Sequences

CONSTANTS Requests,
          Records,     \* the accounts there can be, each of a request, req
          MaxRecords,  \* how many of them can be read
          Capturing    \* whether exchanges are kept besides

VARIABLES ended,    \* the requests that are over
          account,  \* what each was answered: one record, or none
          log,      \* all that was written
          shown,    \* what can be read of it
          kept      \* the exchanges kept

meterVars == <<ended, account, log, shown, kept>>

Newest(l) ==
    SubSeq(l, IF Len(l) <= MaxRecords THEN 1 ELSE Len(l) - MaxRecords + 1, Len(l))

Init ==
    /\ ended = {}
    /\ account = [r \in Requests |-> {}]
    /\ log = <<>> /\ shown = <<>> /\ kept = <<>>

\* A request ends once.
End(r) == r \notin ended /\ ended' = ended \cup {r}

\* With an answer, whole or cut short.
Answer(r, record) ==
    /\ record.req = r
    /\ account' = [account EXCEPT ![r] = {record}]
    /\ log' = Append(log, record)
    /\ shown' = Newest(log')
    /\ kept' = IF Capturing THEN Append(kept, r) ELSE kept

\* Without one.
NoAnswer == UNCHANGED <<account, log, shown, kept>>

Next == \E r \in Requests : End(r) /\ (NoAnswer \/ \E record \in Records : Answer(r, record))
Spec == Init /\ [][Next]_meterVars
=============================================================================
