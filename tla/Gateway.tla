------------------------------ MODULE Gateway ------------------------------
(***************************************************************************)
(* The datapath (onpar-gateway/src/proxy.rs) together with the control      *)
(* surface: chat completions are decided under the router's read lock, sent *)
(* upstream with failover, answered whole or as a stream, mirrored by a     *)
(* spawned task, and recorded, while phase changes happen.  Any step that   *)
(* waits for an upstream may see an answer or a transport error, and a      *)
(* client may go away at any time, which drops its handler or its stream.   *)
(***************************************************************************)
EXTENDS Control, SequencesExt

CONSTANTS Requests,    \* chat completions, each served once
          Asks,        \* what clients ask for: cluster, bucketing key, streaming
          MaxRecords,  \* AppState::max_records
          Capturing    \* a capture store is configured

ASSUME AsksAssumption == Asks \subseteq [cluster : Targets, key : Keys, streaming : BOOLEAN]
ASSUME KeysAssumption == Keys # {}
ASSUME MaxRecordsAssumption == MaxRecords \in Nat \ {0}
ASSUME CapturingAssumption == Capturing \in BOOLEAN

VARIABLES at,          \* where each request is
          asked,       \* what each request asked for
          decision,    \* the Decision each handler cloned out of the router
          served_by,   \* the backend whose answer the client gets
          failed_over, \* the primary was unreachable and the fallback was tried
          reported,    \* the request's meter has seen a usage object
          mirror,      \* the mirror task of each request
          mirrorSent,  \* observation: the candidate's mirrored answer held usage
          mirrorSeen,  \* the mirror task's meter has seen a usage object
          records,     \* AppState::records
          mirrors,     \* AppState::mirrors
          recordLog,   \* observation: every record ever written
          captured     \* requests handed to the capture store, with multiplicity

choiceVars == <<asked, decision>>
requestVars == <<choiceVars, at, served_by, failed_over, reported>>
mirrorVars == <<mirror, mirrorSent, mirrorSeen, mirrors>>
evidenceVars == <<records, recordLog, captured>>
gatewayVars == <<requestVars, mirrorVars, evidenceVars>>
vars == <<controlVars, gatewayVars>>

\* "done": answered in full.  "cut": a stream that ended early.  "failed": a
\* 502.  "gone": the client left before the response headers were sent.
Waiting == {"primary", "fallback", "body"}
Finished == {"done", "cut", "failed", "gone", "bad"}
At == {"unsent", "stream"} \cup Waiting \cup Finished

NoAsk == [cluster |-> DefaultRoute, key |-> CHOOSE k \in Keys : TRUE, streaming |-> FALSE]
NoDecision == [serve |-> Incumbent, mirror |-> NoBackend, fallback |-> NoBackend]

\* What one request cost and where it went.  The request's identity stands
\* for the model, reason, status and duration the code keeps.
Record == [req : Requests, backend : Backends, failed_over : BOOLEAN,
           mirrored_to : Backends \cup {NoBackend}, streaming : BOOLEAN,
           reported : BOOLEAN]
MirrorRecord == [req : Requests, backend : Backends, reported : BOOLEAN,
                 error : BOOLEAN]

GatewayTypeOK ==
    /\ ControlTypeOK
    /\ at \in [Requests -> At]
    /\ asked \in [Requests -> [cluster : Targets, key : Keys, streaming : BOOLEAN]]
    /\ decision \in [Requests -> Decision]
    /\ served_by \in [Requests -> Backends \cup {NoBackend}]
    /\ failed_over \in [Requests -> BOOLEAN]
    /\ reported \in [Requests -> BOOLEAN]
    /\ mirror \in [Requests -> {"none", "sending", "reading", "done"}]
    /\ mirrorSent \in [Requests -> BOOLEAN]
    /\ mirrorSeen \in [Requests -> BOOLEAN]
    /\ records \in Seq(Record) /\ Len(records) <= MaxRecords
    /\ mirrors \in Seq(MirrorRecord) /\ Len(mirrors) <= MaxRecords
    /\ recordLog \in Seq(Record)
    /\ captured \in Seq(Requests)

GatewayInit ==
    /\ at = [r \in Requests |-> "unsent"]
    /\ asked = [r \in Requests |-> NoAsk]
    /\ decision = [r \in Requests |-> NoDecision]
    /\ served_by = [r \in Requests |-> NoBackend]
    /\ failed_over = [r \in Requests |-> FALSE]
    /\ reported = [r \in Requests |-> FALSE]
    /\ mirror = [r \in Requests |-> "none"]
    /\ mirrorSent = [r \in Requests |-> FALSE]
    /\ mirrorSeen = [r \in Requests |-> FALSE]
    /\ records = <<>>
    /\ mirrors = <<>>
    /\ recordLog = <<>>
    /\ captured = <<>>
-----------------------------------------------------------------------------
(* Evidence: records are capped, the oldest going first. *)

PushCapped(q, x) ==
    IF Len(q) >= MaxRecords THEN Append(Tail(q), x) ELSE Append(q, x)

RecordOf(r, usage) ==
    [req |-> r, backend |-> served_by[r], failed_over |-> failed_over[r],
     mirrored_to |-> decision[r].mirror, streaming |-> asked[r].streaming,
     reported |-> usage]

\* Hand the exchange to the capture store and write its record.
Conclude(r, usage) ==
    /\ captured' = IF Capturing THEN Append(captured, r) ELSE captured
    /\ records' = PushCapped(records, RecordOf(r, usage))
    /\ recordLog' = Append(recordLog, RecordOf(r, usage))
-----------------------------------------------------------------------------
(* The request handler, chat_completions. *)

\* A body that is not JSON is refused before anything else happens.
BadRequest(r) ==
    /\ at[r] = "unsent"
    /\ at' = [at EXCEPT ![r] = "bad"]
    /\ UNCHANGED <<controlVars, choiceVars, served_by, failed_over, reported,
                   mirrorVars, evidenceVars>>

\* Decide under the read lock, spawn the mirror, start sending to the primary.
Start(r) ==
    /\ at[r] = "unsent"
    /\ writer = Unlocked
    /\ \E ask \in Asks :
         LET d == Decide(router, ask.cluster, ask.key) IN
         /\ asked' = [asked EXCEPT ![r] = ask]
         /\ decision' = [decision EXCEPT ![r] = d]
         /\ served_by' = [served_by EXCEPT ![r] = d.serve]
         /\ mirror' = [mirror EXCEPT ![r] = IF d.mirror = NoBackend THEN "none" ELSE "sending"]
    /\ at' = [at EXCEPT ![r] = "primary"]
    /\ UNCHANGED <<controlVars, failed_over, reported, mirrorSent, mirrorSeen,
                   mirrors, evidenceVars>>

\* The backend whose response is awaited answers with headers, any status.
UpstreamAnswers(r) ==
    /\ at[r] \in {"primary", "fallback"}
    /\ at' = [at EXCEPT ![r] = IF asked[r].streaming THEN "stream" ELSE "body"]
    /\ UNCHANGED <<controlVars, choiceVars, served_by, failed_over, reported,
                   mirrorVars, evidenceVars>>

\* The primary cannot be reached and the decision names a fallback.
FailOver(r) ==
    /\ at[r] = "primary"
    /\ decision[r].fallback # NoBackend
    /\ at' = [at EXCEPT ![r] = "fallback"]
    /\ failed_over' = [failed_over EXCEPT ![r] = TRUE]
    /\ served_by' = [served_by EXCEPT ![r] = decision[r].fallback]
    /\ UNCHANGED <<controlVars, choiceVars, reported, mirrorVars,
                   evidenceVars>>

\* No fallback, or it failed as well: send's error is the reply.
UpstreamUnreachable(r) ==
    /\ \/ at[r] = "primary" /\ decision[r].fallback = NoBackend
       \/ at[r] = "fallback"
    /\ at' = [at EXCEPT ![r] = "failed"]
    /\ UNCHANGED <<controlVars, choiceVars, served_by, failed_over, reported,
                   mirrorVars, evidenceVars>>

\* A whole body was read: meter it, capture it, record it, answer.
AnswerBody(r) ==
    /\ at[r] = "body"
    /\ at' = [at EXCEPT ![r] = "done"]
    /\ \E usage \in BOOLEAN :
         /\ reported' = [reported EXCEPT ![r] = usage]
         /\ Conclude(r, usage)
    /\ UNCHANGED <<controlVars, choiceVars, served_by, failed_over,
                   mirrorVars>>

\* Reading the body fails: a 502, and nothing is recorded.
BodyFails(r) ==
    /\ at[r] = "body"
    /\ at' = [at EXCEPT ![r] = "failed"]
    /\ UNCHANGED <<controlVars, choiceVars, served_by, failed_over, reported,
                   mirrorVars, evidenceVars>>

\* A chunk passes through whose events hold a usage object.  Chunks without
\* one change nothing the model keeps.
StreamUsage(r) ==
    /\ at[r] = "stream"
    /\ ~reported[r]
    /\ reported' = [reported EXCEPT ![r] = TRUE]
    /\ UNCHANGED <<controlVars, choiceVars, at, served_by, failed_over,
                   mirrorVars, evidenceVars>>

\* Variant: nothing is written when the stream is abandoned.
FinishOnlyOnCompletion(r, end) ==
    /\ at[r] = "stream"
    /\ at' = [at EXCEPT ![r] = end]
    /\ IF end = "done" THEN Conclude(r, reported[r]) ELSE UNCHANGED evidenceVars
    /\ UNCHANGED <<controlVars, choiceVars, served_by, failed_over, reported,
                   mirrorVars>>
\* FinishOnDrop: the stream completes ("done"), or it fails upstream or the
\* client leaves ("cut"); either way the drop writes record and capture.
FinishOnDrop(r, end) ==
    /\ at[r] = "stream"
    /\ at' = [at EXCEPT ![r] = end]
    /\ Conclude(r, reported[r])
    /\ UNCHANGED <<controlVars, choiceVars, served_by, failed_over, reported,
                   mirrorVars>>

\* The client leaves while the handler waits: its future is dropped.
ClientGone(r) ==
    /\ at[r] \in Waiting
    /\ at' = [at EXCEPT ![r] = "gone"]
    /\ UNCHANGED <<controlVars, choiceVars, served_by, failed_over, reported,
                   mirrorVars, evidenceVars>>
-----------------------------------------------------------------------------
(* The spawned mirror task, dispatch_mirror. *)

MirrorRecordOf(r, err) ==
    [req |-> r, backend |-> decision[r].mirror, reported |-> mirrorSeen[r], error |-> err]

MirrorAnswers(r) ==
    /\ mirror[r] = "sending"
    /\ mirror' = [mirror EXCEPT ![r] = "reading"]
    /\ UNCHANGED <<controlVars, requestVars, mirrorSent, mirrorSeen, mirrors,
                   evidenceVars>>

\* A usage object the meter can see: an event of a stream, or a JSON body that
\* arrives in one chunk.
MirrorUsage(r) ==
    /\ mirror[r] = "reading"
    /\ ~mirrorSent[r]
    /\ mirrorSent' = [mirrorSent EXCEPT ![r] = TRUE]
    /\ mirrorSeen' = [mirrorSeen EXCEPT ![r] = TRUE]
    /\ UNCHANGED <<controlVars, requestVars, mirror, mirrors, evidenceVars>>

\* A JSON body in several chunks: each chunk is parsed by itself, and none of
\* them is JSON.
MirrorUsageSplit(r) ==
    /\ mirror[r] = "reading"
    /\ ~mirrorSent[r]
    /\ mirrorSent' = [mirrorSent EXCEPT ![r] = TRUE]
    /\ UNCHANGED <<controlVars, requestVars, mirror, mirrorSeen, mirrors,
                   evidenceVars>>

\* Variant: a candidate that cannot be reached leaves no trace.
MirrorOnlyOnSuccess(r, err) ==
    /\ mirror[r] = "reading" \/ (mirror[r] = "sending" /\ err)
    /\ mirror' = [mirror EXCEPT ![r] = "done"]
    /\ mirrors' = IF err THEN mirrors ELSE PushCapped(mirrors, MirrorRecordOf(r, err))
    /\ UNCHANGED <<controlVars, requestVars, mirrorSent, mirrorSeen,
                   evidenceVars>>
\* The mirror is drained, fails while it is read, or could not be sent.
RecordMirror(r, err) ==
    /\ mirror[r] = "reading" \/ (mirror[r] = "sending" /\ err)
    /\ mirror' = [mirror EXCEPT ![r] = "done"]
    /\ mirrors' = PushCapped(mirrors, MirrorRecordOf(r, err))
    /\ UNCHANGED <<controlVars, requestVars, mirrorSent, mirrorSeen,
                   evidenceVars>>
-----------------------------------------------------------------------------
Progress(r) ==
    \/ UpstreamAnswers(r) \/ FailOver(r) \/ UpstreamUnreachable(r)
    \/ AnswerBody(r) \/ BodyFails(r) \/ FinishOnDrop(r, "done") \/ FinishOnDrop(r, "cut")
MirrorProgress(r) == MirrorAnswers(r) \/ \E err \in BOOLEAN : RecordMirror(r, err)

RequestNext(r) ==
    \/ BadRequest(r) \/ Start(r) \/ StreamUsage(r) \/ ClientGone(r) \/ Progress(r)
    \/ MirrorUsage(r) \/ MirrorUsageSplit(r) \/ MirrorProgress(r)

Init == ControlInit /\ GatewayInit
Next == \/ ControlNext /\ UNCHANGED gatewayVars
        \/ \E r \in Requests : RequestNext(r)

\* An upstream answers or its connection fails in the end: the environment's
\* part, since the client has no timeout of its own.  Started handlers and
\* spawned tasks are run by the runtime.
Fairness ==
    /\ \A h \in Handlers : WF_vars(Serve1(h) /\ UNCHANGED gatewayVars)
    /\ \A r \in Requests : WF_vars(Progress(r)) /\ WF_vars(MirrorProgress(r))

Spec == Init /\ [][Next]_vars
FairSpec == Spec /\ Fairness
-----------------------------------------------------------------------------
(* Properties *)

\* router.rs: "shadow - candidate scored, never served", and failover goes
\* only back to the incumbent.  Across every interleaving of requests, their
\* failovers and phase changes: a request the candidate serves was put there
\* by a change a human confirmed, at a share that covers the request's bucket.
CandidateServesOnlyApproved ==
    \A r \in Requests :
        served_by[r] \notin {Incumbent, NoBackend} =>
            \E i \in DOMAIN applied :
                /\ applied[i].confirmed
                /\ Bucket[asked[r].key] < applied[i].to_percent

\* Every request that was answered, in full or cut short, is recorded exactly
\* once and, when capture is on, captured exactly once, under the backend that
\* answered; no other request is.
ExactlyOneRecord ==
    \A r \in Requests :
        LET mine == {i \in DOMAIN recordLog : recordLog[i].req = r}
            kept == {i \in DOMAIN captured : captured[i] = r}
        IN IF at[r] \in {"done", "cut"}
           THEN /\ Cardinality(mine) = 1
                /\ \A i \in mine : recordLog[i] = RecordOf(r, reported[r])
                /\ Cardinality(kept) = IF Capturing THEN 1 ELSE 0
           ELSE mine = {} /\ kept = {}

\* The cap drops the oldest records and nothing else: what is retained is the
\* end of all that was written.
NewestRetained ==
    /\ IsSuffix(records, recordLog)
    /\ Len(records) = IF Len(recordLog) <= MaxRecords THEN Len(recordLog) ELSE MaxRecords

\* What the control plane can read of live traffic is all of it, once, up to
\* the cap (finish and the record log).
RecordsComplete == GatewayTypeOK /\ ExactlyOneRecord /\ NewestRetained

\* meter.rs: "Every request that crosses the gateway is metered".  The step that
\* ends an answer, or drops its stream, accounts for it; no later step of any
\* handler, mirror or phase change adds an account, takes one back, or changes
\* what the request was answered (Metering).
Meter == INSTANCE Metering WITH
             Records <- Record,
             ended <- {r \in Requests : at[r] \in Finished},
             account <- [r \in Requests |-> IF at[r] \in {"done", "cut"}
                                           THEN {RecordOf(r, reported[r])} ELSE {}],
             log <- recordLog, shown <- records, kept <- captured
AnswersMetered == Meter!Spec

\* proxy.rs: "silently dropping mirror errors would make shadow mode look
\* healthy while gathering no evidence at all".  A request that is to be
\* mirrored leaves a mirror record, whatever becomes of the request itself.
MirrorLeavesEvidence ==
    \A r \in Requests :
        mirror[r] = "sending" ~> \E i \in DOMAIN mirrors : mirrors[i].req = r
=============================================================================
