-------------------------------- MODULE Mcp ---------------------------------
(* The MCP server (mcp.py): one client on stdin and stdout, one request at  *)
(* a time, over an eval root whose files others write meanwhile.            *)
EXTENDS Integers, Sequences, FiniteSets, SequencesExt, Functions

CONSTANTS
    Wire,          \* what may stand on stdin: messages, well formed or not
    FileNames,     \* *.json files the root may hold, in sorted order
    Contents,      \* what a file may hold
    Homes,         \* where expanduser() leads: name with a "~" -> name, Outside or NoHome
    Models,        \* ids in the catalogue
    LIST_LIMIT,    \* files a listing enumerates
    MaxItems,      \* bound: items sent
    MaxFileEdits   \* bound: files written

\* A name is no URI of another scheme, with or without a "~".
ASSUME McpAssumption ==
    LIST_LIMIT \in Nat /\ "unknown scheme" \notin Range(FileNames) \cup DOMAIN Homes

VARIABLES
    sent,          \* what the client wrote, in order (history)
    taken,         \* how much of it the server has read
    current,       \* the request in hand, <<>> between two
    replies,       \* what the server wrote, in order
    ended,         \* serve() returned, or was unwound
    tree,          \* the eval root: name -> [holds, leads_out]
    edits

mvars == <<sent, taken, current, replies, ended, tree, edits>>

LINE == "line"
HEADER == "header"
NoId == 0
Outside == "outside"          \* a path that is not under the root
NoHome == "no home"           \* "~someone": expanduser() raises a RuntimeError

-----------------------------------------------------------------------------
(* Framing                                                                 *)

\* _read_message gives None, which serve takes for the end of the input.
TakenForEof(item) ==
    item.framing = HEADER /\ item.body \in {"no length", "cut off", "malformed", "null"}

\* Bytes that do not decode are not a JSONDecodeError, and nothing catches
\* what _read_message raises.
Unwinds(item) == item.body = "undecodable"

\* A reply is framed as its request was.
Reply(item, id, code) == [id |-> id, framing |-> item.framing, code |-> code]

-----------------------------------------------------------------------------
(* The eval root                                                           *)

ReceiptFormats == {"receipt", "altered receipt"}

\* _kind: told from what the file says it is, not from its name.
_kind(holds) == holds \in ReceiptFormats \cup {"eval set", "no items"}

\* _within_root: resolved before it is compared, so a link out of the root
\* is out of it.
_within_root(t, name) ==
    name \notin {Outside, NoHome} /\ (name \in DOMAIN t => ~t[name].leads_out)

\* A path a caller names is relative, so that a "~" in front of it is a home.
Expanded(name) == IF name \in DOMAIN Homes THEN Homes[name] ELSE name

Text(t, name) == IF name \in DOMAIN t THEN t[name].holds ELSE "missing"

\* resources(): sorted, confined, told by kind, and the first LIST_LIMIT of
\* them; by their full paths, in which no "~" is in front.
Passes(t, n) == n \in DOMAIN t /\ _within_root(t, n) /\ _kind(Text(t, n))
Resources(t) ==
    LET found == {i \in DOMAIN FileNames : Passes(t, FileNames[i])}
    IN  {FileNames[i] : i \in {k \in found : Cardinality({j \in found : j < k}) < LIST_LIMIT}}

ReadResource(t, uri) ==
    /\ uri # "unknown scheme" /\ _within_root(t, Expanded(uri))
    /\ _kind(Text(t, Expanded(uri)))

\* resources/read: a refusal is the caller's, but a RuntimeError is not among
\* what handle catches.
ReadCode(t, uri) ==
    IF Expanded(uri) = NoHome THEN "-32603"
    ELSE IF ReadResource(t, uri) THEN "result" ELSE "-32602"

-----------------------------------------------------------------------------
(* What a request comes to                                                 *)

\* prompt(): filled in from arguments, a required one missing is refused.
PROMPTS == [size |-> {}, prove |-> {"eval_set"}, check |-> {"receipt"}]

\* What a tool raises or returns, given its arguments.
TOOLS ==
    {"onpar_fit", "onpar_where", "onpar_explain", "onpar_build", "onpar_advise", "onpar_prove",
     "onpar_distill", "onpar_receipt", "onpar_guard", "onpar_catalog"}

\* The arguments of each signature that can make a difference; onpar_build
\* takes any field of a workload besides.
Takes(tool) ==
    CASE tool = "onpar_fit"                    -> {"context"}
      [] tool = "onpar_advise"                 -> {"context", "workload"}
      [] tool = "onpar_where"                  -> {"model", "context"}
      [] tool = "onpar_explain"                -> {"model_id", "context"}
      [] tool = "onpar_build"                  -> {"state", "field"}
      [] tool = "onpar_prove"                  -> {"eval_set"}
      [] tool = "onpar_receipt"                -> {"path"}
      [] tool = "onpar_guard"                  -> {"path", "today"}
      [] tool = "onpar_distill"                -> {"captures"}
      [] OTHER                                 -> {}

Required(tool) == Takes(tool) \cap {"model", "model_id", "eval_set", "path"}

\* A value its parser or its constructor refuses.
Bad(args, f) == f \in DOMAIN args /\ args[f] = "bad"
NotCarried(args, f) == f \in DOMAIN args /\ args[f] \notin Models

FitRaises(args)     == Bad(args, "context")
ExplainRaises(args) == Bad(args, "context") \/ NotCarried(args, "model_id")
WhereRaises(args)   == Bad(args, "context") \/ NotCarried(args, "model")
AdviseRaises(args)  == Bad(args, "context") \/ Bad(args, "workload")
BuildRaises(args)   == Bad(args, "state") \/ Bad(args, "field")

\* What has no items cannot be scored; what is no receipt, or one whose digest
\* does not hold, claims nothing; a log is a log the key opens.
Unreadable(t, name, holds) == ~_within_root(t, Expanded(name)) \/ Text(t, Expanded(name)) # holds
ProveRaises(t, args)   == Unreadable(t, args.eval_set, "eval set")
ReceiptRaises(t, args) == Unreadable(t, args.path, "receipt")
GuardRaises(t, args)   == ReceiptRaises(t, args) \/ Bad(args, "today")
DistillRaises(args)    == Bad(args, "captures")

ToolRaises(t, tool, args) ==
    CASE tool = "onpar_fit"     -> FitRaises(args)
      [] tool = "onpar_explain" -> ExplainRaises(args)
      [] tool = "onpar_where"   -> WhereRaises(args)
      [] tool = "onpar_advise"  -> AdviseRaises(args)
      [] tool = "onpar_build"   -> BuildRaises(args)
      [] tool = "onpar_prove"   -> ProveRaises(t, args)
      [] tool = "onpar_receipt" -> ReceiptRaises(t, args)
      [] tool = "onpar_guard"   -> GuardRaises(t, args)
      [] tool = "onpar_distill" -> DistillRaises(args)
      [] OTHER                  -> FALSE

\* tools/call: whatever the tool raises is content the agent reads,
\* a wrong signature is an error of the request.
CallTool(t, tool, args) ==
    IF \/ tool \notin TOOLS
       \/ ~(DOMAIN args \subseteq Takes(tool))
       \/ ~(Required(tool) \subseteq DOMAIN args)
    THEN "-32602"
    ELSE IF ToolRaises(t, tool, args) THEN "isError" ELSE "result"

GetPrompt(name, args) ==
    IF name \in DOMAIN PROMPTS /\ PROMPTS[name] \subseteq args THEN "result" ELSE "-32602"

\* handle(); params that are no object raise out of it, and serve answers
\* with an internal error.
Handle(t, req) ==
    IF req.method \in {"initialize", "tools/list", "resources/list", "prompts/list"} THEN "result"
    ELSE IF req.method \notin {"resources/read", "prompts/get", "tools/call"} THEN "-32601"
    ELSE IF req.params = <<>> THEN "-32602"
    ELSE IF "garbled" \in DOMAIN req.params THEN "-32603"
    ELSE CASE req.method = "resources/read" -> ReadCode(t, req.params.uri)
           [] req.method = "prompts/get" -> GetPrompt(req.params.name, req.params.arguments)
           [] req.method = "tools/call"  -> CallTool(t, req.params.name, req.params.arguments)

-----------------------------------------------------------------------------

McpInit ==
    /\ sent = <<>> /\ taken = 0 /\ current = <<>> /\ replies = <<>> /\ ended = FALSE
    /\ tree = <<>> /\ edits = 0

Send ==
    /\ Len(sent) < MaxItems
    /\ \E item \in Wire : sent' = Append(sent, item)
    /\ UNCHANGED <<taken, current, replies, ended, tree, edits>>

\* Another process writes, links or removes a file under the root.
EditRoot ==
    /\ edits < MaxFileEdits /\ edits' = edits + 1
    /\ \/ \E n \in Range(FileNames), c \in Contents, out \in BOOLEAN :
             tree' = (n :> [holds |-> c, leads_out |-> out]) @@ tree
       \/ \E n \in DOMAIN tree : tree' = [m \in DOMAIN tree \ {n} |-> tree[m]]
    /\ UNCHANGED <<sent, taken, current, replies, ended>>

\* serve(): one message read; a blank line, one of neither framing and one that
\* is no JSON are passed over. An array is no request: handle raises, and so
\* does the handler of that, but for an empty one.
ReadMessage ==
    /\ ~ended /\ current = <<>> /\ taken < Len(sent)
    /\ taken' = taken + 1
    /\ LET item == sent[taken + 1]
       IN  /\ ended' = (TakenForEof(item) \/ Unwinds(item) \/ item.body = "array")
           /\ replies' = IF item.body = "empty array"
                         THEN Append(replies, Reply(item, NoId, "-32603")) ELSE replies
           /\ current' = IF item.body = "object" /\ item.id # NoId THEN <<item>> ELSE <<>>
    /\ UNCHANGED <<sent, tree, edits>>

\* Mutant: what handle raises is not caught.
AnswerUncaught ==
    /\ ~ended /\ current # <<>>
    /\ LET item == current[1]
           code == Handle(tree, item)
       IN  IF code = "-32603" THEN ended' = TRUE /\ UNCHANGED replies
           ELSE replies' = Append(replies, Reply(item, item.id, code)) /\ UNCHANGED ended
    /\ current' = <<>>
    /\ UNCHANGED <<sent, taken, tree, edits>>

AnswerRequest ==
    /\ ~ended /\ current # <<>>
    /\ LET item == current[1]
       IN  replies' = Append(replies, Reply(item, item.id, Handle(tree, item)))
    /\ current' = <<>>
    /\ UNCHANGED <<sent, taken, ended, tree, edits>>

McpNext == Send \/ EditRoot \/ ReadMessage \/ AnswerRequest

McpSpec == McpInit /\ [][McpNext]_mvars

-----------------------------------------------------------------------------
(* What an agent may rely on                                               *)

\* A message that asks for an answer.
IsRequest(item) == item.body = "object" /\ item.id # NoId

\* The requests that are answered, by their place on stdin: those taken, but for
\* the one in hand.  The replies to them, by their place on stdout.
Owed == {i \in 1..taken : IsRequest(sent[i])} \ (IF current = <<>> THEN {} ELSE {taken})
Got == {j \in DOMAIN replies : replies[j].id # NoId}

\* A reply is to the request it names, in that one's framing.
RepliesTo(reply, item) == reply.id = item.id /\ reply.framing = item.framing

\* Every request the server has taken has one reply, in order and in its own
\* framing, whatever was asked and whatever else came in between; nothing
\* else is answered (serve, handle: one bad call must not cost a later one).
InOrder(f) ==
    /\ {f[j] : j \in Got} = Owed
    /\ \A j, k \in Got : j < k => f[j] < f[k]
    /\ \A j \in Got : RepliesTo(replies[j], sent[f[j]])
RepliesMatchRequests == \E f \in [Got -> Owed] : InOrder(f)
=============================================================================
