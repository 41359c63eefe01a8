------------------------------ MODULE McpServer ------------------------------
(* The MCP door (backend/app/mcp_server.py): one POST is a JSON-RPC message, *)
(* or a batch of them answered one after the other, each by one of six tools.*)
(* The allowance is the caller's own question window (limits.py), shared with*)
(* a browser tab that asks, deletes its session and waits beside the agent.  *)
(* How a question is counted is Admission's subject: here it is one number.  *)
EXTENDS Integers, Sequences, FiniteSets

CONSTANTS
  Messages,   \* the messages the agent may send
  MaxBatch,   \* BOUND: messages in one batch
  MaxPosts,   \* BOUND: posts of the agent
  Allowance   \* questions inside one window

(* A flag written as text is the commonest wrong type a model emits.         *)
Flags == {"absent", "true", "false", "text"}
Plain == {"ping", "unknown method", "bad params", "unknown tool", "bad arguments"}
Tools == {"load_sample_data", "get_overview", "run_analysis", "ask"}

(* ill: not an object, not 2.0, no method.  words: the other text arguments  *)
(* are right.  get_overview stands for describe_data and list_analyses too.  *)
Message == [ill : BOOLEAN, id : {"none", "null", "own", "bad"}, call : Plain \cup Tools,
            flag : Flags, session : {"mine", "foreign", "missing"}, words : BOOLEAN]

ASSUME McpAssumption ==
  /\ Messages \subseteq Message
  /\ MaxBatch \in Nat /\ MaxPosts \in Nat /\ Allowance \in Nat

VARIABLES
  pc,        \* where the post is
  batch,     \* whether it came as a list
  inbox, at, \* its messages, and the one being handled
  replies,   \* what has been said so far
  status,    \* the HTTP status of a post that has been answered
  billed,    \* history: the messages counted as a question and not refunded
  used,      \* questions of the caller inside the window, the browser's too
  live,      \* whether the caller's session is still in the store
  untold,    \* history: sessions made for the caller whose id it never got
  posts

vars == <<pc, batch, inbox, at, replies, status, billed, used, live, untold, posts>>

post == <<batch, inbox, status, posts>>
caller == <<used, live, untold>>

Codes == {"result", "isError", "parse error", "invalid request", "method not found",
          "invalid params", "server error"}
Columns == {"person", "phone", "group", "amount"}
\* shown: the columns of its rows that are not masked; told: the personal columns it gives values
\* of in a sentence
Replied == [to : Nat, id : {"null", "own"}, code : Codes, shown : SUBSET Columns, told : SUBSET Columns]

Init ==
  /\ pc = "idle" /\ batch = FALSE /\ inbox = <<>> /\ at = 0 /\ replies = <<>>
  /\ status = 0 /\ billed = {} /\ used = 0 /\ live = TRUE /\ untold = 0 /\ posts = 0

Current == inbox[at]

------------------------------------------------------------------------------
(* The rows that go back: _table, _personal_columns, _pii_result_columns.    *)
(* phone is personal data that ingest read as a number.                      *)
Personal == {"person", "phone"}
Text == {"person", "group"}

AsksForPersons(flag) == flag = "true"

(* A result: its columns, whether its SQL touches a personal column, and     *)
(* whether the guard can still read that SQL against today's catalogue.      *)
Result == {r \in [columns : SUBSET Columns, touches : BOOLEAN, readable : BOOLEAN] :
             r.columns \cap Personal # {} => r.touches}

\* mutant: a query that cannot be read again names no personal column
HiddenIfReadable(flag, r) ==
  IF ~AsksForPersons(flag) /\ r.readable /\ r.touches THEN r.columns \cap Text ELSE {}
Hidden(flag, r) ==
  IF AsksForPersons(flag) THEN {}
  ELSE IF ~r.readable THEN r.columns
  ELSE IF r.touches THEN r.columns \cap Text
  ELSE {}

Shown(flag, r) == r.columns \ Hidden(flag, r)

(* A guided analysis refuses a personal column as an input, and lists none    *)
(* among the rows it shows (resolve, column_kind; _outliers).                *)
Impersonal == {r \in Result : r.columns \cap Personal = {}}

------------------------------------------------------------------------------
(* The next message of a batch, or the response.                             *)
Onward ==
  IF at < Len(inbox) THEN at' = at + 1 /\ pc' = "message" ELSE pc' = "done" /\ UNCHANGED at

IdOf(m) == IF m.id = "own" THEN "own" ELSE "null"

Say(code, shown, told) ==
  /\ replies' = Append(replies, [to |-> at, id |-> IdOf(Current), code |-> code, shown |-> shown, told |-> told])
  /\ Onward

(* A refusal of the REST API: its own status when the message came alone, an *)
(* error of this one message in a batch (_handle_in_batch).                   *)
RefusalTravels(code) ==
  /\ pc' = "sent" /\ status' = code /\ replies' = <<>> /\ UNCHANGED <<at, batch, inbox, posts>>
Refuse(code) ==
  IF batch
  THEN Say("server error", {}, {}) /\ UNCHANGED post
  ELSE RefusalTravels(code)

(* mcp: no token, a body that is not JSON, an empty list.                    *)
Turned(code, reply) ==
  /\ pc = "idle" /\ posts < MaxPosts
  /\ posts' = posts + 1
  /\ pc' = "sent" /\ status' = code /\ batch' = FALSE /\ inbox' = <<>> /\ at' = 0
  /\ replies' = reply /\ billed' = {}
  /\ UNCHANGED caller

NoCaller == Turned(401, <<>>)
NotJson == Turned(200, <<[to |-> 0, id |-> "null", code |-> "parse error", shown |-> {}, told |-> {}]>>)
EmptyBatch == Turned(200, <<[to |-> 0, id |-> "null", code |-> "invalid request", shown |-> {}, told |-> {}]>>)

Receive ==
  /\ pc = "idle" /\ posts < MaxPosts
  /\ posts' = posts + 1
  /\ \E n \in 1..MaxBatch : inbox' \in [1..n -> Messages]
  /\ batch' \in {b \in BOOLEAN : ~b => Len(inbox') = 1}
  /\ at' = 1 /\ pc' = "message" /\ replies' = <<>> /\ status' = 0 /\ billed' = {}
  /\ UNCHANGED caller

(* _handle and _dispatch, up to the tool.  A notification is never run,      *)
(* whatever it names, and gets no reply.                                     *)
\* mutant: a tools/call is run whether or not it asks for a reply
NoReplyWanted(m) == m.id = "none" /\ m.call \notin Tools
IsNotification(m) == m.id = "none"

Handle ==
  /\ pc = "message"
  /\ \/ (Current.ill \/ Current.id = "bad") /\ Say("invalid request", {}, {})
     \/ /\ ~Current.ill /\ Current.id # "bad"
        /\ \/ IsNotification(Current) /\ Onward /\ UNCHANGED replies
           \/ /\ ~IsNotification(Current)
              /\ \/ Current.call = "ping" /\ Say("result", {}, {})
                 \/ Current.call = "unknown method" /\ Say("method not found", {}, {})
                 \/ /\ Current.call \in {"bad params", "unknown tool", "bad arguments"}
                    /\ Say("invalid params", {}, {})
                 \/ Current.call \in Tools /\ pc' = "arguments" /\ UNCHANGED <<at, replies>>
  /\ UNCHANGED <<billed, post, caller>>

(* The tool's own checks, in its own order: _flag, _session, _text, _mapping.*)
HasFlag(m) == m.call \in {"run_analysis", "ask"}
NeedsSession(m) == m.call # "load_sample_data"
\* mutant: bool(value), for which any text will do
FlagTruthy(m) == FALSE
FlagWrong(m) == HasFlag(m) /\ m.flag = "text"
NotMine(m) == m.session = "foreign" \/ (m.session = "mine" /\ ~live)

Check ==
  /\ pc = "arguments"
  /\ IF FlagWrong(Current) \/ (NeedsSession(Current) /\ Current.session = "missing")
     THEN Say("isError", {}, {}) /\ UNCHANGED post
     ELSE IF NeedsSession(Current) /\ NotMine(Current)
     THEN Refuse(404)
     ELSE IF HasFlag(Current) /\ ~Current.words
     THEN Say("isError", {}, {}) /\ UNCHANGED post
     ELSE pc' = Current.call /\ UNCHANGED <<at, replies, post>>
  /\ UNCHANGED <<billed, caller>>

(* describe_data, get_overview, list_analyses: names and computed sentences. *)
Overview ==
  /\ pc = "get_overview"
  /\ Say("result", {}, {})
  /\ UNCHANGED <<billed, post, caller>>

RunAnalysis ==
  /\ pc = "run_analysis"
  /\ \/ \E r \in Impersonal : Say("result", Shown(Current.flag, r), {})
     \/ Say("isError", {}, {})
  /\ UNCHANGED <<billed, post, caller>>

(* load_sample_data: the session is made before the upload is charged and    *)
(* before the reading slot is taken, either of which may refuse.              *)
LoadSample ==
  /\ pc = "load_sample_data"
  /\ \/ Say("result", {}, {}) /\ UNCHANGED <<post, untold>>
     \/ Refuse(429) /\ UNCHANGED untold            \* too many new sessions
     \/ Refuse(429) /\ untold' = untold + 1        \* too many uploads, or the slot is busy
     \/ Say("isError", {}, {}) /\ untold' = untold + 1 /\ UNCHANGED post   \* IngestError
  /\ UNCHANGED <<billed, used, live>>

Counted == IF used < Allowance THEN {at} ELSE {}

EnterAllowance ==
  /\ pc = "ask"
  /\ billed' = billed \cup Counted
  /\ used' = used + Cardinality(Counted)
  /\ IF used < Allowance
     THEN pc' = "answering" /\ UNCHANGED <<at, replies, post>>
     ELSE Refuse(429)
  /\ UNCHANGED <<live, untold>>

(* answer_question: fresh, from the shared cache (the question is given      *)
(* back), or an engine refusal.  The answer's sentence and insights are not  *)
(* masked: they may give values of any personal column of the result.        *)
Answered ==
  /\ pc = "answering"
  /\ \/ \E r \in Result :
          /\ \E told \in SUBSET (r.columns \cap Personal) : Say("result", Shown(Current.flag, r), told)
          /\ \/ UNCHANGED <<billed, used>>
             \/ billed' = billed \ {at} /\ used' = IF used > 0 THEN used - 1 ELSE 0
     \/ Say("isError", {}, {}) /\ UNCHANGED <<billed, used>>
  /\ UNCHANGED <<post, live, untold>>

(* A bug is the app's own 500, in a batch too.                                *)
Bug ==
  /\ pc \in Tools \cup {"answering"}
  /\ pc' = "sent" /\ status' = 500 /\ replies' = <<>>
  /\ UNCHANGED <<at, batch, inbox, posts, billed, caller>>

(* The array of replies, the one reply, or 202 when nothing asked for one.   *)
Send ==
  /\ pc = "done"
  /\ pc' = "sent"
  /\ status' = IF replies = <<>> THEN 202 ELSE 200
  /\ UNCHANGED <<at, replies, batch, inbox, posts, billed, caller>>

Read == pc = "sent" /\ pc' = "idle" /\ UNCHANGED <<at, replies, billed, post, caller>>

Agent == NoCaller \/ NotJson \/ EmptyBatch \/ Receive
Server == Handle \/ Check \/ Overview \/ RunAnalysis \/ LoadSample \/ EnterAllowance
          \/ Answered \/ Bug \/ Send \/ Read

(* The browser tab on the same account, and the window moving on.            *)
BrowserAsks == used < Allowance /\ used' = used + 1 /\ UNCHANGED <<live, untold>>
WindowPasses == used > 0 /\ used' = 0 /\ UNCHANGED <<live, untold>>
SessionGoes == live /\ live' = FALSE /\ UNCHANGED <<used, untold>>
Browser == (BrowserAsks \/ WindowPasses \/ SessionGoes)
           /\ UNCHANGED <<pc, at, replies, billed, post>>

Next == Agent \/ Server \/ Browser

Spec == Init /\ [][Next]_vars

------------------------------------------------------------------------------
(* Type invariant.  One reply at most per message, and no more questions     *)
(* counted than the window holds.                                            *)
TypeOK ==
  /\ pc \in Tools \cup {"idle", "message", "arguments", "answering", "done", "sent"}
  /\ batch \in BOOLEAN
  /\ inbox \in Seq(Messages) /\ at \in 0..Len(inbox)
  /\ replies \in Seq(Replied)
  /\ status \in {0, 200, 202, 401, 404, 429, 500}
  /\ billed \subseteq 1..Len(inbox)
  /\ used \in 0..Allowance
  /\ live \in BOOLEAN /\ untold \in Nat /\ posts \in 0..MaxPosts

Whole == pc = "sent" /\ status \in {200, 202} /\ inbox # <<>>

\* a request, or what cannot be told from one: the messages that get a reply
Asks(m) == m.id # "none" \/ m.ill

(* mcp's docstring: "one array of objects, in the order the requests          *)
(* arrived".  Every message that asked is answered once, in its turn and      *)
(* under its own id, and no other is.                                        *)
EveryRequestAnsweredInTurn ==
  Whole =>
    /\ {replies[k].to : k \in 1..Len(replies)} = {i \in 1..Len(inbox) : Asks(inbox[i])}
    /\ \A j, k \in 1..Len(replies) : j < k => replies[j].to < replies[k].to
    /\ \A k \in 1..Len(replies) : inbox[replies[k].to].id = "own" => replies[k].id = "own"

(* _handle_in_batch: a refusal must not throw away "answers the earlier       *)
(* messages were already charged for".  Whatever was billed and not given     *)
(* back comes with the tool's reply, unless a bug became the whole response.  *)
BilledAreAnswered ==
  pc = "sent" /\ status # 500 =>
    \A i \in billed :
      \E k \in 1..Len(replies) : replies[k].to = i /\ replies[k].code \in {"result", "isError"}

(* _ask: "a call this server is going to refuse must not cost the caller a   *)
(* question first": only a well-formed ask on a session is ever billed.       *)
OnlyGoodAsksAreBilled ==
  \A i \in billed :
    LET m == inbox[i]
    IN ~m.ill /\ m.call = "ask" /\ m.id \in {"own", "null"}
       /\ m.words /\ m.flag # "text" /\ m.session = "mine"

(* _flag: text never unmasks.  Names are in the rows that go back only when   *)
(* the message itself asked for personal data with the JSON literal true,     *)
(* and outside the rows only in the sentences that answer a question: those   *)
(* are not masked ("the sentence is the answer and it names them",            *)
(* docs/MCP.md), whatever the flag says.                                      *)
NamesOnlyOnRequest ==
  \A k \in 1..Len(replies) :
    /\ "person" \in replies[k].shown => inbox[replies[k].to].flag = "true"
    /\ replies[k].told # {} => inbox[replies[k].to].call = "ask"

(* The module docstring's larger sentence, "personal-data columns are masked  *)
(* in returned rows unless the caller asks for them": the numbers too.        *)
PersonalOnlyOnRequest ==
  \A k \in 1..Len(replies) :
    replies[k].shown \cap Personal # {} => inbox[replies[k].to].flag = "true"

=============================================================================
