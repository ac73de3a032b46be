---------------------------- MODULE Conversation ----------------------------
(***************************************************************************)
(* A conversation through the Anthropic OAuth adapter: each turn the       *)
(* client's OpenAI messages are converted to an Anthropic request          *)
(* (anthropic_oauth/wire/convert.rs, reminder.rs, sanitize.rs,             *)
(* cc_names.rs), the upstream's event stream is converted to OpenAI chunks *)
(* (anthropic_oauth/mod.rs, wire/chunks.rs), and who receives the chunks   *)
(* assembles them (request_log/collector.rs) into the message that the     *)
(* next turn sends back.                                                   *)
(*                                                                         *)
(* A text is a sequence of fragments and blank when it has none; media     *)
(* parts, sampling options and the SSE framing are left out.               *)
(***************************************************************************)
EXTENDS Integers, FiniteSets, SequencesExt

CONSTANTS
  Tools,       \* names of the tools the client has registered, in order
  Canonical,   \* Canonical[n]: the name in Claude Code's casing, or n
  Folded,      \* Folded[n]: the name without its casing
  Usages,      \* [input, write, read] counts of a prompt
  MaxSends,    \* bound on the requests of the conversation
  MaxBlocks,   \* bound on the blocks of all its answers
  MaxAsides    \* bound on its system messages and blank user messages

Registered == ToSet(Tools)

(* Tools that differ in casing only are one to the adapter.                *)
ASSUME ConversationAssumption ==
  /\ Tools \in Seq(STRING)
  /\ Usages \subseteq [input : Nat, write : Nat, read : Nat]
  /\ \A n \in Registered : Folded[Canonical[n]] = Folded[n]
  /\ \A m, n \in Registered : Folded[m] = Folded[n] => m = n
  /\ MaxSends \in Nat /\ MaxBlocks \in Nat /\ MaxAsides \in Nat

VARIABLES
  history,   \* the client's messages
  request,   \* the last converted request
  phase,     \* "client" has the turn, "waiting", "streaming", "stopped"
  answer,    \* upstream: the blocks and the usage of its answer so far
  told,      \* upstream: the answers it has completed, without their thinking
  start_usage, tool_block_indices, next_tool_index,  \* of the stream
  collected, \* Collector: what the chunks have been assembled to
  sends

stream == <<start_usage, tool_block_indices, next_tool_index>>
conversation == <<history, request, phase, answer, told, stream, collected, sends>>

(* What f has at the numbers of its domain, in their order; and what of a  *)
(* sequence stands at the places kept.                                     *)
Place(numbers, k) == CHOOSE i \in numbers : Cardinality({j \in numbers : j <= i}) = k
InOrder(f) == [k \in 1..Cardinality(DOMAIN f) |-> f[Place(DOMAIN f, k)]]
Only(s, kept) == InOrder([i \in kept |-> s[i]])

Blank(text) == text = <<>>

(* extras: the fields of a message that the typed request does not know.   *)
Message(role, text) == [role |-> role, text |-> text, calls |-> <<>>, of |-> 0, extras |-> <<>>]
System(text) == Message("system", text)
User(text) == Message("user", text)
Tool(id, text) == [Message("tool", text) EXCEPT !.of = id]
Assistant(text, calls, extras) ==
  [Message("assistant", text) EXCEPT !.calls = calls, !.extras = extras]

---------------------------------------------------------------------------
(* Tool names.                                                             *)

to_cc_name(name) == Canonical[name]
restore_tool_name(name) ==
  LET i == SelectInSeq(Tools, LAMBDA t : Folded[t] = Folded[name]) IN
  IF i = 0 THEN name ELSE Tools[i]

---------------------------------------------------------------------------
(* convert: system messages before the first other message are the system  *)
(* prompt, later ones reminders that wait for the next user content.       *)

Block(kind, of, name, text) == [kind |-> kind, of |-> of, name |-> name, text |-> text]
TextBlock(text) == Block("text", 0, "", text)
Reminder(text) == Block("reminder", 0, "", text)

(* Arguments that are no JSON, as those of a call cut short, become {}.    *)
Parsed(arguments) ==
  IF arguments # <<>> /\ Last(arguments) = "}" THEN arguments ELSE <<>>

Appended(c, role, blocks) ==
  [c EXCEPT !.messages = Append(@, [role |-> role, blocks |-> blocks])]
Extended(c, blocks) ==
  [c EXCEPT !.messages[Len(c.messages)].blocks = @ \o blocks]
EndsWithUser(c) == c.messages # <<>> /\ Last(c.messages).role = "user"

Flushed(c) ==
  LET reminders == [i \in DOMAIN c.pending |-> Reminder(c.pending[i])]
      none == [c EXCEPT !.pending = <<>>]
  IN  IF reminders = <<>> THEN c
      ELSE IF EndsWithUser(c) THEN Extended(none, reminders)
      ELSE Appended(none, "user", reminders)

ConvertSystem(c, m) ==
  IF c.messages = <<>> THEN [c EXCEPT !.system = @ \o m.text]
  ELSE [c EXCEPT !.pending = Append(@, m.text)]

ConvertUser(c, m) == Flushed(Appended(c, "user", <<TextBlock(m.text)>>))

ToolUses(calls) ==
  [i \in DOMAIN calls |->
     Block("tool_use", calls[i].id, calls[i].name, Parsed(calls[i].arguments))]
ConvertAssistant(c, m) ==
  Appended(c, "assistant",
           (IF Blank(m.text) THEN <<>> ELSE <<TextBlock(m.text)>>) \o ToolUses(m.calls))

(* Consecutive tool results are one user message.                          *)
ConvertTool(c, m) ==
  LET result == <<Block("tool_result", m.of, "", m.text)>>
      merges == EndsWithUser(c) /\ \A b \in ToSet(Last(c.messages).blocks) : b.kind = "tool_result"
  IN  Flushed(IF merges THEN Extended(c, result) ELSE Appended(c, "user", result))

ConvertNext(c, m) ==
  CASE m.role = "system" -> ConvertSystem(c, m)
    [] m.role = "user" -> ConvertUser(c, m)
    [] m.role = "assistant" -> ConvertAssistant(c, m)
    [] m.role = "tool" -> ConvertTool(c, m)

NotYet == [system |-> <<>>, pending |-> <<>>, messages |-> <<>>]
Converted(messages) ==
  LET after[n \in 0..Len(messages)] ==
        IF n = 0 THEN NotYet ELSE ConvertNext(after[n - 1], messages[n])
  IN  after[Len(messages)]
Convert(messages) == Flushed(Converted(messages))

AsTheClientNames(messages) == messages
Remapped(b) == IF b.kind = "tool_use" THEN [b EXCEPT !.name = to_cc_name(@)] ELSE b
remap_tool_use_blocks(messages) ==
  [i \in DOMAIN messages |->
     [messages[i] EXCEPT !.blocks = [j \in DOMAIN @ |-> Remapped(@[j])]]]

(* And the messages that drop_blank_text leaves empty.                     *)
AnyBlank(b) == Blank(b.text)
IsBlankText(b) == b.kind = "text" /\ Blank(b.text)
drop_blank_text(blocks) == Only(blocks, {j \in DOMAIN blocks : ~IsBlankText(blocks[j])})
clean_messages(messages) ==
  LET kept == [i \in DOMAIN messages |->
                 [messages[i] EXCEPT !.blocks = drop_blank_text(@)]]
  IN  Only(kept, {i \in DOMAIN kept : kept[i].blocks # <<>>})

(* The messages whose last block carries a cache breakpoint.               *)
LastOnly(messages) == {Len(messages)} \cap DOMAIN messages
Marked(messages) == {i \in DOMAIN messages : i > Len(messages) - 2}

build_request(messages) ==
  LET c == Convert(messages)
      out == clean_messages(remap_tool_use_blocks(c.messages))
  IN  [system |-> c.system, messages |-> out, marked |-> Marked(out)]

---------------------------------------------------------------------------
(* The chunks, and Collector::push of them.                                *)

Nothing == [text |-> <<>>, reasoning |-> <<>>, tools |-> <<>>, finish |-> "", usage |-> <<>>]
NewCall == [id |-> 0, name |-> "", arguments |-> <<>>]
Entry(c, index) == IF index \in DOMAIN c.tools THEN c.tools[index] ELSE NewCall
WithEntry(c, index, call) ==
  [c EXCEPT !.tools = [i \in DOMAIN @ \cup {index} |-> IF i = index THEN call ELSE @[i]]]

text_chunk(c, text) == [c EXCEPT !.text = Append(@, text)]
reasoning_chunk(c, text) == [c EXCEPT !.reasoning = Append(@, text)]
tool_call_start_chunk(c, index, id, name) ==
  WithEntry(c, index, [id |-> id, name |-> name, arguments |-> Entry(c, index).arguments])
tool_call_args_chunk(c, index, part) ==
  WithEntry(c, index, [Entry(c, index) EXCEPT !.arguments = Append(@, part)])
final_chunk(c, finish, usage) == [c EXCEPT !.finish = finish, !.usage = usage]

CallsOf(c) == InOrder(c.tools)

finish_reason(stop) ==
  CASE stop = "end_turn" -> "stop" [] stop = "max_tokens" -> "length"
    [] stop = "tool_use" -> "tool_calls"

(* Anthropic's input_tokens leave out what the cache wrote and read.       *)
usage_to_openai(u, output) ==
  [prompt |-> u.input + u.write + u.read, completion |-> output,
   cached |-> u.read, cache_write |-> u.write]

(* split_content_blocks: the message of an answer that is not streamed.    *)
Ofkind(blocks, kind) == Only(blocks, {i \in DOMAIN blocks : blocks[i].kind = kind})
Texts(blocks) == FlattenSeq([i \in DOMAIN blocks |-> blocks[i].text])
split_content_blocks(blocks) ==
  LET uses == Ofkind(blocks, "tool_use") IN
  [text |-> Texts(Ofkind(blocks, "text")),
   calls |-> [i \in DOMAIN uses |->
                [id |-> uses[i].of, name |-> restore_tool_name(uses[i].name),
                 arguments |-> uses[i].text]]]

---------------------------------------------------------------------------
NoUsage == [input |-> 0, write |-> 0, read |-> 0]
NoAnswer == [blocks |-> <<>>, usage |-> NoUsage]
NoRequest == [system |-> <<>>, messages |-> <<>>, marked |-> {}]

ConversationInit ==
  /\ history = <<>> /\ request = NoRequest /\ phase = "client"
  /\ answer = NoAnswer /\ told = <<>>
  /\ start_usage = NoUsage /\ tool_block_indices = <<>> /\ next_tool_index = 0
  /\ collected = Nothing /\ sends = 0

(* The client: it answers every call of the last answer in order before it *)
(* says more, a system message may come at any place, and it sends all.    *)
LastTurn == SelectLastInSeq(history, LAMBDA m : m.role = "assistant")
Open ==
  LET turn == LastTurn
      given == {i \in DOMAIN history : i > turn /\ history[i].role = "tool"}
  IN  IF turn = 0 THEN <<>>
      ELSE SubSeq(history[turn].calls, Cardinality(given) + 1, Len(history[turn].calls))
Aside(m) == m.role \in {"system", "developer"} \/ (m.role = "user" /\ Blank(m.text))
Asides == Cardinality({i \in DOMAIN history : Aside(history[i])})
LastRole == IF history = <<>> THEN "" ELSE Last(history).role

Says(message) ==
  /\ phase = "client"
  /\ Aside(message) => Asides < MaxAsides
  /\ history' = Append(history, message)
  /\ UNCHANGED <<request, phase, answer, told, stream, collected, sends>>

Say(text) == Open = <<>> /\ LastRole # "user" /\ Says(User(text))
Note == Says(System(<<"note">>))
PostResult(text) == Open # <<>> /\ Says(Tool(Head(Open).id, text))

Sends(built) ==
  /\ phase = "client" /\ sends < MaxSends
  /\ Open = <<>> /\ LastRole \notin {"", "assistant"}
  /\ request' = built
  /\ request'.messages # <<>>
  /\ phase' = "waiting"
  /\ sends' = sends + 1
  /\ UNCHANGED <<history, answer, told, stream, collected>>
Send == Sends(build_request(history))

(* The state of a stream is its own.                                       *)
Reset ==
  /\ phase' = "client"
  /\ answer' = NoAnswer
  /\ start_usage' = NoUsage /\ tool_block_indices' = <<>> /\ next_tool_index' = 0
  /\ collected' = Nothing

(* An error status, an error event or a broken connection: the client may  *)
(* send again.                                                             *)
Fails ==
  /\ phase \in {"waiting", "streaming"}
  /\ Reset
  /\ UNCHANGED <<history, request, told, sends>>

---------------------------------------------------------------------------
(* The stream.                                                             *)

Spoken(blocks) == Only(blocks, {i \in DOMAIN blocks : blocks[i].kind # "thinking"})
Blocks == Len(FlattenSeq(told)) + Len(answer.blocks)
NextId ==
  LET all == FlattenSeq(told) \o answer.blocks
  IN  Cardinality({i \in DOMAIN all : all[i].kind = "tool_use"}) + 1
Offered == {to_cc_name(n) : n \in Registered}

message_start(usage) ==
  /\ phase = "waiting"
  /\ phase' = "streaming"
  /\ answer' = [NoAnswer EXCEPT !.usage = usage]
  /\ start_usage' = usage
  /\ UNCHANGED <<history, request, told, tool_block_indices, next_tool_index, collected, sends>>

Starts(block) ==
  /\ phase = "streaming" /\ Blocks < MaxBlocks
  /\ answer' = [answer EXCEPT !.blocks = Append(@, block)]
  /\ UNCHANGED <<history, request, phase, told, start_usage, sends>>

(* Thinking comes before the rest of an answer.                            *)
content_block_start(kind) ==
  /\ kind = "thinking" => answer.blocks = <<>>
  /\ Starts(Block(kind, 0, "", <<>>))
  /\ UNCHANGED <<tool_block_indices, next_tool_index, collected>>

tool_use_start(name) ==
  /\ Starts(Block("tool_use", NextId, name, <<>>))
  /\ tool_block_indices' = Append(tool_block_indices, Len(answer.blocks) + 1)
  /\ next_tool_index' = next_tool_index + 1
  /\ collected' = tool_call_start_chunk(collected, next_tool_index, NextId,
                                        restore_tool_name(name))

(* The index of the tool call that a content block is, 0 if it is none.    *)
ToolIndex(block) ==
  IF block \in ToSet(tool_block_indices)
  THEN (CHOOSE k \in DOMAIN tool_block_indices : tool_block_indices[k] = block) - 1
  ELSE 0

Delta(part) ==
  LET index == Len(answer.blocks)
      block == Last(answer.blocks)
  IN
  /\ phase = "streaming" /\ index > 0
  /\ IF block.kind = "tool_use" THEN Parsed(block.text) = <<>> ELSE Blank(block.text)
  /\ part = "}" <=> block.kind = "tool_use" /\ ~Blank(block.text)
  /\ answer' = [answer EXCEPT !.blocks[index].text = Append(@, part)]
  /\ collected' = CASE block.kind = "text" -> text_chunk(collected, part)
                    [] block.kind = "tool_use" ->
                         tool_call_args_chunk(collected, ToolIndex(index), part)
                    [] block.kind = "thinking" -> reasoning_chunk(collected, part)
  /\ UNCHANGED <<history, request, phase, told, stream, sends>>

(* Counts that message_delta repeats win over those of message_start.      *)
Merged(start, delta) ==
  [k \in DOMAIN start |-> IF delta[k] > 0 THEN delta[k] ELSE start[k]]

StopsFor ==
  LET kinds == {b.kind : b \in ToSet(answer.blocks)} IN
  {"max_tokens"} \cup
    (IF "tool_use" \notin kinds THEN {"end_turn"}
     ELSE IF \A b \in ToSet(answer.blocks) : b.kind = "tool_use" => Parsed(b.text) # <<>>
     THEN {"tool_use"} ELSE {})

Output == Len(Texts(answer.blocks))
Stops(stop, usage) ==
  /\ phase = "streaming" /\ stop \in StopsFor
  /\ phase' = "stopped"
  /\ collected' = final_chunk(collected, finish_reason(stop), usage_to_openai(usage, Output))
  /\ UNCHANGED <<history, request, answer, told, stream, sends>>

message_delta(stop, usage) == Stops(stop, Merged(start_usage, usage))

(* The stream ends and the client has its message, to which it may keep    *)
(* fields that only some upstreams take back.                              *)
EndsKeeping(extras) ==
  /\ phase = "stopped"
  /\ Reset
  /\ history' = Append(history, Assistant(collected.text, CallsOf(collected), extras))
  /\ told' = Append(told, Spoken(answer.blocks))
  /\ UNCHANGED <<request, sends>>
Ends == EndsKeeping(<<>>)

Client ==
  \/ \E text \in {<<>>, <<"x">>} : Say(text)
  \/ PostResult(<<>>) \/ Note \/ Send

Upstream ==
  \/ \E usage \in Usages : message_start(usage)
  \/ \E kind \in {"thinking", "text"} : content_block_start(kind)
  \/ \E name \in Offered : tool_use_start(name)
  \/ \E part \in {"x", "}"} : Delta(part)
  \/ \E stop \in {"end_turn", "max_tokens", "tool_use"}, usage \in {NoUsage, answer.usage} :
        message_delta(stop, usage)

ConversationNext == Client \/ Upstream \/ Ends \/ Fails

ConversationSpec == ConversationInit /\ [][ConversationNext]_conversation

---------------------------------------------------------------------------
(* A streamed answer is the answer that it would be if it were not         *)
(* streamed: its text, its calls with the arguments of their own blocks    *)
(* and the names that the client registered, and the usage to bill.        *)
StreamedIsWhole ==
  /\ [text |-> collected.text, calls |-> CallsOf(collected)] = split_content_blocks(answer.blocks)
  /\ \A i \in DOMAIN collected.tools : collected.tools[i].name \in Registered
  /\ phase = "stopped" =>
       collected.usage = usage_to_openai(answer.usage, Len(Texts(answer.blocks)))

(* What the upstream has answered is told to it as it said it, with its    *)
(* ids, its own tool names and the arguments of every call that it         *)
(* finished; thinking is left out and the texts of an answer are joined.   *)
AsSaid(blocks) ==
  LET text == Texts(Ofkind(blocks, "text"))
      uses == Ofkind(blocks, "tool_use")
  IN  (IF Blank(text) THEN <<>> ELSE <<TextBlock(text)>>)
        \o [i \in DOMAIN uses |-> [uses[i] EXCEPT !.text = Parsed(@)]]
Sayings(answers) == Only(answers, {i \in DOMAIN answers : answers[i] # <<>>})
Assistants(messages) == Only(messages, {i \in DOMAIN messages : messages[i].role = "assistant"})
RoundTrip ==
  phase = "waiting" =>
    Sayings([i \in DOMAIN told |-> AsSaid(told[i])])
      = LET said == Assistants(request.messages)
        IN  Sayings([i \in DOMAIN said |-> drop_blank_text(said[i].blocks)])

(* The calls of an answer are all answered before the next answer, each    *)
(* once and in order, whatever system messages stand among them.           *)
Results(blocks) ==
  LET of == Ofkind(blocks, "tool_result") IN [i \in DOMAIN of |-> of[i].of]
Called(blocks) ==
  LET of == Ofkind(blocks, "tool_use") IN [i \in DOMAIN of |-> of[i].of]
After(messages, i) ==
  {j \in DOMAIN messages : j > i /\ \A k \in i+1..j : messages[k].role # "assistant"}
ResultsFollow ==
  phase = "waiting" =>
    \A i \in DOMAIN request.messages :
      request.messages[i].role = "assistant" =>
        Results(FlattenSeq([j \in 1..Cardinality(After(request.messages, i)) |->
                              request.messages[i + j].blocks]))
          = Called(request.messages[i].blocks)

(* What the comment at ConvertTool says: the results of consecutive tool   *)
(* messages are in one user message, the one after their calls.            *)
ResultsTogether ==
  phase = "waiting" =>
    \A i \in DOMAIN request.messages :
      LET calls == Called(request.messages[i].blocks) IN
      calls # <<>> =>
        /\ i + 1 \in DOMAIN request.messages
        /\ Results(request.messages[i + 1].blocks) = calls

(* A request finds the prompt cache that the one before has filled: a      *)
(* message that carried a breakpoint is there, with all that came before   *)
(* it unchanged, even if a system message at the end has moved.            *)
ReusesCache ==
  Len(request.messages) > 1 =>
    /\ request'.system = request.system
    /\ \E i \in request.marked :
         IsPrefix(SubSeq(request.messages, 1, i), request'.messages)
=============================================================================
