------------------------------ MODULE Adapters ------------------------------
(***************************************************************************)
(* The same conversation through the other adapters: Anthropic with an API *)
(* key (anthropic/), Codex (openai_oauth/) and the providers that speak    *)
(* OpenAI's protocol (openai.rs), with what the request keeps beside its   *)
(* types (request.rs), the key that ties the requests of a conversation    *)
(* together (cache_key.rs) and what becomes of an upstream's error         *)
(* (provider_trait.rs).                                                    *)
(***************************************************************************)
EXTENDS Conversation

CONSTANTS
  Routes,  \* [adapter, v4, named_openai, hint, client_key] of a conversation
  Causes   \* what an upstream may complain of, a subset of AllCauses

AllCauses == {"throttled", "overloaded", "invalid", "key", "missing", "broke"}
AllAdapters == {"claude_code", "anthropic", "codex", "openai"}

ASSUME AdaptersAssumption ==
  /\ Causes \subseteq AllCauses
  /\ \A route \in Routes :
       /\ route.adapter \in AllAdapters
       /\ route.v4 \/ route.hint \/ route.client_key => route.adapter # "claude_code"

VARIABLES
  route,
  sent,          \* how many messages the last request carried
  cache_key,     \* prompt_cache_key or session_id of the last request
  thought,       \* upstream: the thinking of the answers it has completed
  deltas,        \* upstream: whether it streams the text as it comes
  emitted_text,  \* of the Codex stream
  failure        \* the last error: its cause, how it was told, what it became

own == <<route, sent, cache_key, thought, deltas, emitted_text, failure>>

NoKey == [from |-> "nobody", system |-> <<>>, user |-> <<>>]
NoFailure == [cause |-> "", told |-> "", error |-> <<>>]

AdaptersInit ==
  /\ ConversationInit
  /\ route \in Routes
  /\ sent = 0 /\ cache_key = NoKey /\ thought = <<>>
  /\ deltas = TRUE /\ emitted_text = FALSE /\ failure = NoFailure

IsInstruction(m) == m.role \in {"system", "developer"}
Request(system, messages, marked) ==
  [system |-> system, messages |-> messages, marked |-> marked]

---------------------------------------------------------------------------
(* cache_key.rs.                                                           *)

FirstText(messages, Is(_)) ==
  LET i == SelectInSeq(messages, Is) IN IF i = 0 THEN <<>> ELSE messages[i].text
LastText(messages, Is(_)) == FirstText(Reverse(messages), Is)

leading_system_text(messages) == FirstText(messages, IsInstruction)
last_user_text(messages) == LastText(messages, LAMBDA m : m.role = "user")
first_user_text(messages) == FirstText(messages, LAMBDA m : m.role = "user")

conversation_key(messages, client_key) ==
  IF client_key THEN [NoKey EXCEPT !.from = "client"]
  ELSE IF \E m \in ToSet(messages) : m.role = "user"
  THEN [from |-> "history", system |-> leading_system_text(messages),
        user |-> first_user_text(messages)]
  ELSE NoKey

(* Only OpenAI and OpenRouter take a hint; Anthropic takes none.           *)
CacheKey ==
  IF route.adapter = "codex" \/ route.hint
  THEN conversation_key(history, route.client_key) ELSE NoKey

---------------------------------------------------------------------------
(* Anthropic with an API key: every system message joins the one prompt,   *)
(* and an assistant message is never empty.                                *)

AsUser(c, m) == Appended(c, "user", <<TextBlock(m.text)>>)
PlainSystem(c, m) == [c EXCEPT !.system = @ \o m.text]
PlainAssistant(c, m) ==
  LET converted == ConvertAssistant(c, m) IN
  IF Last(converted.messages).blocks # <<>> THEN converted
  ELSE Appended(c, "assistant", <<TextBlock(<<>>)>>)

PlainNext(c, m) ==
  CASE IsInstruction(m) -> PlainSystem(c, m)
    [] m.role = "user" -> AsUser(c, m)
    [] m.role = "assistant" -> PlainAssistant(c, m)
    [] m.role = "tool" -> ConvertTool(c, m)

convert_messages(messages) ==
  LET after[n \in 0..Len(messages)] ==
        IF n = 0 THEN NotYet ELSE PlainNext(after[n - 1], messages[n])
  IN  after[Len(messages)]

build_anthropic_request(messages) ==
  LET c == convert_messages(messages) IN
  Request(c.system, c.messages, LastOnly(c.messages))

(* The counts that its message_delta may repeat: the uncached input only.  *)
MergedInput(start, delta) ==
  [start EXCEPT !.input = IF delta.input > 0 THEN delta.input ELSE @]

(* The stream is the one of Conversation, for restore_tool_name does       *)
(* nothing to the client's own names.  The code numbers the choice of a    *)
(* text by its block; Collector joins them all.                            *)
PlainStream ==
  \/ \E usage \in Usages : message_start(usage)
  \/ content_block_start("text")
  \/ \E name \in Registered : tool_use_start(name)
  \/ \E part \in {"x", "}"} : Delta(part)
  \/ \E stop \in {"end_turn", "max_tokens", "tool_use"}, usage \in {NoUsage, answer.usage} :
        Stops(stop, MergedInput(start_usage, usage))

---------------------------------------------------------------------------
(* Codex: texts only.  A result of a tool becomes the user's text, and the *)
(* calls are not told.                                                     *)

InputItem(m) ==
  [role |-> IF m.role = "assistant" THEN "assistant" ELSE "user",
   blocks |-> <<TextBlock(m.text)>>]

CodexRequest(messages) ==
  LET said == {i \in DOMAIN messages : IsInstruction(messages[i])}
      instructions == Only(messages, said)
      others == Only(messages, DOMAIN messages \ said)
  IN  Request(FlattenSeq([i \in DOMAIN instructions |-> instructions[i].text]),
              [i \in DOMAIN others |-> InputItem(others[i])], {})

(* The Responses API counts what it has cached with the input.             *)
codex_usage(u, output) ==
  [prompt |-> u.input, completion |-> output, cached |-> u.read, cache_write |-> 0]

Unchanged == UNCHANGED <<history, request, told, start_usage, tool_block_indices,
                         next_tool_index, sends>>

Created(usage, streams) ==
  /\ phase = "waiting" /\ phase' = "streaming"
  /\ answer' = [NoAnswer EXCEPT !.usage = usage]
  /\ deltas' = streams /\ emitted_text' = FALSE
  /\ UNCHANGED collected /\ Unchanged

OutputItem ==
  /\ content_block_start("text")
  /\ UNCHANGED <<deltas, emitted_text>>

OutputTextDelta ==
  LET index == Len(answer.blocks) IN
  /\ phase = "streaming" /\ index > 0 /\ Blank(answer.blocks[index].text)
  /\ answer' = [answer EXCEPT !.blocks[index].text = Append(@, "x")]
  /\ collected' = IF deltas THEN text_chunk(collected, "x") ELSE collected
  /\ emitted_text' = deltas
  /\ UNCHANGED <<phase, deltas>> /\ Unchanged

(* The text of response.completed is for a stream that told none.          *)
FallsBackAlways == TRUE
FallsBack == ~emitted_text

Completed ==
  LET output_text == Texts(answer.blocks)
      all == IF FallsBack THEN [collected EXCEPT !.text = @ \o output_text] ELSE collected
  IN
  /\ phase = "streaming" /\ phase' = "stopped"
  /\ collected' = final_chunk(all, "stop", codex_usage(answer.usage, Output))
  /\ UNCHANGED <<answer, deltas, emitted_text>> /\ Unchanged

CodexStream ==
  \/ \E usage \in Usages, streams \in BOOLEAN : Created(usage, streams)
  \/ OutputItem \/ OutputTextDelta \/ Completed

---------------------------------------------------------------------------
(* OpenAI's protocol passes through.  The parse of the request drops       *)
(* fields it has no type for, so assistant messages are kept beside it.    *)

NoField == "no field"

(* normalize_chat_request: developer messages become system messages.      *)
Normalized(messages) ==
  [i \in DOMAIN messages |->
     IF messages[i].role = "developer" /\ ~route.named_openai
     THEN [messages[i] EXCEPT !.role = "system"] ELSE messages[i]]

assistant_extras(messages) ==
  LET of == Assistants(messages) IN [i \in DOMAIN of |-> of[i].extras]

ByPosition(messages, i) == i
Ordinal(messages, i) == Len(Assistants(SubSeq(messages, 1, i)))

(* Both spellings are one field to DeepSeek V4, and it must be there.      *)
Reasoning(extras) ==
  IF "reasoning_content" \in DOMAIN extras THEN extras.reasoning_content
  ELSE IF "reasoning" \in DOMAIN extras THEN extras.reasoning ELSE <<>>

WireMessage(m, reasoning) ==
  [role |-> m.role, blocks |-> <<TextBlock(m.text)>>, reasoning |-> reasoning]

to_wire_value(messages) ==
  LET normal == Normalized(messages)
      kept == assistant_extras(messages)
      ReasoningAt(i) ==
        LET n == Ordinal(normal, i) IN IF n \in DOMAIN kept THEN Reasoning(kept[n]) ELSE <<>>
  IN  [i \in DOMAIN normal |->
         WireMessage(normal[i], IF route.v4 /\ normal[i].role = "assistant"
                                THEN ReasoningAt(i) ELSE NoField)]

(* Its chunks are the upstream's; calls are left out.                      *)
OpenAIStream ==
  \/ \E usage \in Usages : Created(usage, TRUE)
  \/ /\ \E kind \in {"thinking", "text"} : content_block_start(kind)
     /\ UNCHANGED <<deltas, emitted_text>>
  \/ Delta("x") /\ UNCHANGED <<deltas, emitted_text>>
  \/ /\ \E stop \in {"end_turn", "max_tokens"} : Stops(stop, answer.usage)
     /\ UNCHANGED <<deltas, emitted_text>>

---------------------------------------------------------------------------
(* Errors.                                                                 *)

StatusOf ==
  [throttled |-> 429, overloaded |-> 529, invalid |-> 400, key |-> 401,
   missing |-> 404, broke |-> 500]

ProviderError(kind, status) == [kind |-> kind, status |-> status]
NoStatus == 0

map_status_error(status) ==
  CASE status \in {401, 403} -> ProviderError("Authentication", NoStatus)
    [] status = 404 -> ProviderError("NotFound", NoStatus)
    [] status = 429 -> ProviderError("RateLimit", NoStatus)
    [] OTHER -> ProviderError("ServerError", status)

(* An error event of the OAuth adapter names its status.                   *)
stream_error(cause) == map_status_error(StatusOf[cause])

(* No status gets through a stream of the vendored client: a refusal ends   *)
(* it as a broken connection does.  An error event it cannot parse, for    *)
(* Anthropic nests what it says, unless an upstream says it flat.          *)
map_anthropic_error(how) ==
  IF how = "event" THEN ProviderError("Other", NoStatus)
  ELSE ProviderError("ServerError", NoStatus)

error_detail_to_provider_error(status) ==
  CASE status = 429 -> ProviderError("RateLimit", NoStatus)
    [] status = 402 -> ProviderError("ServerError", 402)
    [] OTHER -> ProviderError("ServerError", status)

(* A code that is a number: async_openai cannot read it, the adapter does. *)
(* A code in words it reads itself, but for one in an event, whose words   *)
(* tell the adapter no status.                                             *)
Reparsed(how) == how = "number"

map_openai_error(status, how) ==
  IF Reparsed(how) THEN error_detail_to_provider_error(status)
  ELSE ProviderError("OpenAIError", NoStatus)

ErrorOf(cause, how) ==
  LET status == StatusOf[cause] IN
  CASE route.adapter = "claude_code" ->
         IF how = "event" THEN stream_error(cause) ELSE map_status_error(status)
    [] route.adapter = "anthropic" -> map_anthropic_error(how)
    [] route.adapter = "codex" ->
         IF how = "event" THEN ProviderError("ServerError", NoStatus) ELSE map_status_error(status)
    [] route.adapter = "openai" ->
         CASE how = "event" -> error_detail_to_provider_error(status)
           [] how = "worded" -> error_detail_to_provider_error(NoStatus)
           [] OTHER -> map_openai_error(status, how)

is_client_error(e) ==
  e.kind = "ServerError" /\ e.status \in 400..499 \ {401, 402, 403, 408, 429}
is_transient(e) ==
  \/ e.kind \in {"RateLimit", "Timeout", "OpenAIError", "Other"}
  \/ e.kind = "ServerError" /\ (e.status = NoStatus \/ e.status >= 500)

(* Ways in which an upstream of the adapter may tell an error.             *)
Ways ==
  IF route.adapter = "openai" THEN {"number", "string"} ELSE {"status"}
EventWays ==
  CASE route.adapter = "anthropic" -> {"event", "flat"}
    [] route.adapter = "openai" -> {"event", "worded"}
    [] OTHER -> {"event"}

(* How an error is read does not depend on what was said before.           *)
Refuses(cause, how) ==
  /\ sends = 1
  /\ \/ phase = "streaming" /\ how \in EventWays
     \/ phase = "waiting" /\ how \in Ways
  /\ phase' = "failed"
  /\ failure' = [cause |-> cause, told |-> how, error |-> ErrorOf(cause, how)]
  /\ UNCHANGED <<answer, collected>> /\ Unchanged
  /\ UNCHANGED <<route, sent, cache_key, thought, deltas, emitted_text>>

Gives ==
  /\ phase = "failed" /\ Reset
  /\ failure' = NoFailure
  /\ UNCHANGED <<history, request, told, sends>>
  /\ UNCHANGED <<route, sent, cache_key, thought, deltas, emitted_text>>

---------------------------------------------------------------------------
BuildRequest ==
  CASE route.adapter = "claude_code" -> build_request(history)
    [] route.adapter = "anthropic" -> build_anthropic_request(history)
    [] route.adapter = "codex" -> CodexRequest(history)
    [] route.adapter = "openai" -> Request(<<>>, to_wire_value(history), {})

Ask ==
  /\ Sends(BuildRequest)
  /\ sent' = Len(history)
  /\ cache_key' = CacheKey
  /\ UNCHANGED <<route, thought, deltas, emitted_text, failure>>

(* What the client may keep of an answer's reasoning, and send back.       *)
MayKeep ==
  {<<>>} \cup
    IF collected.reasoning = <<>> \/ route.adapter # "openai" THEN {}
    ELSE {[reasoning_content |-> collected.reasoning], [reasoning |-> collected.reasoning]}

Finishes ==
  /\ \E extras \in MayKeep : EndsKeeping(extras)
  /\ thought' = IF route.adapter = "openai" THEN Append(thought, collected.reasoning) ELSE thought
  /\ deltas' = TRUE /\ emitted_text' = FALSE
  /\ UNCHANGED <<route, sent, cache_key, failure>>

Speak ==
  /\ \/ \E text \in {<<>>, <<"x">>} : Say(text)
     \/ PostResult(<<>>) \/ Note
     \/ route.adapter = "openai" /\ Says(Message("developer", <<"note">>))
  /\ UNCHANGED own

Streams ==
  \/ route.adapter = "claude_code" /\ Upstream /\ UNCHANGED <<deltas, emitted_text>>
  \/ route.adapter = "anthropic" /\ PlainStream /\ UNCHANGED <<deltas, emitted_text>>
  \/ route.adapter = "codex" /\ CodexStream
  \/ route.adapter = "openai" /\ OpenAIStream

AdaptersNext ==
  \/ Speak \/ Ask \/ Finishes \/ Gives
  \/ Streams /\ UNCHANGED <<route, sent, cache_key, thought, failure>>
  \/ Fails /\ deltas' = TRUE /\ emitted_text' = FALSE
           /\ UNCHANGED <<route, sent, cache_key, thought, failure>>
  \/ \E cause \in Causes, how \in {"status", "number", "string", "event", "flat", "worded"} :
        Refuses(cause, how)

AdaptersSpec == AdaptersInit /\ [][AdaptersNext]_<<conversation, own>>

---------------------------------------------------------------------------
(* A throttled or broken upstream is worth another provider, and it or a   *)
(* bad key is never laid on the client.  An invalid request is, where the  *)
(* adapter gets to know the status.  Plain Anthropic never does, Codex not *)
(* from an event, and OpenAI not from a code in words: there it passes for *)
(* a fault of the provider, and is retried.                                *)
Readable(how) ==
  CASE route.adapter = "claude_code" -> TRUE
    [] route.adapter = "anthropic" -> FALSE
    [] route.adapter = "codex" -> how = "status"
    [] route.adapter = "openai" -> how \in {"number", "event"}
LaidOnClient(e) == is_client_error(e) /\ ~is_transient(e)
LaidOnProvider(e) == is_transient(e) /\ ~is_client_error(e)
FaultsAreTold ==
  phase = "failed" =>
    /\ failure.cause \in {"throttled", "overloaded", "broke"} => LaidOnProvider(failure.error)
    /\ failure.cause = "key" => ~is_client_error(failure.error)
    /\ failure.cause = "invalid" =>
         IF Readable(failure.told) THEN LaidOnClient(failure.error)
         ELSE LaidOnProvider(failure.error)

(* Whatever the adapter, a streamed answer ends as what the upstream has   *)
(* said: its text told once, whether it was streamed or only completed,    *)
(* its calls whole, and the usage to bill as this upstream counts it; or   *)
(* as a fault for what it was.                                             *)
TellsTheAnswer ==
  /\ FaultsAreTold
  /\ IF route.adapter \in {"claude_code", "anthropic"} THEN StreamedIsWhole
     ELSE /\ IsPrefix(collected.text, Texts(Ofkind(answer.blocks, "text")))
          /\ phase = "stopped" =>
               /\ collected.text = Texts(Ofkind(answer.blocks, "text"))
               /\ route.adapter = "codex" =>
                    collected.usage = codex_usage(answer.usage, Len(Texts(answer.blocks)))

(* Every call is answered before the next answer, whatever messages stand  *)
(* among the results; with an API key all of them in one message, as the   *)
(* comment at its conversion says.                                         *)
CallsAreAnswered ==
  /\ ResultsFollow
  /\ route.adapter = "anthropic" => ResultsTogether

(* The reasoning that a client sends back reaches DeepSeek V4 with the     *)
(* turn it was thought for, whatever stands between the turns, every turn  *)
(* has the field, and no other model gets it.                              *)
ReasoningReturns ==
  route.adapter = "openai" /\ phase = "waiting" =>
    LET turns == Assistants(request.messages)
        kept == Assistants(history)
    IN  \A i \in DOMAIN turns :
          turns[i].reasoning = IF ~route.v4 THEN NoField
                               ELSE IF kept[i].extras = <<>> THEN <<>> ELSE thought[i]

(* A request finds the prompt cache that the one before has filled: its    *)
(* prompt, its key and the messages up to one with a breakpoint are those  *)
(* of the one before.  But for the OAuth adapter, which turns them into    *)
(* reminders, a later system message changes the prompt, and may change    *)
(* the key.                                                                *)
NoNewInstruction == \A i \in DOMAIN history : i > sent => ~IsInstruction(history[i])
CacheIsReused ==
  [][sends' > sends /\ sends > 0 =>
       IF route.adapter = "claude_code" THEN ReusesCache
       ELSE NoNewInstruction =>
              /\ request'.system = request.system
              /\ cache_key # NoKey => cache_key' = cache_key
              /\ IsPrefix(request.messages, request'.messages)]_<<conversation, own>>
===========================================================================
