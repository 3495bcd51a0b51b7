----------------------------- MODULE ModelWire -----------------------------
(***************************************************************************)
(* What the three model clients make of a conversation and of an answer:   *)
(* the history in the words of each service (convert_messages), a body in  *)
(* the words of the loop (decode), and a refusal in the words of the owner *)
(* (classify_error).                                                       *)
(*                                                                         *)
(* A block of a message is its kind, and of a call and a result the id, the*)
(* name and the signature; texts and pictures are alike, so a result is a  *)
(* sequence of "text" and "image".                                         *)
(***************************************************************************)
EXTENDS Naturals, SequencesExt

CONSTANT Nothing   \* no id, no signature, no code

Text      == [kind |-> "text"]
Reasoning == [kind |-> "reasoning"]
Call(id, name, signature) ==
  [kind |-> "call", id |-> id, name |-> name, signature |-> signature]
Result(id, content) == [kind |-> "result", id |-> id, content |-> content]

Says(role, blocks) == [role |-> role, blocks |-> blocks]

Has(blocks, kind) == \E i \in DOMAIN blocks : blocks[i].kind = kind
Calls(blocks) == SelectSeq(blocks, LAMBDA b : b.kind = "call")

Pictures(content) == Len(SelectSeq(content, LAMBDA item : item = "image"))

Repeat(item, n) == [i \in 1..n |-> item]
---------------------------------------------------------------------------
(* prune_old_images: all pictures but the last few become a line of text.  *)
PicturesIn(messages) ==
  FoldLeft(LAMBDA n, message :
      FoldLeft(LAMBDA k, b : k + (IF b.kind = "result" THEN Pictures(b.content) ELSE 0),
               n, message.blocks),
    0, messages)

(* replace_images: the first ones, in the order of the conversation.       *)
ReplaceInBlock(done, block) ==
  LET here == IF block.kind = "result" THEN Pictures(block.content) ELSE 0
      n == IF here < done.left THEN here ELSE done.left
      nth(i) == Pictures(SubSeq(block.content, 1, i))
  IN [left |-> done.left - n,
      out  |-> Append(done.out,
        IF n = 0 THEN block
        ELSE [block EXCEPT !.content = [i \in DOMAIN @ |->
                IF @[i] = "image" /\ nth(i) <= n THEN "text" ELSE @[i]]])]

ReplaceInMessage(done, message) ==
  LET blocks == FoldLeft(ReplaceInBlock, [left |-> done.left, out |-> <<>>], message.blocks)
  IN [left |-> blocks.left, out |-> Append(done.out, [message EXCEPT !.blocks = blocks.out])]

Pruned(messages, keep) ==
  LET total == PicturesIn(messages)
  IN FoldLeft(ReplaceInMessage,
       [left |-> IF total > keep THEN total - keep ELSE 0, out |-> <<>>], messages).out
---------------------------------------------------------------------------
(* The Responses API: one flat input.  Texts wait until something else     *)
(* comes, or the message ends.                                             *)
Flush(s, role) ==
  IF s.texts = 0 THEN s
  ELSE [input |-> Append(s.input, [type |-> "message", role |-> role, texts |-> s.texts]),
        texts |-> 0]

(* tool_result_output: typed parts when there is a picture, one string     *)
(* when there is none.                                                     *)
ToolResultOutput(content) ==
  IF Pictures(content) > 0 THEN content ELSE <<"text">>

OpenAIBlock(s, role, block) ==
  LET flushed == Flush(s, role)
      put(item) == [flushed EXCEPT !.input = Append(@, item)]
  IN CASE block.kind = "text" -> [s EXCEPT !.texts = @ + 1]
       [] block.kind = "call" -> put([type |-> "function_call", id |-> block.id, name |-> block.name])
       [] block.kind = "result" ->
            put([type |-> "function_call_output", id |-> block.id, output |-> ToolResultOutput(block.content)])
       [] block.kind = "reasoning" -> put([type |-> "reasoning"])

OpenAIMessages(messages) ==
  FoldLeft(LAMBDA input, message :
      Flush(FoldLeft(LAMBDA s, b : OpenAIBlock(s, message.role, b),
                     [input |-> input, texts |-> 0], message.blocks),
            message.role).input,
    <<>>, messages)

(* Gemini: parts of turns.  An answer carries the name of its call, which  *)
(* the result itself does not have; its pictures travel beside it.         *)
GeminiBlock(s, block) ==
  LET put(parts) == [s EXCEPT !.parts = @ \o parts]
      nameOf(id) == IF id \in DOMAIN s.names THEN s.names[id] ELSE "tool"
  IN CASE block.kind = "text" -> put(<<[type |-> "text"]>>)
       [] block.kind = "call" ->
            [put(<<[type |-> "functionCall", id |-> block.id, name |-> block.name,
                    signature |-> block.signature]>>)
               EXCEPT !.names = [id \in {block.id} \cup DOMAIN @ |->
                                   IF id = block.id THEN block.name ELSE @[id]]]
       [] block.kind = "result" ->
            put(<<[type |-> "functionResponse", id |-> block.id, name |-> nameOf(block.id)]>>
                  \o Repeat([type |-> "inlineData"], Pictures(block.content)))
       [] OTHER -> s

GeminiMessage(s, message) ==
  LET after == FoldLeft(GeminiBlock, [names |-> s.names, parts |-> <<>>], message.blocks)
  IN [names |-> after.names,
      contents |-> IF after.parts = <<>> THEN s.contents
                   ELSE Append(s.contents, [role |-> message.role, parts |-> after.parts])]

NoNames == [id \in {} |-> Nothing]

\* Variant: the names are looked up in the whole conversation.
GeminiMessagesNamedLate(messages) ==
  LET names == FoldLeft(GeminiMessage, [names |-> NoNames, contents |-> <<>>], messages).names
  IN FoldLeft(LAMBDA s, message : [GeminiMessage(s, message) EXCEPT !.names = names],
              [names |-> names, contents |-> <<>>], messages).contents

GeminiMessages(messages) ==
  FoldLeft(GeminiMessage, [names |-> NoNames, contents |-> <<>>], messages).contents
---------------------------------------------------------------------------
(* An answer is its items and how it ended: "stop", "length", "withheld".  *)
(* What decode makes of it: the content and the stop reason, or Nothing.   *)
StopOf(content, cut) ==
  IF Has(content, "call") THEN "tool_use" ELSE IF cut THEN "max_tokens" ELSE "end_turn"

(* A call without an id is given a new one, of this turn.                  *)
WithIds(items, turn) ==
  [i \in DOMAIN items |->
     IF items[i].kind = "call" /\ items[i].id = Nothing
       THEN [items[i] EXCEPT !.id = <<"made", turn, i>>] ELSE items[i]]

Known(items) == SelectSeq(items, LAMBDA b : b.kind # "other")

Unsigned(items) ==
  [i \in DOMAIN items |->
     IF items[i].kind = "call" THEN [items[i] EXCEPT !.signature = Nothing] ELSE items[i]]

DecodeOpenAI(answer, turn) ==
  LET content == Unsigned(Known(WithIds(answer.items, turn)))
  IN [content |-> content, stop |-> StopOf(content, answer.finish # "stop")]

DecodeGemini(answer, turn) ==
  LET content == SelectSeq(WithIds(answer.items, turn), LAMBDA b : b.kind \in {"text", "call"})
  IN IF answer.items = <<>> /\ answer.finish = "withheld" THEN Nothing
     ELSE [content |-> content, stop |-> StopOf(content, answer.finish = "length")]

DecodeAnthropic(answer, turn) ==
  IF \E i \in DOMAIN answer.items :
       \/ answer.items[i].kind = "other"
       \/ answer.items[i].kind = "call" /\ answer.items[i].id = Nothing
    THEN Nothing
  ELSE [content |-> Unsigned(answer.items),
        stop |-> CASE answer.finish = "length"   -> "max_tokens"
                   [] answer.finish = "withheld" -> "unknown"
                   [] OTHER -> IF Has(answer.items, "call") THEN "tool_use" ELSE "end_turn"]

(* decode_sse: the last completed response, with the items that came       *)
(* before it when it has none; an error, or no completion, is no answer.   *)
DecodeSse(events) ==
  LET ends  == {i \in DOMAIN events : events[i].type = "completed"}
      last  == events[CHOOSE i \in ends : \A j \in ends : j <= i]
      items == SelectSeq(events, LAMBDA e : e.type = "item")
  IN IF ends = {} \/ \E i \in DOMAIN events : events[i].type = "error" THEN Nothing
     ELSE [items  |-> IF last.output = <<>> THEN [i \in DOMAIN items |-> items[i].item]
                      ELSE last.output,
           finish |-> last.finish]
---------------------------------------------------------------------------
(* A catalogue is a set of rows: a model, whether it can be used with tools*)
(* and whether the service shows it to people who sign in.                 *)
OpenAICatalog(rows, chatgpt) ==
  {row.model : row \in {r \in rows : IF chatgpt THEN r.listed ELSE r.fit}}
GeminiCatalog(rows) == {row.model : row \in {r \in rows : r.fit}}
AnthropicCatalog(rows) == {row.model : row \in {r \in rows : r.fit}}
---------------------------------------------------------------------------
(* A refusal is a status and, when the body has one, a code: "spent" for   *)
(* an account without credit or quota, "key" for a key that is none.       *)
ByStatus(status) ==
  CASE status = 401 -> "Unauthorized"
    [] status = 403 -> "Forbidden"
    [] status = 404 -> "ModelUnavailable"
    [] status = 429 -> "RateLimited"
    [] status >= 500 -> "Unavailable"
    [] OTHER -> "Request"

\* Variant: the status alone.
ClassifyByStatus(status, code) == ByStatus(status)

ClassifyOpenAI(status, code) ==
  IF status = 429 /\ code = "spent" THEN "QuotaExhausted" ELSE ByStatus(status)

ClassifyGemini(status, code) ==
  IF status = 400 /\ code = "key" THEN "Unauthorized"
  ELSE IF status = 429 /\ code = "spent" THEN "QuotaExhausted" ELSE ByStatus(status)

ClassifyAnthropic(status, code) ==
  IF status = 400 /\ code = "spent" THEN "QuotaExhausted" ELSE ByStatus(status)

Retryable(error) == error \in {"RateLimited", "Unavailable"}

MaxRetries == 2
BackoffSeconds(attempt) == IF attempt = 0 THEN 5 ELSE 20

(* The service's own wait, when it sends one: a minute at most.            *)
RetryAfterSeconds(asked) == IF asked < 60 THEN asked ELSE 60
=============================================================================
