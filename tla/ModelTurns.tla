----------------------------- MODULE ModelTurns -----------------------------
(***************************************************************************)
(* A session's turns with a model: the client asks the service, over and   *)
(* over where that can help, the answer becomes a turn of the history, its *)
(* calls are made and their results told with the next request.            *)
(*                                                                         *)
(* The services are three, one of them with two ways in; what they answer  *)
(* is theirs to choose.  What a call does is RunLoop's; here it only has a *)
(* result.                                                                 *)
(***************************************************************************)
EXTENDS ModelWire

CONSTANTS
  Answers,      \* bodies a service may send
  Refusals,     \* [status, code, wait]: answers that are none
  Results,      \* of a call
  Recovered,    \* of earlier sessions: nothing, or [call, content] of the last calls
  KeepImages,   \* LoopLimits.keep_last_images
  MaxTurns,     \* bound: turns of a session
  ModelIds,     \* a catalogue is a set of these
  Default       \* the one the owner has chosen for new runs

Errors == {"Unauthorized", "Forbidden", "QuotaExhausted", "RateLimited", "ModelUnavailable",
           "Unavailable", "Request", "InvalidResponse", "CredentialStore",
           "InvalidCredentials", "MissingCredentials"}
Ends == {"MaxTokens", "InvalidTerminal", "EndTurn", "Cancelled"}

(* What there is not is none of these.                                     *)
ASSUME ModelTurnsAssumption ==
  /\ KeepImages \in Nat /\ MaxTurns \in Nat /\ Default \in ModelIds
  /\ \A r \in Refusals : r.status \in Nat /\ r.wait \in {Nothing} \cup Nat
  /\ Nothing \notin Errors \cup Ends

VARIABLES
  service,    \* who is asked: "openai", "chatgpt", "anthropic", "gemini"
  messages,   \* the history
  wire,       \* the conversation of the last request
  phase,      \* of the client
  attempt,    \* refusals of this request so far
  renewed,    \* the access token was refreshed in this turn
  offered,    \* the models the daemon believes in
  verdict,    \* what the session ended with
  said,       \* history: what was said and told, in order
  asked,      \* history: the refusals of this turn
  waited      \* history: seconds slept in this turn

client      == <<phase, attempt, renewed>>
turnHistory == <<said, asked, waited>>
turnVars    == <<service, messages, wire, client, offered, verdict, turnHistory>>

Services == {"openai", "chatgpt", "anthropic", "gemini"}

(* What the messages are is for the properties to say.                     *)
TurnsTypeOK ==
  /\ service \in Services
  /\ phase \in {"idle", "asking", "renewing", "looking", "over"}
  /\ attempt \in 0..MaxRetries /\ renewed \in BOOLEAN
  /\ offered \in SUBSET ModelIds /\ Default \in offered
  /\ verdict \in {Nothing} \cup Errors \cup Ends
  /\ phase = "over" <=> verdict # Nothing
  /\ asked \in Seq(Refusals) /\ waited \in Nat

(* opening_messages: a session that takes an earlier one up is told, as    *)
(* the pairs they were, the last calls with their results, pictures and    *)
(* all, and that it was interrupted, also when no call is left to tell.    *)
Opening(recovery) ==
  <<Says("user", <<Text>>)>> \o
    (IF recovery = Nothing THEN <<>>
     ELSE FlattenSeq([i \in DOMAIN recovery |->
            <<Says("assistant", <<recovery[i].call>>),
              Says("user", <<Result(recovery[i].call.id, recovery[i].content)>>)>>])
          \o <<Says("user", <<Text>>)>>)

(* What was said and told, as the record keeps it: a text and who says it, *)
(* a call, the answer to a call and its pictures.                          *)
TextOf(role) == [kind |-> "text", role |-> role]
AnswerTo(call, content) ==
  [kind |-> "answer", id |-> call.id, name |-> call.name, content |-> content]

OpeningSaid(recovery) ==
  <<TextOf("user")>> \o
    (IF recovery = Nothing THEN <<>>
     ELSE FlattenSeq([i \in DOMAIN recovery |->
            <<recovery[i].call, AnswerTo(recovery[i].call, recovery[i].content)>>])
          \o <<TextOf("user")>>)

TurnsInit ==
  /\ service \in Services
  /\ \E recovery \in Recovered :
       messages = Opening(recovery) /\ said = OpeningSaid(recovery)
  /\ wire = <<>> /\ phase = "idle" /\ attempt = 0 /\ renewed = FALSE
  /\ offered = ModelIds /\ verdict = Nothing
  /\ asked = <<>> /\ waited = 0
---------------------------------------------------------------------------
(* The next turn: old pictures go, and the rest is put in the service's    *)
(* words.                                                                  *)
InTheWordsOf(who, conversation) ==
  CASE who \in {"openai", "chatgpt"} -> OpenAIMessages(conversation)
    [] who = "gemini" -> GeminiMessages(conversation)
    [] OTHER -> conversation

Complete ==
  /\ phase = "idle"
  /\ messages' = Pruned(messages, KeepImages)
  /\ wire' = InTheWordsOf(service, messages')
  /\ phase' = "asking" /\ attempt' = 0 /\ renewed' = FALSE
  /\ asked' = <<>> /\ waited' = 0
  /\ UNCHANGED <<service, offered, verdict, said>>

Over(error) == phase' = "over" /\ verdict' = error

(* The managed client is made anew for every turn, from the row and the    *)
(* secret of the provider, which may not be there or not be readable.      *)
ClientFails ==
  /\ phase = "idle"
  /\ \E error \in {"Request", "CredentialStore", "InvalidCredentials", "MissingCredentials"} :
       Over(error)
  /\ UNCHANGED <<service, messages, wire, attempt, renewed, offered, turnHistory>>

\* Variant: a refusal that may be repeated is repeated without end.
DeclinedOnAndOn(refusal, error) ==
  /\ asked' = Append(asked, refusal) /\ Len(asked) < 9
  /\ IF Retryable(error) THEN UNCHANGED <<phase, verdict>> ELSE Over(error)
  /\ UNCHANGED <<attempt, renewed, messages, said, waited>>

(* What becomes of a refused request: the same again after a while; with a *)
(* new token, once; or the end of the turn, after a look at the catalogue  *)
(* when the model is not there.                                            *)
Declined(refusal, error) ==
  /\ asked' = Append(asked, refusal)
  /\ \/ /\ Retryable(error) /\ attempt < MaxRetries
        /\ attempt' = attempt + 1
        /\ waited' = waited + (IF refusal.wait = Nothing THEN BackoffSeconds(attempt)
                               ELSE RetryAfterSeconds(refusal.wait))
        /\ UNCHANGED <<phase, verdict>>
     \/ /\ ~(Retryable(error) /\ attempt < MaxRetries)
        /\ \/ /\ error = "Unauthorized" /\ service \in {"openai", "chatgpt"} /\ ~renewed
              /\ phase' = "renewing" /\ UNCHANGED verdict
           \/ /\ error = "ModelUnavailable" /\ ~renewed
              /\ phase' = "looking" /\ UNCHANGED verdict
           \/ /\ \/ error \notin {"Unauthorized", "ModelUnavailable"}
                 \/ error = "Unauthorized" /\ service \notin {"openai", "chatgpt"}
                 \/ renewed
              /\ Over(error)
        /\ UNCHANGED <<attempt, waited>>
  /\ UNCHANGED <<renewed, messages, said>>

(* What the service has said, whatever becomes of it here.                 *)
Spoken(items) ==
  LET known == SelectSeq(WithIds(items, Len(said)), LAMBDA b :
                 b.kind \in (IF service = "gemini" THEN {"text", "call"} ELSE {"text", "call", "reasoning"}))
  IN [i \in DOMAIN known |->
       CASE known[i].kind = "text" -> TextOf("assistant")
         [] known[i].kind = "call" /\ service # "gemini" -> Call(known[i].id, known[i].name, Nothing)
         [] OTHER -> known[i]]

Act(content, items) ==
  LET calls == Calls(content)
  IN \E results \in [DOMAIN calls -> Results] :
       /\ messages' = messages \o
            <<Says("assistant", content),
              Says("user", [i \in DOMAIN calls |-> Result(calls[i].id, results[i])])>>
       /\ said' = said \o Spoken(items) \o [i \in DOMAIN calls |-> AnswerTo(calls[i], results[i])]

(* A turn: the loop makes its calls, each in its order, or ends.           *)
Turn(reply, items) ==
  /\ attempt' = 0 /\ renewed' = FALSE /\ asked' = <<>> /\ waited' = 0
  /\ \/ reply = Nothing /\ Over("InvalidResponse") /\ UNCHANGED <<messages, said>>
     \/ /\ reply # Nothing /\ reply.stop = "tool_use"
        /\ Act(reply.content, items)
        /\ phase' = "idle" /\ UNCHANGED verdict
     \/ /\ reply # Nothing /\ reply.stop # "tool_use"
        /\ Over(CASE reply.stop = "max_tokens" -> "MaxTokens"
                  [] reply.stop = "end_turn"   -> "EndTurn"
                  [] OTHER -> "InvalidTerminal")
        /\ UNCHANGED <<messages, said>>

(* An account without credit and a key that is none are said with another  *)
(* status by each service.                                                 *)
RefusalsOf(who) ==
  {r \in Refusals : /\ r.code = "spent" => r.status = IF who = "anthropic" THEN 400 ELSE 429
                    /\ r.code = "key" => who = "gemini" /\ r.status = 400}

Quiet == UNCHANGED <<service, wire, offered>>
---------------------------------------------------------------------------
(* request, of the three clients.                                          *)
OpenAIAnswers ==
  /\ phase = "asking" /\ service = "openai" /\ Quiet
  /\ \/ \E r \in RefusalsOf(service) : Declined(r, ClassifyOpenAI(r.status, r.code))
     \/ \E a \in Answers : Turn(DecodeOpenAI(a, Len(said)), a.items)

(* With ChatGPT's sign-in the answer is a stream of events, which may stop *)
(* anywhere.                                                               *)
Events(answer, repeats) ==
  [i \in DOMAIN answer.items |-> [type |-> "item", item |-> answer.items[i]]]
    \o <<[type |-> "completed", output |-> IF repeats THEN answer.items ELSE <<>>,
          finish |-> answer.finish]>>

ChatGptAnswers ==
  /\ phase = "asking" /\ service = "chatgpt" /\ Quiet
  /\ \/ \E r \in RefusalsOf(service) : Declined(r, ClassifyOpenAI(r.status, r.code))
     \/ \E a \in Answers, repeats \in BOOLEAN :
          \E n \in 0..Len(Events(a, repeats)), failed \in BOOLEAN :
            LET events == SubSeq(Events(a, repeats), 1, n)
                            \o (IF failed THEN <<[type |-> "error"]>> ELSE <<>>)
                body == DecodeSse(events)
            IN Turn(IF body = Nothing THEN Nothing ELSE DecodeOpenAI(body, Len(said)), a.items)

AnthropicAnswers ==
  /\ phase = "asking" /\ service = "anthropic" /\ Quiet
  /\ \/ \E r \in RefusalsOf(service) : Declined(r, ClassifyAnthropic(r.status, r.code))
     \/ \E a \in Answers : Turn(DecodeAnthropic(a, Len(said)), a.items)

GeminiAnswers ==
  /\ phase = "asking" /\ service = "gemini" /\ Quiet
  /\ \/ \E r \in RefusalsOf(service) : Declined(r, ClassifyGemini(r.status, r.code))
     \/ \E a \in Answers : Turn(DecodeGemini(a, Len(said)), a.items)

(* No connection, no answer in time, a body that is too long or no JSON.   *)
NoAnswer ==
  /\ phase = "asking"
  /\ \E error \in {"Request", "InvalidResponse"} : Over(error)
  /\ UNCHANGED <<service, messages, wire, attempt, renewed, offered, turnHistory>>

(* The managed client reads how the owner is signed in.  A key is not      *)
(* renewed; a sign-in is, and a second client asks.  The row, the secret,  *)
(* the service that renews and what it answers may each be no good, and    *)
(* the token may be that of another account.                               *)
RenewalErrors ==
  {"Unauthorized", "Request"} \cup
    (IF service = "openai" THEN {}
     ELSE {"CredentialStore", "InvalidResponse", "InvalidCredentials", "MissingCredentials"})

RenewSignIn ==
  /\ phase = "renewing"
  /\ \/ /\ service = "chatgpt"
        /\ phase' = "asking" /\ attempt' = 0 /\ renewed' = TRUE /\ UNCHANGED verdict
     \/ /\ \E error \in RenewalErrors : Over(error)
        /\ UNCHANGED <<attempt, renewed>>
  /\ UNCHANGED <<service, messages, wire, offered, turnHistory>>

CatalogOf(who, rows) ==
  CASE who \in {"openai", "chatgpt"} -> OpenAICatalog(rows, who = "chatgpt")
    [] who = "gemini" -> GeminiCatalog(rows)
    [] OTHER -> AnthropicCatalog(rows)

CatalogRows == [model : ModelIds, fit : BOOLEAN, listed : BOOLEAN]

(* refresh_catalog, when the model is not there: an answer without usable  *)
(* rows, one that leaves out the owner's choice and a failure to answer    *)
(* leave the catalogue alone.                                              *)
Look ==
  /\ phase = "looking" /\ Over("ModelUnavailable")
  /\ \/ UNCHANGED offered
     \/ \E rows \in SUBSET CatalogRows :
          LET models == CatalogOf(service, rows)
          IN Default \in models /\ offered' = models
  /\ UNCHANGED <<service, messages, wire, attempt, renewed, turnHistory>>

(* The loop stops waiting wherever it waits.                               *)
Cancel ==
  /\ phase # "over" /\ Over("Cancelled")
  /\ UNCHANGED <<service, messages, wire, attempt, renewed, offered, turnHistory>>

TurnsNext ==
  \/ Len(messages) < 2 * MaxTurns + 3 /\ Complete
  \/ OpenAIAnswers \/ ChatGptAnswers \/ AnthropicAnswers \/ GeminiAnswers
  \/ ClientFails \/ NoAnswer \/ RenewSignIn \/ Look \/ Cancel

TurnsSpec == TurnsInit /\ [][TurnsNext]_turnVars
---------------------------------------------------------------------------
(* What a service is told, read back from the request in its own words.    *)
HeardOpenAI(input) ==
  FlattenSeq([i \in DOMAIN input |->
    CASE input[i].type = "message" -> Repeat(TextOf(input[i].role), input[i].texts)
      [] input[i].type = "function_call" -> <<Call(input[i].id, input[i].name, Nothing)>>
      [] input[i].type = "function_call_output" ->
           <<[kind |-> "answer", id |-> input[i].id, pictures |-> Pictures(input[i].output)]>>
      [] input[i].type = "reasoning" -> <<Reasoning>>])

HeardGemini(contents) ==
  FlattenSeq([i \in DOMAIN contents |->
    LET parts == contents[i].parts
        beside(j) == Cardinality({k \in DOMAIN parts :
                       /\ k > j
                       /\ \A l \in (j + 1)..k : parts[l].type = "inlineData"})
    IN FlattenSeq([j \in DOMAIN parts |->
         CASE parts[j].type = "text" -> <<TextOf(contents[i].role)>>
           [] parts[j].type = "functionCall" ->
                <<Call(parts[j].id, parts[j].name, parts[j].signature)>>
           [] parts[j].type = "functionResponse" ->
                <<[kind |-> "answer", id |-> parts[j].id, name |-> parts[j].name,
                   pictures |-> beside(j)]>>
           [] OTHER -> <<>>])])

HeardAnthropic(conversation) ==
  FlattenSeq([i \in DOMAIN conversation |->
    LET blocks == conversation[i].blocks
    IN [j \in DOMAIN blocks |->
         CASE blocks[j].kind = "text" -> TextOf(conversation[i].role)
           [] blocks[j].kind = "result" ->
                [kind |-> "answer", id |-> blocks[j].id, pictures |-> Pictures(blocks[j].content)]
           [] OTHER -> blocks[j]]])

Heard == CASE service \in {"openai", "chatgpt"} -> HeardOpenAI(wire)
           [] service = "gemini" -> HeardGemini(wire)
           [] OTHER -> HeardAnthropic(wire)

(* The pictures of the i-th thing said that are among the last few.        *)
PicturesFrom(i) ==
  FoldLeft(LAMBDA n, s : n + (IF s.kind = "answer" THEN Pictures(s.content) ELSE 0),
           0, SubSeq(said, i, Len(said)))

StillSeen(i) ==
  LET later == PicturesFrom(i + 1)
      mine  == Pictures(said[i].content)
      room  == IF later < KeepImages THEN KeepImages - later ELSE 0
  IN IF mine < room THEN mine ELSE room

ToBeHeard ==
  [i \in DOMAIN said |->
    IF said[i].kind # "answer" THEN said[i]
    ELSE IF service = "gemini"
      THEN [kind |-> "answer", id |-> said[i].id, name |-> said[i].name, pictures |-> StillSeen(i)]
      ELSE [kind |-> "answer", id |-> said[i].id, pictures |-> StillSeen(i)]]

(* The service hears the conversation that was: every text, every call     *)
(* under the id and with the signature it was made with, every answer with *)
(* the id and the name of its call, in the order in which they came; and   *)
(* the last pictures as pictures.                                          *)
WhatWasSaidIsHeard == phase = "asking" => Heard = ToBeHeard

(* A request is only repeated where waiting can help, or once with a new   *)
(* token; there are at most twice three of them in a turn, and no wait is  *)
(* longer than a minute.                                                   *)
WorthWaiting(r) == (r.status = 429 /\ r.code # "spent") \/ r.status >= 500

RepeatsHaveAReason ==
  LET repeated == {i \in DOMAIN asked : i < Len(asked) \/ phase = "asking"}
      other    == {i \in repeated : ~WorthWaiting(asked[i])}
  IN /\ other # {} => renewed
     /\ \A i, j \in other : i = j /\ asked[i].status = 401
     /\ Len(asked) <= (IF renewed THEN 2 ELSE 1) * (MaxRetries + 1)
     /\ waited <= 60 * Len(asked)

(* The owner is told why: to wait only if waiting helps, to pay only if    *)
(* there is nothing left, to sign in only if the credential was refused.   *)
FailuresAreToldApart ==
  /\ verdict = "RateLimited" => asked # <<>> /\ WorthWaiting(asked[Len(asked)])
  /\ verdict = "QuotaExhausted" => asked # <<>> /\ asked[Len(asked)].code = "spent"
  /\ verdict = "Unauthorized" =>
       asked # <<>> /\ (asked[Len(asked)].status = 401 \/ asked[Len(asked)].code = "key")
=============================================================================
