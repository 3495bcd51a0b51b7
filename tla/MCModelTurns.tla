---------------------------- MODULE MCModelTurns ----------------------------
(* An instance of ModelTurns for TLC: answers with up to two calls, under  *)
(* ids that come again, and refusals of every kind.                        *)
EXTENDS ModelTurns

One  == <<"given", 1>>
Two  == <<"given", 2>>
Old  == <<"recovered", 1>>
Body(items, finish) == [items |-> items, finish |-> finish]
No(status, code, wait) == [status |-> status, code |-> code, wait |-> wait]
Other == [kind |-> "other"]

SomeAnswers ==
  {Body(<<Text>>, "stop"), Body(<<>>, "stop"), Body(<<>>, "withheld"), Body(<<Text>>, "length"),
   Body(<<Text, Call(One, "see", "mark")>>, "stop"),
   Body(<<Reasoning, Text, Other, Call(Nothing, "act", Nothing)>>, "stop"),
   Body(<<Call(Two, "see", "mark"), Text, Call(One, "act", Nothing)>>, "length"),
   Body(<<Text, Reasoning, Call(One, "act", Nothing)>>, "stop")}

SomeRefusals ==
  {No(401, Nothing, Nothing), No(404, Nothing, Nothing), No(400, Nothing, Nothing),
   No(429, Nothing, Nothing), No(503, Nothing, 90),
   No(429, "spent", Nothing), No(400, "spent", Nothing), No(400, "key", Nothing)}

SomeResults == {<<"text">>, <<"image">>, <<"image", "text", "image">>}
Recalled(content) == <<[call |-> Call(Old, "see", Nothing), content |-> content]>>
SomeRecovered == {Nothing, <<>>, Recalled(<<"text">>), Recalled(<<"image", "text", "image">>)}
TwoModels == {"small", "large"}
=============================================================================
