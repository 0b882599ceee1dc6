------------------------------ MODULE ChatTemplate ------------------------------
(***************************************************************************)
(* A conversation becomes a prompt (src/tokenizer/chat_template.cpp,       *)
(* render_chat). Text is a sequence of symbols: the template's markers,    *)
(* line feeds ("nl") and what people say. Quoting, the wording of the      *)
(* instructions and the JSON of the tools are left out; so are messages    *)
(* whose content is not text, which raise an error before anything else.   *)
(***************************************************************************)
EXTENDS Naturals, Sequences, SequencesExt, FiniteSets, FiniteSetsExt

nlnl == <<"nl", "nl">>

(* trim: no line feed at either end. *)
Trim(s) ==
  LET solid == {i \in 1 .. Len(s) : s[i] # "nl"}
  IN IF solid = {} THEN <<>> ELSE SubSeq(s, Min(solid), Max(solid))

Turn(role, body) == <<"<|im_start|>", role, "nl">> \o body \o <<"<|im_end|>", "nl">>

(* The parts that are there, with an empty line between them. *)
Joined(parts) ==
  LET there == SelectSeq(parts, LAMBDA s : s # <<>>)
  IN FlattenSeq([i \in 1 .. Len(there) |-> IF i = 1 THEN there[i] ELSE nlnl \o there[i]])

(* Options: `thinking` and `preserve` are "unset", "on" or "off". *)
Instructions(o) ==
  IF o.thinking # "off" /\ o.effort # "medium" THEN <<o.effort>> ELSE <<>>

Preamble(msgs, o) ==
  LET system == IF msgs[1].role = "system" THEN Trim(msgs[1].content) ELSE <<>>
      body == Joined(<<Instructions(o), IF o.tools THEN <<"tools">> ELSE <<>>, system>>)
  IN IF body = <<>> THEN <<>> ELSE Turn("system", body)

(* A user turn that is a query, and not a tool's result in disguise. *)
IsToolResult(c) ==
  c # <<>> /\ Head(c) = "<tool_response>" /\ Last(c) = "</tool_response>"
Queries(msgs) ==
  {k \in DOMAIN msgs : msgs[k].role = "user" /\ ~IsToolResult(Trim(msgs[k].content))}
LastQuery(msgs) == Max(Queries(msgs))

Efforts == {"xhigh", "medium", "low"}

Raises(msgs, o) ==
  \/ msgs = <<>>
  \/ o.thinking # "off" /\ o.effort \notin Efforts
  \/ Queries(msgs) = {}
  \/ \E k \in DOMAIN msgs :
       \/ msgs[k].role = "system" /\ k # 1
       \/ msgs[k].role \notin {"system", "user", "assistant", "tool"}

-----------------------------------------------------------------------------
KeepThinkIfAsked(msgs, i, o) == o.preserve = "on" \/ i > LastQuery(msgs)   \* a fault

KeepThink(msgs, i, o) == o.preserve # "off" \/ i > LastQuery(msgs)

Parameter(arg) ==
  <<"<parameter=">> \o arg.key \o <<">", "nl">> \o arg.value \o <<"nl", "</parameter>", "nl">>

\* A call between its tags.
CallBody(call) ==
  <<"nl", "<function=">> \o call.name \o <<">", "nl">>
    \o FlattenSeq([i \in DOMAIN call.args |-> Parameter(call.args[i])])
    \o <<"</function>", "nl">>

Call(call) == <<"<tool_call>">> \o CallBody(call) \o <<"</tool_call>">>

Calls(content, calls) ==
  LET gap(i) == IF i > 1 THEN <<"nl">> ELSE IF content = <<>> THEN <<>> ELSE nlnl
  IN FlattenSeq([i \in DOMAIN calls |-> gap(i) \o Call(calls[i])])

Assistant(msgs, i, o) ==
  LET content == Trim(msgs[i].content)
      think == <<"<think>", "nl">> \o Trim(msgs[i].reasoning) \o <<"nl", "</think>">> \o nlnl
  IN Turn("assistant", (IF KeepThink(msgs, i, o) THEN think ELSE <<>>)
                         \o content \o Calls(content, msgs[i].calls))

(* Tool results in a row share a user turn. *)
Tool(msgs, i) ==
  LET first == i > 1 /\ msgs[i - 1].role # "tool"
      final == i = Len(msgs) \/ msgs[i + 1].role # "tool"
  IN (IF first THEN <<"<|im_start|>", "user">> ELSE <<>>)
       \o <<"nl", "<tool_response>", "nl">> \o Trim(msgs[i].content)
       \o <<"nl", "</tool_response>">>
       \o (IF final THEN <<"<|im_end|>", "nl">> ELSE <<>>)

Message(msgs, i, o) ==
  CASE msgs[i].role = "system" -> <<>>
    [] msgs[i].role = "user" -> Turn("user", Trim(msgs[i].content))
    [] msgs[i].role = "assistant" -> Assistant(msgs, i, o)
    [] msgs[i].role = "tool" -> Tool(msgs, i)

GenerationPrompt(o) ==
  <<"<|im_start|>", "assistant", "nl", "<think>", "nl">>
    \o (IF o.thinking = "off" THEN <<"nl", "</think>">> \o nlnl ELSE <<>>)

(* render_chat, for messages it does not raise an error on; the server     *)
(* always asks for the generation prompt.                                  *)
RenderChat(msgs, o) ==
  Preamble(msgs, o)
    \o FlattenSeq([i \in DOMAIN msgs |-> Message(msgs, i, o)])
    \o GenerationPrompt(o)

-----------------------------------------------------------------------------
(* The other way round: what the server makes of a call the model wrote    *)
(* (src/server/reasoning_parser.cpp, parse_tool_call), which is what the   *)
(* client sends back as part of the next conversation. A value that is     *)
(* JSON comes back in the spelling of json_dumps_python and counts as text *)
(* here.                                                                   *)
FirstAt(s, w, from) ==
  LET at == {i \in from .. Len(s) - Len(w) + 1 : SubSeq(s, i, i + Len(w) - 1) = w}
  IN IF at = {} THEN 0 ELSE Min(at)

\* An object keeps the place of a key that is assigned again.
Assigned(args, key, value) ==
  LET old == {i \in DOMAIN args : args[i].key = key}
  IN IF old = {}
     THEN Append(args, [key |-> key, value |-> value])
     ELSE [args EXCEPT ![Min(old)].value = value]

ValueStartSkippingAll(body, q) ==                            \* a fault
  LET text == {i \in q + 1 .. Len(body) : body[i] # "nl"} IN Min(text)

\* One line feed behind the key's ">" is the template's.
ValueStart(body, q) == IF q < Len(body) /\ body[q + 1] = "nl" THEN q + 2 ELSE q + 1

RECURSIVE ParsedArgs(_, _, _)
ParsedArgs(body, p, args) ==
  LET a == FirstAt(body, <<"<parameter=">>, p)
      q == FirstAt(body, <<">">>, a + 1)
      from == ValueStart(body, q)
      end == FirstAt(body, <<"nl", "</parameter>">>, from)
  IN IF a = 0 \/ q = 0 \/ end = 0
     THEN args
     ELSE ParsedArgs(body, end + 2,
                     Assigned(args, SubSeq(body, a + 1, q - 1), SubSeq(body, from, end - 1)))

\* The calls of a body: one, or none without a function's name.
ParsedCall(body) ==
  LET a == FirstAt(body, <<"<function=">>, 1)
      b == FirstAt(body, <<">">>, a + 1)
  IN IF a = 0 \/ b = 0
     THEN <<>>
     ELSE <<[name |-> SubSeq(body, a + 1, b - 1), args |-> ParsedArgs(body, b, <<>>)]>>
===============================================================================
