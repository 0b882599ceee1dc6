----------------------------- MODULE PureFunctions -----------------------------
(***************************************************************************)
(* The functions of the server that keep no state, asked one question in   *)
(* each behaviour: the tokenizer and the chat template here, the sampler   *)
(* in Sampler, what becomes of the images of a prompt in MultiModal, and   *)
(* the kernels in KernelFunctions. Each property compares an answer with a *)
(* definition of it that is put differently, or with the answer to another *)
(* question.                                                               *)
(***************************************************************************)
EXTENDS KernelFunctions, Sampler, MultiModal

CONSTANTS
  Merges, Added,  \* merge lists and sets of added tokens
  MaxText,        \* bound on the length of texts
  TextAlphabet,   \* characters of texts that are encoded
  Messages,       \* messages of a conversation
  Answers,        \* assistant messages as the template itself would write them
  Options         \* options of a chat request

T == INSTANCE Tokenizer
C == INSTANCE ChatTemplate

AskPretokenize ==
  \E c \in Texts(T!Char, MaxText) \ {<<>>} : asked' = [op |-> "match", text |-> c]

AskEncode ==
  \E merges \in Merges, c \in Texts(TextAlphabet, MaxText + 1) :
    asked' = [op |-> "encode", merges |-> merges, text |-> c]

(* A conversation, its answer, and what the next request appends to both.  *)
AskTurn ==
  \E msgs \in UNION {[1 .. k -> Messages] : k \in 1 .. 2}, answer \in Answers,
     more \in UNION {[1 .. k -> Messages] : k \in 1 .. 2}, o \in Options :
    /\ ~C!Raises(msgs, o)
    /\ ~C!Raises(msgs \o <<answer>> \o more, o)
    /\ o.thinking = "off" => answer.reasoning = <<>>
    /\ asked' = [op |-> "turn", msgs |-> msgs, answer |-> answer, more |-> more, o |-> o]

Next ==
  Ask /\ (AskSample \/ AskPretokenize \/ AskEncode \/ AskImages \/ AskTurn \/ AskKernel)

Spec == Init /\ [][Next]_asked

-----------------------------------------------------------------------------
(* The pretokenizer's pattern as a backtracking engine reads it: an item   *)
(* has a list of ends, in the order in which they are tried.               *)
Single(set) == [kind |-> "one", of |-> set]
Opt(set) == [kind |-> "opt", of |-> set]
Some(set) == [kind |-> "some", of |-> set]
Many(set) == [kind |-> "many", of |-> set]
NotBefore(set) == [kind |-> "not", of |-> set]

Ends(item, c, i) ==
  LET n == Max({k \in 0 .. Len(c) + 1 - i : \A j \in i .. i + k - 1 : c[j] \in item.of})
  IN CASE item.kind = "one" -> IF n > 0 THEN <<i + 1>> ELSE <<>>
       [] item.kind = "opt" -> IF n > 0 THEN <<i + 1, i>> ELSE <<i>>
       [] item.kind = "some" -> [k \in 1 .. n |-> i + n + 1 - k]
       [] item.kind = "many" -> [k \in 1 .. n + 1 |-> i + n + 1 - k]
       [] item.kind = "not" -> IF n = 0 THEN <<i>> ELSE <<>>

RECURSIVE EndsOfAll(_, _, _)
EndsOfAll(items, c, i) ==
  IF items = <<>> THEN <<i>>
  ELSE LET ends == Ends(Head(items), c, i)
       IN FlattenSeq([k \in DOMAIN ends |-> EndsOfAll(Tail(items), c, ends[k])])

Pattern == <<
  <<Single({"'"}), Single({"s"})>>,
  <<Single({"'"}), Single({"l"}), Single({"l"})>>,
  <<Opt(T!Char \ (T!CrLf \cup T!Letter \cup T!Number)), Some(T!Letter \cup T!Mark)>>,
  <<Single(T!Number)>>,
  <<Opt({" "}), Some(T!Other), Many(T!CrLf)>>,
  <<Many(T!Space), Some(T!CrLf)>>,
  <<Some(T!Space), NotBefore(T!Char \ T!Space)>>,
  <<Some(T!Space)>> >>

(* match_at is the leftmost-first match of the pattern that bpe.h:9-16     *)
(* gives, backtracking included, and there always is one.                  *)
MatchesPattern ==
  Is("match") =>
    LET all == FlattenSeq([a \in DOMAIN Pattern |-> EndsOfAll(Pattern[a], asked.text, 1)])
    IN all # <<>> /\ T!MatchAt(asked.text) = Head(all) - 1

-----------------------------------------------------------------------------
(* Byte pair encoding as it was trained: the merges one after the other,   *)
(* each wherever it applies, from left to right.                           *)
RECURSIVE MergeAll(_, _)
MergeAll(pair, sym) ==
  IF Len(sym) < 2 THEN sym
  ELSE IF <<sym[1], sym[2]>> = pair
       THEN <<pair[1] \o pair[2]>> \o MergeAll(pair, T!Drop(sym, 2))
       ELSE <<sym[1]>> \o MergeAll(pair, Tail(sym))

ByRank(merges, word) ==
  FoldLeft(LAMBDA acc, pair : MergeAll(pair, acc), T!Bytes(word), merges)

Trained(merges, text) ==
  LET words == T!Pretokenize(text)
  IN FlattenSeq([i \in DOMAIN words |-> ByRank(merges, words[i])])

(* Read from left to right, one character at a time: an added token that   *)
(* starts here, the longest there is, ends the segment collected so far.   *)
RECURSIVE ReadOn(_, _, _)
ReadOn(merges, segment, text) ==
  LET here == {t \in Added : IsPrefix(t, text)}
  IN IF text = <<>> THEN Trained(merges, segment)
     ELSE IF here = {} THEN ReadOn(merges, Append(segment, Head(text)), Tail(text))
     ELSE LET t == CHOOSE t \in here : \A u \in here : Len(u) <= Len(t)
          IN Trained(merges, segment) \o <<t>> \o ReadOn(merges, <<>>, T!Drop(text, Len(t)))

(* encode() gives the tokens the vocabulary was trained to give, and       *)
(* decoded they are the text again: no character is lost or read twice     *)
(* where added tokens, segments and words meet.                            *)
EncodesAsTrained ==
  Is("encode") =>
    LET ids == T!Encode(asked.merges, Added, asked.text)
    IN ids = ReadOn(asked.merges, <<>>, asked.text) /\ T!Decode(ids) = asked.text

-----------------------------------------------------------------------------
(* What the model writes after the generation prompt to give this answer.  *)
Written(answer, o) ==
  (IF o.thinking = "off" THEN <<>> ELSE answer.reasoning \o <<"nl", "</think>">> \o C!nlnl)
    \o answer.content \o C!Calls(answer.content, answer.calls) \o <<"<|im_end|>">>

(* The answer as a client has it, with the calls the server read out of    *)
(* what the model wrote.                                                   *)
SentBack(answer) ==
  [answer EXCEPT !.calls =
     FlattenSeq([i \in DOMAIN answer.calls |-> C!ParsedCall(C!CallBody(answer.calls[i]))])]

(* The next request of a conversation starts with all that the last one    *)
(* left in the caches, its prompt and its answer, whose calls have been    *)
(* parsed and rendered again. Only a new query under preserve_thinking =   *)
(* false may change what is in front of it. And every turn that is opened  *)
(* is closed before the next one.                                          *)
NextTurnExtends ==
  Is("turn") =>
    LET whole == asked.msgs \o <<SentBack(asked.answer)>> \o asked.more
        now == C!RenderChat(asked.msgs, asked.o) \o Written(asked.answer, asked.o)
        next == C!RenderChat(whole, asked.o)
        marks == SelectSeq(next, LAMBDA x : x \in {"<|im_start|>", "<|im_end|>"})
    IN /\ \/ asked.o.preserve # "off"
          \/ C!LastQuery(whole) = C!LastQuery(asked.msgs)
          => IsPrefix(now, next)
       /\ asked.msgs[1].role # "tool" =>
            \A i \in DOMAIN marks : marks[i] = IF i % 2 = 1 THEN "<|im_start|>" ELSE "<|im_end|>"
===============================================================================
