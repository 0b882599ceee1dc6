------------------------------ MODULE AnswerText ------------------------------
(***************************************************************************)
(* From the text of tokens to what a client reads: the middle of           *)
(* generate() (src/server/server.cpp), the splitter of reasoning, tool     *)
(* calls and content (src/server/reasoning_parser.cpp), the scan for stop  *)
(* strings, and the UTF-8 carries of a stream (src/server/utf8_stream.h).  *)
(*                                                                         *)
(* A token may end anywhere: in the middle of a tag, of a stop string or   *)
(* of a character. Each of the three layers therefore holds text back, and *)
(* releases it later, several tokens' worth at once. A byte is a model     *)
(* value; all that matters of it is which tags and characters it is in.    *)
(***************************************************************************)
EXTENDS Naturals, Sequences, SequencesExt, FiniteSetsExt

CONSTANTS
  Byte,
  CharLen,        \* bytes of the character a lead byte introduces; 0 in the middle of one
  Replacement,    \* U+FFFD, as one byte
  Pieces,         \* texts a token may have
  ThinkOpen, ThinkClose, ToolOpen, ToolClose,
  CallMark,       \* what the body of a tool call must contain to be one
  Stops,          \* the stop strings, in the order of the request
  MaxNew          \* max_new

Tags == {ThinkOpen, ThinkClose, ToolOpen, ToolClose}

ASSUME TextAssumption ==
  /\ CharLen \in [Byte -> 0 .. 4]
  /\ Replacement \in Byte /\ CharLen[Replacement] = 1
  /\ Pieces \subseteq Seq(Byte)
  /\ Tags \cup {CallMark} \subseteq Seq(Byte) \ {<<>>}
  /\ Stops \in Seq(Seq(Byte))
  /\ MaxNew \in Nat \ {0}

(* What the four tags have in common: each is ASCII and has "<" in front   *)
(* and nowhere else; neither opening one begins the other.                 *)
ASSUME TagAssumption ==
  /\ \A t \in Tags : \A i \in 1 .. Len(t) : CharLen[t[i]] = 1
  /\ \A s, t \in Tags : \A i \in 1 .. Len(t) : t[i] = s[1] <=> i = 1
  /\ ~ IsPrefix(ThinkOpen, ToolOpen) /\ ~ IsPrefix(ToolOpen, ThinkOpen)

VARIABLES
  all,            \* the text decoded so far, which generate() keeps too
  thinking,       \* does the prompt leave the model inside <think>?
  count,          \* tokens of the answer
  splitter,       \* [buf, think, tool, body, calls]
  content, reasoning,     \* of the result
  carry,          \* bytes each of the two streams holds back
  sent,           \* the deltas of the stream
  alive,          \* has every write worked?
  hitStop, finish,
  phase           \* "decode", "flush", "tail" or "done"

vars == <<all, thinking, count, splitter, content, reasoning, carry, sent, alive,
          hitStop, finish, phase>>

Text == Seq(Byte)
Delta == [content : Text, reasoning : Text]
NoDelta == [content |-> <<>>, reasoning |-> <<>>]

TypeOK ==
  /\ all \in Text
  /\ thinking \in BOOLEAN
  /\ count \in 0 .. MaxNew
  /\ splitter \in [buf : Text, think : BOOLEAN, tool : BOOLEAN, body : Text,
                   calls : Seq(Text)]
  /\ content \in Text /\ reasoning \in Text
  /\ carry \in Delta
  /\ sent \in Seq(Delta)
  /\ alive \in BOOLEAN /\ hitStop \in BOOLEAN
  /\ finish \in {"length", "stop", "abort"}
  /\ phase \in {"decode", "flush", "tail", "done"}

Init ==
  /\ all = <<>>
  /\ thinking \in BOOLEAN
  /\ count = 0
  /\ splitter = [buf |-> <<>>, think |-> thinking, tool |-> FALSE, body |-> <<>>,
                 calls |-> <<>>]
  /\ content = <<>> /\ reasoning = <<>>
  /\ carry = NoDelta
  /\ sent = <<>>
  /\ alive = TRUE
  /\ hitStop = FALSE
  /\ finish = "length"
  /\ phase = "decode"

-----------------------------------------------------------------------------
(* Where t occurs in s from position `from` on; its first occurrence, or   *)
(* 0; the text before position i, and the text from it on.                 *)
Occurrences(s, t, from) ==
  {i \in from .. Len(s) + 1 - Len(t) : SubSeq(s, i, i + Len(t) - 1) = t}
Find(s, t, from) ==
  IF Occurrences(s, t, from) = {} THEN 0 ELSE Min(Occurrences(s, t, from))
Before(s, i) == SubSeq(s, 1, i - 1)
From(s, i) == SubSeq(s, i, Len(s))

(* ReasoningSplitter::feed. A release is what one call appends to content  *)
(* and reasoning. One turn of its loop takes a tag that is complete in the *)
(* buffer, with the text before it ...                                     *)
Take(r) ==
  LET s == r.splitter
      close == Find(s.buf, IF s.tool THEN ToolClose ELSE ThinkClose, 1)
      think == Find(s.buf, ThinkOpen, 1)
      tool == Find(s.buf, ToolOpen, 1)
  IN CASE s.tool /\ close # 0 ->
            LET body == s.body \o Before(s.buf, close)
            IN [r EXCEPT !.splitter =
                 [s EXCEPT !.buf = From(s.buf, close + Len(ToolClose)),
                           !.tool = FALSE, !.body = <<>>,
                           !.calls = IF Find(body, CallMark, 1) # 0
                                     THEN Append(@, body) ELSE @]]
       [] ~s.tool /\ s.think /\ close # 0 ->
            [r EXCEPT
              !.reasoning = @ \o Before(s.buf, close),
              !.splitter = [s EXCEPT !.buf = From(s.buf, close + Len(ThinkClose)),
                                     !.think = FALSE]]
       [] ~s.tool /\ ~s.think /\ think # 0 /\ (tool = 0 \/ think < tool) ->
            [r EXCEPT
              !.content = @ \o Before(s.buf, think),
              !.splitter = [s EXCEPT !.buf = From(s.buf, think + Len(ThinkOpen)),
                                     !.think = TRUE]]
       [] ~s.tool /\ ~s.think /\ tool # 0 /\ (think = 0 \/ tool < think) ->
            [r EXCEPT
              !.content = @ \o Before(s.buf, tool),
              !.splitter = [s EXCEPT !.buf = From(s.buf, tool + Len(ToolOpen)),
                                     !.tool = TRUE]]
       [] OTHER -> r

(* ... until there is none, which is so after as many turns as the buffer  *)
(* has bytes.                                                              *)
Scan(r) ==
  LET after[n \in 0 .. Len(r.splitter.buf)] == IF n = 0 THEN r ELSE Take(after[n - 1])
  IN after[Len(r.splitter.buf)]

HoldShort == Max({Len(t) : t \in Tags}) - 2                   \* a fault
Hold == Max({Len(t) : t \in Tags}) - 1

(* Then release the rest but for what could be the start of a tag.         *)
Feed(piece, final) ==
  LET r == Scan([splitter |-> [splitter EXCEPT !.buf = @ \o piece],
                 content |-> <<>>, reasoning |-> <<>>])
      s == r.splitter
      keep == IF final THEN 0 ELSE Min({Hold, Len(s.buf)})
      out == Before(s.buf, Len(s.buf) - keep + 1)
      kept == [s EXCEPT !.buf = From(s.buf, Len(s.buf) - keep + 1)]
  IN CASE s.tool -> [r EXCEPT !.splitter = [kept EXCEPT !.body = @ \o out]]
       [] ~s.tool /\ s.think -> [r EXCEPT !.splitter = kept, !.reasoning = @ \o out]
       [] OTHER -> [r EXCEPT !.splitter = kept, !.content = @ \o out]

(* scan_stops: where the search for a stop string starts after an append   *)
(* to a content of length `before`, and the position at which the first    *)
(* stop string of the list that occurs cuts it.                            *)
SearchFromNew(before, stop) == before + 1                     \* a fault
SearchFrom(before, stop) ==
  IF before >= Len(stop) THEN before - Len(stop) + 2 ELSE 1

StopAt(text, before) ==
  LET cuts(k) == /\ Stops[k] # <<>>
                 /\ Find(text, Stops[k], SearchFrom(before, Stops[k])) # 0
      hits == {k \in 1 .. Len(Stops) : cuts(k)}
  IN IF hits = {} THEN 0
     ELSE Find(text, Stops[Min(hits)], SearchFrom(before, Stops[Min(hits)]))

-----------------------------------------------------------------------------
(* utf8_last_char_start, utf8_flush: what of a stream's text ends on a     *)
(* complete character. Four bytes of the middle of characters are garbage  *)
(* and pass.                                                               *)
LastCharStart(s) ==
  LET leads == {i \in 1 .. Len(s) : i > Len(s) - 4 /\ CharLen[s[i]] # 0}
  IN IF leads = {} THEN Len(s) + 1 ELSE Max(leads)

WholeByteEarly(s) ==                                          \* a fault
  LET start == LastCharStart(s)
  IN IF start > Len(s) \/ Len(s) - start + 2 >= CharLen[s[start]]
     THEN Len(s) ELSE start - 1
Whole(s) ==
  LET start == LastCharStart(s)
  IN IF start > Len(s) \/ Len(s) - start + 1 >= CharLen[s[start]]
     THEN Len(s) ELSE start - 1

(* on_delta of a stream. Content and reasoning have a carry each, which    *)
(* waits while the other one moves on. A failed write ends the request.    *)
CarryDropped(s) == <<>>                                       \* a fault
Carried(s) == From(s, Whole(s) + 1)

OnDelta(c, th) ==
  LET textC == carry.content \o c
      textTh == carry.reasoning \o th
      nowC == IF c = <<>> THEN <<>> ELSE Before(textC, Whole(textC) + 1)
      nowTh == IF th = <<>> THEN <<>> ELSE Before(textTh, Whole(textTh) + 1)
      delta == [content |-> nowC, reasoning |-> nowTh]
  IN /\ carry' = [content |-> IF c = <<>> THEN carry.content ELSE Carried(textC),
                  reasoning |-> IF th = <<>> THEN carry.reasoning ELSE Carried(textTh)]
     /\ IF delta = NoDelta THEN UNCHANGED <<sent, alive>>
        ELSE \/ alive /\ sent' = Append(sent, delta) /\ UNCHANGED alive
             \/ alive' = FALSE /\ UNCHANGED sent

Released(c, th) ==
  IF c # <<>> \/ th # <<>> THEN OnDelta(c, th) ELSE UNCHANGED <<carry, sent, alive>>

-----------------------------------------------------------------------------
LastOne(n) == n = MaxNew

(* One iteration of the loop, for a token that does not end the answer:    *)
(* split, stream, scan for stop strings, count -- in this order. The       *)
(* stream has had the text before the stop string is looked for.           *)
Token(piece) ==
  /\ phase = "decode"
  /\ all' = all \o piece
  /\ LET r == Feed(piece, FALSE)
         text == content \o r.content
         cut == StopAt(text, Len(content))
     IN /\ splitter' = r.splitter
        /\ reasoning' = reasoning \o r.reasoning
        /\ Released(r.content, r.reasoning)
        /\ \/ /\ ~alive' /\ (r.content # <<>> \/ r.reasoning # <<>>)
              /\ finish' = "abort" /\ phase' = "flush"
              /\ content' = text
              /\ UNCHANGED <<hitStop, count>>
           \/ /\ alive' /\ cut # 0
              /\ hitStop' = TRUE /\ finish' = "stop" /\ phase' = "flush"
              /\ content' = Before(text, cut)
              /\ UNCHANGED count
           \/ /\ alive' /\ cut = 0
              /\ content' = text
              /\ count' = count + 1
              /\ phase' = IF LastOne(count + 1) THEN "flush" ELSE "decode"
              /\ UNCHANGED <<hitStop, finish>>
  /\ UNCHANGED thinking

StopToken ==
  /\ phase = "decode"
  /\ finish' = "stop"
  /\ phase' = "flush"
  /\ UNCHANGED <<all, thinking, count, splitter, content, reasoning, carry, sent,
                 alive, hitStop>>

FlushScanUnused(text, before) == 0                            \* a fault
FlushScan(text, before) == StopAt(text, before)

(* Behind the loop: what the splitter still holds counts, unless a stop    *)
(* string was hit, and is searched for one. Text in front of a stop string *)
(* found here is part of the answer but is not streamed.                   *)
Flush ==
  /\ phase = "flush"
  /\ phase' = "tail"
  /\ LET r == Feed(<<>>, TRUE)
         text == content \o r.content
         cut == FlushScan(text, Len(content))
     IN /\ splitter' = r.splitter
        /\ IF hitStop
           THEN UNCHANGED <<content, reasoning, carry, sent, alive, hitStop, finish>>
           ELSE /\ reasoning' = reasoning \o r.reasoning
                /\ content' = IF cut # 0 THEN Before(text, cut) ELSE text
                /\ hitStop' = (cut # 0)
                /\ finish' = IF cut # 0 THEN "stop" ELSE finish
                /\ Released(IF cut # 0 THEN <<>> ELSE r.content, r.reasoning)
  /\ UNCHANGED <<all, thinking, count>>

(* utf8_flush_tail: a character that never completed.                      *)
FlushTail ==
  /\ phase = "tail"
  /\ phase' = "done"
  /\ LET mark(c) == IF c = <<>> THEN <<>> ELSE <<Replacement>>
     IN IF alive /\ carry # NoDelta
        THEN /\ \/ /\ sent' = Append(sent, [content |-> mark(carry.content),
                                            reasoning |-> mark(carry.reasoning)])
                   /\ UNCHANGED alive
                \/ alive' = FALSE /\ UNCHANGED sent
             /\ carry' = NoDelta
        ELSE UNCHANGED <<sent, alive, carry>>
  /\ UNCHANGED <<all, thinking, count, splitter, content, reasoning, hitStop, finish>>

Next ==
  \/ \E piece \in Pieces : Token(piece)
  \/ StopToken
  \/ Flush
  \/ FlushTail

Spec == Init /\ [][Next]_vars

-----------------------------------------------------------------------------
(* The reference: the whole text at once, read from left to right. A step  *)
(* reads a tag that counts where it stands, or else one byte.              *)
Read(x) ==
  LET past(tag) == From(x.rest, Len(tag) + 1)
  IN CASE x.rest = <<>> -> x
       [] x.mode = "text" /\ IsPrefix(ThinkOpen, x.rest) ->
            [x EXCEPT !.rest = past(ThinkOpen), !.mode = "think"]
       [] x.mode = "text" /\ IsPrefix(ToolOpen, x.rest) ->
            [x EXCEPT !.rest = past(ToolOpen), !.mode = "tool"]
       [] x.mode = "think" /\ IsPrefix(ThinkClose, x.rest) ->
            [x EXCEPT !.rest = past(ThinkClose), !.mode = "text"]
       [] x.mode = "tool" /\ IsPrefix(ToolClose, x.rest) ->
            [x EXCEPT !.rest = past(ToolClose), !.mode = "text", !.tool = <<>>,
              !.calls = IF Find(x.tool, CallMark, 1) # 0 THEN Append(@, x.tool) ELSE @]
       [] OTHER -> [x EXCEPT !.rest = Tail(@), ![x.mode] = Append(@, Head(x.rest))]

AllRead(x) ==
  LET after[n \in 0 .. Len(x.rest)] == IF n = 0 THEN x ELSE Read(after[n - 1])
  IN after[Len(x.rest)]

Unread(s) ==
  [rest |-> s, mode |-> IF thinking THEN "think" ELSE "text",
   text |-> <<>>, think |-> <<>>, tool |-> <<>>, calls |-> <<>>]
Parsed == AllRead(Unread(all))

(* The character that begins at l reaches i, and is whole as far as s goes.*)
InChar(s, i, l) ==
  /\ i < l + CharLen[s[l]]
  /\ \A j \in l + 1 .. Len(s) : j < l + CharLen[s[l]] => CharLen[s[j]] = 0

(* Every byte is in a character; only the last one may not have come to    *)
(* its end; it has.                                                        *)
WellBegun(s) == \A i \in 1 .. Len(s) : \E l \in 1 .. i : InChar(s, i, l)
WellFormed(s) ==
  WellBegun(s) /\ \A l \in 1 .. Len(s) : l + CharLen[s[l]] <= Len(s) + 1

Streamed(field) == FlattenSeq([i \in 1 .. Len(sent) |-> sent[i][field]])

-----------------------------------------------------------------------------
(* However the text was cut into tokens, the parts of a finished answer    *)
(* are those of the whole text read at once; a stop string only shortens   *)
(* them. Tool calls closed before the end are all reported.                *)
SplitsAsWhole ==
  phase = "done" =>
    /\ splitter.calls = Parsed.calls
    /\ IsPrefix(reasoning, Parsed.think)
    /\ ~hitStop => content = Parsed.text /\ reasoning = Parsed.think

(* With one stop string, the content of an answer is the whole content up  *)
(* to its first occurrence, also when the occurrence straddles tokens,     *)
(* releases, a removed reasoning block or the end. (A request whose client *)
(* is gone ends without a last scan.)                                      *)
StopsExactly ==
  phase = "done" /\ alive /\ Len(Stops) = 1 /\ Stops[1] # <<>> =>
    LET i == Find(Parsed.text, Stops[1], 1)
    IN content = IF i = 0 THEN Parsed.text ELSE Before(Parsed.text, i)

(* No delta of a stream starts or ends in the middle of a character, as    *)
(* long as the model writes well-formed text.                              *)
NeverHalf ==
  WellBegun(all) =>
    \A i \in 1 .. Len(sent) : WellFormed(sent[i].content) /\ WellFormed(sent[i].reasoning)

(* Nothing is lost or repeated on the way through the carries: the deltas  *)
(* of a stream that was neither stopped nor cut add up to the answer.      *)
StreamAddsUp ==
  phase = "done" /\ alive /\ ~hitStop /\ WellFormed(all) =>
    Streamed("content") = content /\ Streamed("reasoning") = reasoning
===============================================================================
