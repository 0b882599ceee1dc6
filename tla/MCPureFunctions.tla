---------------------------- MODULE MCPureFunctions ----------------------------
EXTENDS PureFunctions

\* The largest weight is One = 8, as k_expsum leaves it.
MCWeights == {p \in [1 .. 4 -> {0, 1, 2, 3, 7, 8}] : \E i \in 1 .. 4 : p[i] = 8}

\* Merge lists in the order of training: every part is a byte or the product
\* of an earlier merge, and no product has two derivations.
a == <<"a">>
s == <<"s">>
l == <<"l">>
MCMerges == {
  << <<a, a>>, <<a \o a, a>> >>,
  << <<a, s>>, <<a, a>>, <<a \o s, a \o a>> >>,
  << <<s, a>>, <<a, s \o a>>, <<s \o a, s>> >>,
  << <<s, s>>, <<s, a>>, <<s \o s, s \o a>>, <<a, a>> >> }

MCAdded == {<<"l">>, <<"l", "a">>, <<"a", "l", "s">>}
MCTextAlphabet == {"a", "s", "l", " "}

MCVocabulary == {"pad", "x"}
MCImages == {[t |-> 1, h |-> h, w |-> w] : h \in {1, 2}, w \in {1, 3}}

Say(role, content) == [role |-> role, content |-> content, reasoning |-> <<>>, calls |-> <<>>]
Reply(reasoning, content, calls) ==
  [role |-> "assistant", content |-> content, reasoning |-> reasoning, calls |-> calls]
Search == [name |-> <<"search">>, args |-> <<[key |-> <<"for">>, value |-> <<"x", "nl">>]>>]
\* An empty value, and one that starts like the template's own text.
Note == [name |-> <<"note">>,
         args |-> <<[key |-> <<"on">>, value |-> <<>>],
                    [key |-> <<"text">>, value |-> <<"nl", "<parameter=", ">", "</parameter>">>]>>]

MCMessages == {
  Say("system", <<"rules">>), Say("user", <<"nl", "q">>), Say("tool", <<"found">>),
  Say("user", <<"<tool_response>", "found", "</tool_response>", "nl">>),
  Reply(<<"hm">>, <<"nl">>, <<Search>>) }

MCAnswers == {
  Reply(<<>>, <<"a">>, <<>>), Reply(<<"so">>, <<"a">>, <<Search, Note>>),
  Reply(<<>>, <<>>, <<Search>>) }

MCOptions ==
  [thinking : {"unset", "off"}, preserve : {"unset", "off"}, effort : {"xhigh", "medium"},
   tools : BOOLEAN]

\* A product of n rows; what a kind does not use is 1.
Product(kind, n, parts, types, in, group, splits, wbufRows) ==
  [kind |-> kind, T |-> n, parts |-> parts, types |-> types, in |-> in, group |-> group,
   splits |-> splits, wbufRows |-> wbufRows]
Int4(kind, n, parts, in, splits) == Product(kind, n, parts, <<>>, in, 32, splits, 32)
Blocks(n, parts, types, in) == Product("gguf", n, parts, types, in, 1, 1, 1)

\* Each path, with one launch and several, one part and several, with and
\* without splits, and with rows and columns that do not fill a tile.
MCProducts == {
  Int4("awq", 1, <<8, 24>>, 64, 2), Int4("awq", 2, <<16, 16>>, 64, 1),
  Int4("awq", 3, <<24, 24>>, 64, 2), Int4("awq", 17, <<16>>, 32, 1),
  Int4("awq", 19, <<16, 32>>, 32, 1),
  Int4("head4", 4, <<32>>, 32, 1), Int4("head8", 4, <<32>>, 64, 2),
  Blocks(1, <<2, 3>>, <<"IQ4_XS", "Q4_K">>, 512), Blocks(4, <<2, 1>>, <<"Q6_K", "IQ4_XS">>, 768),
  Blocks(5, <<1, 1, 2>>, <<"IQ4_XS", "Q5_K", "Q4_K">>, 256),
  Blocks(6, <<2, 1>>, <<"Q3_K", "IQ4_XS">>, 256),
  Product("ghead", 4, <<3>>, <<>>, 768, 1, 1, 1) }

\* Chunks whose queries and heads see the scores in different orders.
MCPrefills ==
  UNION {{[T |-> n, off |-> off,
           scores |-> [h \in 0 .. 1 |-> [q \in 0 .. n - 1 |-> [k \in 0 .. n + off - 1 |->
                        x[(k + q + 2 * h) % (n + off)]]]]]
          : x \in [0 .. n + off - 1 -> {0, 1, 3}]} : n \in 1 .. 3, off \in 0 .. 2}

\* A graph and none, each bucket, and passes of one row and several.
MCCalls ==
  {[kind |-> "decode", T |-> 1, at |-> at, graph |-> graph] :
     at \in {0, 8191, 40000}, graph \in BOOLEAN}
  \cup {[kind |-> "prefill", T |-> 3, at |-> 100, graph |-> FALSE],
        [kind |-> "verify", T |-> 1, at |-> 100, graph |-> FALSE]}

MCDeltas == {0, -3}
MCPlaces == {0, 2, 255, 256, 4095, 8191, 8192, 32767, 32768, 49999, 131072, 200000}

MCLayerTypes == <<"gdn", "gdn", "gdn", "attn", "gdn", "gdn", "gdn", "attn", "gdn">>

\* Nothing fits, some context, the whole of it.
MCFrees == {2 ^ 18, 2 ^ 20, 2 ^ 24}

MCMinExp == -12
MCFreq == [j \in 0 .. 3 |-> j + 1]
MCPoints == {0, 2} \X {0, 1, 3} \X {0, 2, 3}
MCVectors ==
  {[d \in 0 .. 63 |-> IF d = 1 THEN 1 ELSE 0], [d \in 0 .. 63 |-> (d % 5) - 2],
   [d \in 0 .. 63 |-> (3 * d) % 7]}
===============================================================================
