----------------------------- MODULE MCAnswerText -----------------------------
(***************************************************************************)
(* Tags of two and three bytes that share their first, a character of      *)
(* three bytes, a stop string of two, and tokens that cut all of them.     *)
(***************************************************************************)
EXTENDS AnswerText

MCByte == {"<", "/", "k", "c", "x", "h", "t", "?"}
MCCharLen == [b \in MCByte |-> IF b = "h" THEN 3 ELSE IF b = "t" THEN 0 ELSE 1]
MCPieces == {<<"<">>, <<"/">>, <<"k">>, <<"c">>, <<"x">>, <<"h">>, <<"t">>,
             <<"x", "<">>, <<"k", "h">>, <<"t", "t", "<">>, <<"<", "/", "c">>}
MCThinkOpen == <<"<", "k">>
MCThinkClose == <<"<", "/", "k">>
MCToolOpen == <<"<", "c">>
MCToolClose == <<"<", "/", "c">>
MCCallMark == <<"x">>
MCStops == << <<"x", "k">> >>
===============================================================================
