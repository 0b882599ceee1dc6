------------------------------- MODULE Tokenizer -------------------------------
(***************************************************************************)
(* Text to tokens and back (src/tokenizer/bpe.cpp): the split on added     *)
(* tokens, the pretokenizer, which is a regular expression matched by      *)
(* hand, and byte pair encoding. The byte alphabet renames the bytes of a  *)
(* word on the way in and names them back on the way out; here a byte has  *)
(* one name throughout.                                                    *)
(*                                                                         *)
(* A character is known by its class. A token is the string it stands for: *)
(* a sequence of characters. Normalisation (NFC) is left out: texts are    *)
(* normalised ones, and a character is one byte.                           *)
(***************************************************************************)
EXTENDS Naturals, Sequences, SequencesExt, FiniteSets, FiniteSetsExt

Drop(s, n) == SubSeq(s, n + 1, Len(s))

-----------------------------------------------------------------------------
(* The classes of match_at. "'" is the apostrophe and "s" a letter that    *)
(* follows it in a contraction of two characters, "l" one that does twice  *)
(* in one of three.                                                        *)
Letter == {"a", "s", "l"}
Mark == {"m"}
Number == {"1"}
CrLf == {"n"}
Space == {" ", "n"}             \* \s; " " is also the space of alternative 4
Char == Letter \cup Mark \cup Number \cup Space \cup {"'", "!"}
Other == Char \ (Space \cup Letter \cup Mark \cup Number)

(* Characters from the start of c that are in S.                           *)
Run(c, S) == Max({k \in 0 .. Len(c) : \A i \in 1 .. k : c[i] \in S})

Contraction(c) ==
  IF Len(c) >= 2 /\ c[1] = "'" /\ c[2] = "s" THEN 2
  ELSE IF Len(c) >= 3 /\ c[1] = "'" /\ c[2] = "l" /\ c[3] = "l" THEN 3
  ELSE 0

WordMarksOnlyAfter(c) ==                                      \* a fault
  LET after == Run(Drop(c, 1), Letter \cup Mark)
  IN IF c[1] \notin CrLf \cup Letter \cup Number /\ after > 0 THEN 1 + after
     ELSE Run(c, Letter)
Word(c) ==
  LET after == Run(Drop(c, 1), Letter \cup Mark)
  IN IF c[1] \notin CrLf \cup Letter \cup Number /\ after > 0 THEN 1 + after
     ELSE Run(c, Letter \cup Mark)

Digit(c) == IF c[1] \in Number THEN 1 ELSE 0

Symbols(c) ==
  LET j == IF c[1] = " " THEN 1 ELSE 0
      k == Run(Drop(c, j), Other)
  IN IF k = 0 THEN 0 ELSE j + k + Run(Drop(c, j + k), CrLf)

NewLines(c) == Max({0} \cup {k \in 1 .. Run(c, Space) : c[k] \in CrLf})

BlanksBefore(c) ==
  LET w == Run(c, Space)
  IN IF w = Len(c) \/ w <= 1 THEN w ELSE w - 1

(* match_at: characters of the match at the start of c, by the first       *)
(* alternative that has one. pretokenize takes one character if none has.  *)
MatchAt(c) ==
  LET tries == <<Contraction(c), Word(c), Digit(c), Symbols(c), NewLines(c), BlanksBefore(c)>>
      hits == {i \in DOMAIN tries : tries[i] > 0}
  IN IF hits = {} THEN 0 ELSE tries[Min(hits)]

RECURSIVE Pretokenize(_)
Pretokenize(c) ==
  IF c = <<>> THEN <<>>
  ELSE LET n == Max({1, MatchAt(c)})
       IN <<SubSeq(c, 1, n)>> \o Pretokenize(Drop(c, n))

-----------------------------------------------------------------------------
(* bpe_word: merge the pair of lowest rank, the first of them in the word, *)
(* until no pair of the word has a rank. `merges` is the list of pairs.    *)
Ranks(merges, pair) == {r \in DOMAIN merges : merges[r] = pair}
Mergeable(merges, sym) ==
  {i \in 1 .. Len(sym) - 1 : Ranks(merges, <<sym[i], sym[i + 1]>>) # {}}
RankAt(merges, sym, i) == Min(Ranks(merges, <<sym[i], sym[i + 1]>>))

BestLast(merges, sym) ==                                      \* a fault
  Max({i \in Mergeable(merges, sym) : \A j \in Mergeable(merges, sym) :
         RankAt(merges, sym, i) <= RankAt(merges, sym, j)})
Best(merges, sym) ==
  Min({i \in Mergeable(merges, sym) : \A j \in Mergeable(merges, sym) :
         RankAt(merges, sym, i) <= RankAt(merges, sym, j)})

RECURSIVE BpeWord(_, _)
BpeWord(merges, sym) ==
  IF Mergeable(merges, sym) = {} THEN sym
  ELSE LET i == Best(merges, sym)
       IN BpeWord(merges, SubSeq(sym, 1, i - 1) \o <<sym[i] \o sym[i + 1]>> \o Drop(sym, i + 1))

(* The symbols a word starts from: one for each byte.                      *)
Bytes(c) == [i \in 1 .. Len(c) |-> <<c[i]>>]

-----------------------------------------------------------------------------
(* encode: the first occurrence of any added token, the longest if several *)
(* start there; what is in front of it is encoded as a segment.            *)
Occurs(text, a) ==
  {i \in 1 .. Len(text) + 1 - Len(a) : SubSeq(text, i, i + Len(a) - 1) = a}

Hit(text, added) ==
  LET at == Min(UNION {Occurs(text, a) : a \in added})
  IN [at |-> at, token |-> CHOOSE a \in added : /\ at \in Occurs(text, a)
        /\ \A b \in added : at \in Occurs(text, b) => Len(b) <= Len(a)]

Segment(merges, text) ==
  FlattenSeq([i \in 1 .. Len(Pretokenize(text)) |->
                BpeWord(merges, Bytes(Pretokenize(text)[i]))])

Rest(text, hit) == Drop(text, hit.at - 1 + Len(hit.token))

RECURSIVE Encode(_, _, _)
Encode(merges, added, text) ==
  IF UNION {Occurs(text, a) : a \in added} = {} THEN Segment(merges, text)
  ELSE LET hit == Hit(text, added)
       IN Segment(merges, SubSeq(text, 1, hit.at - 1)) \o <<hit.token>>
            \o Encode(merges, added, Rest(text, hit))

Decode(ids) == FlattenSeq(ids)

===============================================================================
