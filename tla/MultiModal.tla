------------------------------ MODULE MultiModal ------------------------------
(***************************************************************************)
(* Images in a prompt (src/vision/image.cpp, src/vision/mm.cpp and the     *)
(* parts of generate() that use them): the size an image is brought to,    *)
(* the order in which its patches are laid out, the tokens it takes in the *)
(* prompt, their positions, and the rows of a prefill chunk that its       *)
(* embeddings overwrite. A span counts the tokens in front of it, from 0,  *)
(* as the code does; sequences count from 1.                               *)
(***************************************************************************)
EXTENDS Questions, Loops, Sequences, FiniteSets, FiniteSetsExt

CONSTANTS
  Factor,                   \* pixels that the sides are multiples of: 32
  MinPixels, MaxPixels,     \* bounds on the area
  Aspect,                   \* largest ratio of the sides: 200
  MaxSide,                  \* bound on the sides of an image that is resized
  MaxGrid,                  \* bound on grids of patches, and on the patches merged
  Vocabulary, Pad,          \* tokens, and the placeholder of an image
  Images,                   \* images of a prompt, in tokens
  MaxPrompt,                \* bound on a prompt before its images are expanded
  Chunks                    \* lengths of a prefill chunk

(* One frame to an image: its grid is {1, gh, gw} (image.cpp).             *)
ASSUME MultiModalAssumption ==
  /\ Factor \in Nat /\ Factor >= 2 /\ Aspect \in Nat \ {0} /\ MinPixels \in Nat /\ MaxPixels \in Nat
  /\ Aspect <= MinPixels /\ 4 * MinPixels <= MaxPixels /\ Aspect * Factor * Factor <= MaxPixels
  /\ MaxSide \in Nat /\ MaxGrid \in Nat /\ MaxPrompt \in Nat
  /\ Images \subseteq [t : {1}, h : Nat \ {0}, w : Nat \ {0}]
  /\ Chunks \subseteq Nat \ {0}

-----------------------------------------------------------------------------
(* smart_resize. A side is rounded to a multiple of Factor; if the area is *)
(* out of bounds both sides are scaled by the same real number, down to    *)
(* the largest multiple below or up to the smallest above. The conditions  *)
(* k * Factor <= side / beta and >= side * beta are written without roots. *)
RoundTo(side) == ((2 * side + Factor) \div (2 * Factor)) * Factor

\* Squared, k multiples of Factor are that part of the area.
Part(k, other) == (k * Factor) * (k * Factor) * other

ShrinkCeil(side, other) ==                                    \* a fault
  Factor * Min({k \in 1 .. side + 1 : Part(k, other) >= MaxPixels * side})
Shrink(side, other) == Factor * Max({k \in 0 .. side : Part(k, other) <= MaxPixels * side})
Grow(side, other) == Factor * Min({k \in 0 .. MinPixels : Part(k, other) >= MinPixels * side})

SmartResize(h, w) ==
  LET area == RoundTo(h) * RoundTo(w)
      side(s, other) == Max({Factor,
        IF area > MaxPixels THEN Shrink(s, other)
        ELSE IF area < MinPixels THEN Grow(s, other) ELSE RoundTo(s)})
  IN [h |-> side(h, w), w |-> side(w, h)]

(* preprocess_image: where patch p of a grid gw patches wide lies, with    *)
(* m by m patches to a token.                                              *)
PatchRowMajor(p, m, gw) == [row |-> p \div gw, col |-> p % gw]   \* a fault
PatchAt(p, m, gw) ==
  LET blocksW == gw \div m
  IN [row |-> (p \div (m * m * blocksW)) * m + ((p \div m) % m),
      col |-> ((p \div (m * m)) % blocksW) * m + (p % m)]

-----------------------------------------------------------------------------
(* expand_image_pads: token by token, an image in place of its placeholder.*)
Mismatch(ids, images) == Cardinality({i \in 1 .. Len(ids) : ids[i] = Pad}) # Len(images)

Span(image, start) ==
  [start |-> start, n |-> image.t * image.h * image.w, h |-> image.h, w |-> image.w]

Placed(b, token, images) ==
  IF token # Pad THEN [b EXCEPT !.out = Append(@, token)]
  ELSE LET s == Span(images[Len(b.spans) + 1], Len(b.out))
       IN [out |-> b.out \o [j \in 1 .. s.n |-> Pad], spans |-> Append(b.spans, s)]

Expand(ids, images) ==
  LET upTo[i \in 0 .. Len(ids)] ==
        IF i = 0 THEN [out |-> <<>>, spans |-> <<>>] ELSE Placed(upTo[i - 1], ids[i], images)
  IN upTo[Len(ids)]

(* mrope_positions: text takes the next position on every axis, an image a *)
(* box, and what follows goes on behind the larger side of the box.        *)
ExtentHeight(s) == s.h                                        \* a fault
Extent(s) == Max({s.h, s.w})

Box(s, cur, m) ==
  [j \in 1 .. m |-> [t |-> cur + ((j - 1) \div (s.h * s.w)),
                     h |-> cur + (((j - 1) \div s.w) % s.h),
                     w |-> cur + ((j - 1) % s.w)]]

Turn(b, n, spans) ==
  LET i == Len(b.at)
  IN IF i >= n THEN b
     ELSE IF b.si < Len(spans) /\ spans[b.si + 1].start = i
     THEN LET s == spans[b.si + 1]
          IN [at |-> b.at \o Box(s, b.cur, Min({s.n, n - i})),
              cur |-> b.cur + Extent(s), si |-> b.si + 1]
     ELSE [b EXCEPT !.at = Append(@, [t |-> b.cur, h |-> b.cur, w |-> b.cur]), !.cur = @ + 1]

mrope_positions(n, spans) ==
  LET after[k \in 0 .. n] ==
        IF k = 0 THEN [at |-> <<>>, cur |-> 0, si |-> 0] ELSE Turn(after[k - 1], n, spans)
  IN after[n].at

(* generate(): decoding goes on at `position + mrope_delta`.               *)
Largest(p) == Max({p.t, p.h, p.w})
Delta(at) ==
  IF at = <<>> THEN 0
  ELSE Max({0} \cup {Largest(at[i]) : i \in DOMAIN at}) + 1 - Len(at)

-----------------------------------------------------------------------------
(* generate(): the copies of a chunk of n tokens from pos on. Row `dst` of *)
(* the chunk gets embedding `src`; embeddings of all images lie end to end.*)
OffsetOf(spans, k) == Sum([j \in DOMAIN spans |-> spans[j].n], k - 1)

SpliceFromSpanStart(spans, k, pos, n) ==                      \* a fault
  LET a == Max({spans[k].start, pos})
      b == Min({spans[k].start + spans[k].n, pos + n})
  IN {[dst |-> a - pos + r, src |-> OffsetOf(spans, k) + r] : r \in 0 .. b - a - 1}
Splice(spans, k, pos, n) ==
  LET a == Max({spans[k].start, pos})
      b == Min({spans[k].start + spans[k].n, pos + n})
  IN {[dst |-> a - pos + r, src |-> OffsetOf(spans, k) + (a - spans[k].start) + r] :
        r \in 0 .. b - a - 1}

Splices(spans, pos, n) == UNION {Splice(spans, k, pos, n) : k \in DOMAIN spans}

(* The chunks from `from` on, and the rows of all of them that are copied. *)
Starts(from, chunk, n) == {pos \in from .. n - 1 : (pos - from) % chunk = 0}
Copies(spans, from, chunk, n) ==
  UNION {{<<pos + s.dst, s.src>> : s \in Splices(spans, pos, Min({chunk, n - pos}))}
         : pos \in Starts(from, chunk, n)}

-----------------------------------------------------------------------------
AskExpand ==
  \E ids \in Texts(Vocabulary, MaxPrompt), images \in Texts(Images, MaxPrompt) :
    /\ ~Mismatch(ids, images)                       \* or the request is refused
    /\ asked' = [op |-> "expand", ids |-> ids, images |-> images]

AskResize ==
  \E h, w \in 1 .. MaxSide :
    /\ h <= Aspect * w /\ w <= Aspect * h           \* or the request is refused
    /\ asked' = [op |-> "resize", h |-> h, w |-> w]

AskPatches ==
  \E m, h, w \in 1 .. MaxGrid : asked' = [op |-> "patches", m |-> m, h |-> h, w |-> w]

AskImages == AskExpand \/ AskResize \/ AskPatches

MultiModalSpec == Init /\ [][Ask /\ AskImages]_asked

(* Every token of a prompt has a position of its own, text comes behind    *)
(* everything in front of it, and the first decoded token takes a position *)
(* that is free on all axes and leaves no room.                            *)
PositionsDistinct ==
  Is("expand") =>
    LET e == Expand(asked.ids, asked.images)
        n == Len(e.out)
        at == mrope_positions(n, e.spans)
        next == n + Delta(at)
    IN /\ Len(at) = n
       /\ \A i, j \in 1 .. n : i < j =>
            at[i] # at[j] /\ (e.out[j] # Pad => Largest(at[j]) > Largest(at[i]))
       /\ \A i \in 1 .. n : Largest(at[i]) < next
       /\ n > 0 => \E i \in 1 .. n : Largest(at[i]) = next - 1

(* However a prompt is cut into chunks, and wherever a cached prefix lets  *)
(* it start, each image token of it gets its own embedding, once.          *)
EmbeddingsInPlace ==
  Is("expand") =>
    LET e == Expand(asked.ids, asked.images)
        n == Len(e.out)
        rank(i) == Cardinality({j \in 1 .. i : e.out[j] = Pad})
    IN \A from \in 0 .. n - 1, chunk \in Chunks :
         Copies(e.spans, from, chunk, n)
           = {<<i, rank(i)>> : i \in {i \in from .. n - 1 : e.out[i + 1] = Pad}}

(* A resized image has sides that are positive multiples of the factor and *)
(* an area within its bounds, and its patches are laid out so that the     *)
(* m * m of them that are merged into token j are the block of which the   *)
(* position of j speaks.                                                   *)
ImagesFitTokens ==
  /\ Is("resize") =>
       LET r == SmartResize(asked.h, asked.w)
       IN /\ r.h > 0 /\ r.w > 0 /\ r.h % Factor = 0 /\ r.w % Factor = 0
          /\ MinPixels <= r.h * r.w /\ r.h * r.w <= MaxPixels
  /\ Is("patches") =>
       LET m == asked.m
           gw == asked.w * m
           n == asked.h * m * gw
           at(p) == PatchAt(p, m, gw)
           box == Box(Span([t |-> 1, h |-> asked.h, w |-> asked.w], 0), 0, asked.h * asked.w)
           token(p) == box[1 + (p \div (m * m))]
       IN /\ \A p, q \in 0 .. n - 1 : at(p) = at(q) => p = q
          /\ \A p \in 0 .. n - 1 : at(p).row \div m = token(p).h /\ at(p).col \div m = token(p).w
===============================================================================
