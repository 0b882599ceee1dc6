# Verification of qwen38-3090-cuda-server

TLA+ models, TLC runs and TLAPS proofs for the single-sequence CUDA inference
server in `src/`. They come in two halves. The models of the control logic say which
tokens the device state has absorbed, what the caches believe, what is handed to the
client and in which order; in them a forward pass is an oracle from token sequences
to next tokens. The models of the kernels say which weights, activations and
positions go into which number, and where each lies in memory. Out of scope is how
floating-point sums round.

## 1. The system

One process holds one model, one KV arena and one recurrent state. HTTP handler
threads build prompts and then hold the mutex `g_engine` for the whole of
`generate()`.

| component | state | operations | interacts with |
|---|---|---|---|
| request loop `generate()` (server/server.cpp) | pos, pending, emitted, spec_on, finish reason | lookup/restore or cold start, chunked prefill, snapshot, decode plainly or by rounds, route, emit, last snapshot | everything below |
| prefix cache (cache/prefix.cu) | slots (tokens, recurrent state, logits, stamp), kv_tokens, clock | lookup, restore, store, set_kv, reset | request loop; reads and writes the device state |
| model forward (model/model.cu) | recurrent state, conv window, KV arena, logits, taps | prefill, decode, verify a block, graph buckets | kernels |
| KV arena (model.h, kernels/attn.cu) | rows per attention layer, one layer after the other | written by every forward | prefix cache describes it |
| speculation (spec/spec.cu) | backup of the recurrent state, captured scan inputs | begin block, accept, rollback, push taps, suffix drafter | model forward, drafter |
| drafter (draft/dflash.cu) | context cache: cache_len, cache_pos0, rows | push, compact, block, select | fed with taps, asked once per round |
| HTTP handlers (server/server.cpp) | queue depth, metrics, g_engine | parse, admit, vision encode, run, stream | request loop, vision tower |
| reasoning splitter, stop strings, UTF-8 carry (server/) | buffers of held-back text | feed, flush | request loop emits through them |
| vision (vision/) | tower scratch, spans, mrope positions | preprocess, encode, expand pads, positions | handlers, prefill |
| tokenizer, chat template (tokenizer/) | tables only | encode, decode, render | handlers |
| loaders (loader/, model/load_gguf.cu, config/) | – | fuse and undo conversions, size context and scratch | model forward |
| quantised products (gguf/, kernels/gemv, gemm) | repacked weights, partial sums | repack, dequantise, multiply | model forward |
| attention (kernels/attn.cu) | scores and accumulators of a tile or split | rotate, store, softmax and sum | KV arena |
| clients (clients/) | the conversation on screen | send, show | HTTP handlers |

What is hard, and not the business of a unit test: the recurrent state cannot be
truncated, so every place that pairs a token list with it must be exactly right;
a verification writes rows for tokens that are then rejected; a request can stop
in the middle of a committed block; a snapshot lives on the host while the KV rows
it depends on live in an arena that other requests overwrite; the drafter's cache
aborts the process when its positions do not line up; handler threads share the
vision tower without the engine's mutex; a client may go away at any token. In the
kernels it is that one value has several readers or several ways to be computed,
picked by shapes a test has to hit: thirteen block formats each decoded twice, many
ways to a product, two to a softmax, graph and eager decode.
`PROJECT.json` lists these hazards line by line with the properties that
cover them.

What makes each part correct, in the words the properties use:

- *request loop*: a client cannot tell it from asking the model for one token at a
  time; at an empty deque the device stands at `pos` in every respect; every request
  ends.
- *prefix cache and KV arena*: a snapshot carries the state and logits of exactly the
  tokens it is filed under; `kv_tokens` describes rows that are really there; no
  prefix occupies two slots; a resend, the next turn and the branch point a
  conversation resumed from all hit. A number read from the arena is the one that was
  stored for that layer, position and head, as nearly as the format allows.
- *speculation*: after any round the recurrent state, the convolution window, the KV
  rows and the logits are those of plain decoding.
- *drafter*: its positions always line up, its rows and the block behind them fit,
  compaction keeps what the mask lets a block see.
- *HTTP side*: one holder of the engine; the queue gauge counts who waits; a stream
  is a prefix of a well-formed one and complete unless cut; a handler's images are its
  own, which the code does not keep (section 6); every connection is dealt with,
  whatever its client and the others do, and the pool drains after SIGTERM.
- *text*: where tokens end is invisible in what comes out; a stop string is found
  wherever it falls; no delta ends in half a character.
- *sampler, tokenizer, image layout, chat template*: they agree with definitions put
  differently; a conversation that goes on begins with what the caches hold.
- *products, attention*: each output is the sum of all its terms, each once, on
  whichever path; each visible position has the weight of its score.
- *loading, passes*: both kinds of checkpoint make the layers of the original weights,
  up to channel scales that cancel and what rounding takes; what is allocated
  suffices for every launch; a decode is the same pass on every path.

## 2. Modules

| module | models | extends / uses |
|---|---|---|
| `PrefixCache` | cache/prefix.cu: slots, lookup, LRU, `kv_tokens` | – |
| `Engine` | `generate()`, the device state and arena, over the cache | `PrefixCache`; `Generation` as its abstract specification |
| `Generation` | the promise: one token at a time, nothing after a stop token or the limit | – |
| `Recurrence` | kernels/gdn.cu as control code sees it: convolution window and scan | – |
| `Speculation` | spec/spec.cu: backup, draft, verify, accept, roll back | `Recurrence` |
| `DraftCache` | draft/dflash.cu: push, compaction, block, aborts | – |
| `Server` | run_server: pool, handlers, `g_engine`, streams, vision scratch, SIGTERM | – |
| `AnswerText` | reasoning_parser.cpp, utf8_stream.h and the stop scan of `generate()` | – |
| `Questions` | nothing: a function is asked one question in each behaviour | – |
| `Loops` | the sums and powers that several of the functions compute in a loop | – |
| `Sampler`, `MultiModal` | kernels/sampling.cu; vision/ and the parts of `generate()` about images; with their questions | `Questions`, `Loops` |
| `Softmax` | kernels/attn.cu: the softmax of decode and prefill, with its questions | `Questions`, `Loops` |
| `Tokenizer`, `ChatTemplate` | tokenizer/bpe.cpp, chat_template.cpp as operators | instantiated by `PureFunctions` |
| `BlockFormats` | gguf/dequant.cu and the lane readers of gguf/gemv.cu, bit by bit | instantiated by `KernelFunctions` |
| `Splits` | over how many splits of its groups a product goes, and the room for partial sums (gemv_w4a16.cu, gemm_w4a16.cu) | extended by `MatMul`, instantiated by `PassFunctions` with the code's sizes |
| `MatMul` | kernels/gemv_w4a16.cu, gemm_w4a16.cu, the products of gguf/gemv.cu, the choice between them in model.cu | `Splits`, `Loops`; instantiated by `ProductFunctions` |
| `Attention` | kernels/attn.cu beside the softmax: rotation, formats and places of the cache | instantiated by `PassFunctions` |
| `Forward` | the layers of model.cu, context and workspace sizes, graph buckets, what a pass tells its kernels | instantiated by `PassFunctions` |
| `Checkpoint` | load_gguf.cu and the loader of model.cu: a layer from either kind of file | instantiated by `KernelFunctions` |
| `PassFunctions` | the questions about scratch, cache and passes, beside those of `Softmax` | `Softmax`, `Splits`, `Attention`, `Forward` |
| `ProductFunctions` | the question about products, from the weights as loaded to the output; the sizes of the kernels are its constants | `Questions`, `MatMul` |
| `KernelFunctions` | adds the questions about formats and checkpoints | `PassFunctions`, `ProductFunctions`, `BlockFormats`, `Checkpoint` |
| `PureFunctions` | adds the questions to tokenizer and template; its `Next` asks any question of all | `KernelFunctions`, `Sampler`, `MultiModal` |
| `Engine_proofs`, `DraftCache_proofs`, `Speculation_proofs`, `Server_proofs`, `AnswerText_proofs` | proofs about the module each is named after | TLAPS |
| `Loops_proofs` | what loops compute: induction, sums, powers, division, the least and the largest | `Loops`, TLAPS |
| `Kernels_proofs`, `Model_proofs` | proofs about `Sampler`, `Softmax` and `ProductFunctions`; about `MultiModal` and `PassFunctions` | `Loops_proofs` |
| `MC*` | small instances for TLC | the module they are named after |

Why the system is cut here: `Engine` treats a round as one step that leaves the
recurrent state behind the accepted prefix. That this is what backup, capture and
replay really do is `Speculation`'s matter, at the level of single rows; how the
drafter's own cache keeps up is `DraftCache`'s; how a token becomes text, and how
text becomes events on a socket, are `AnswerText`'s and `Server`'s. `g_engine` makes
the seam between `Server` and `Engine` a clean one: between lock and unlock no other
request touches the engine (property `OneHolder`, proved), so `Engine` may take
requests one after the other. The vision tower is the exception, used before the
lock, and is therefore modelled in `Server`.

### How state corresponds

**Provenance instead of numbers.** A device buffer holds in the model the tokens it
was computed from. `gdn` is the sequence the recurrent state has absorbed, row `p` of
`arena[l]` names the layer and token whose key and value are there, `logits` is the
sequence they are the distribution after. A forward pass that attends to rows which
do not belong to its state yields `Garbled`, from which the oracle `Argmax` says
something unrelated. So a wrong snapshot, a stale row or a skipped token is visible
as soon as it matters, and nothing about floating point is assumed beyond: the same
inputs give the same greedy token. (The code says itself, server.cpp:269-273, that a
verification at T = block_size and a decode at T = 1 may differ by one ulp; the
models are of the algorithm.)

**Engine.** `phase` is where the thread in `generate()` stands. `Start` is everything
up to the first chunk (lookup, the decision to speculate, restore or cold start);
`PrefillChunk` an iteration of the chunk loop; `EndPrefill` the snapshot behind it;
`Route`, `Sample` and `SpecRound` the three things the loop does at an empty deque;
`Emit` the rest of an iteration, with the end of the request for any reason; `Finish`
the last snapshot. The measured speeds behind `Route` are left to chance, as is the
quality of drafts. `generate()` calls a request greedy that has top_k == 1 as well as
one with no temperature, and that decides whether it speculates; `exact` says whether
`sample()` takes the likeliest token too, which it does for the second only
(sampling.cu:222). So a request may speculate and still draw its tokens when it decodes
plainly, and the text of only an exact one is promised. `Written` spells out that a
write past a layer's part of the arena lands in the next layer's.

**PrefixCache.** `pos` of a slot equals the length of its tokens and is left out.
Eviction is by stamp, ties by index, as the scan does it.

**Speculation.** One action per stage of a round; `preConv`, `postConv`, `seed` are the
captured buffers, `stateBak` and `windowBak` the backup. A draft is any sequence of up
to `MaxK` tokens.

**DraftCache.** `rows[k]` is the position whose key and value fill row `k`. A request
either starts its context behind a cache hit or at the window floor. `Moves` is what a
device copy between overlapping ranges may do: any set of rows may be read when what was
their source has been overwritten. It stands for one column of a row; columns are moved
each for itself.

**Server.** `at[r]` is where the thread (or the backlog) has the connection; each
handler is a chain of actions that follow its statements, with the lock, the gauge,
the writes and the vision kernels in the code's order. `conn` is the client's doing:
it may stall beyond the write timeout, come back, or leave, at any time. The pool of
threads with its backlog, and how a connection is closed, are translated from
src/third_party/httplib.h, which stands in the repository.

**AnswerText.** A byte is a model value; what matters of it is which tags it is in and
how many bytes the character it starts has. `Token` is one iteration of the emit path:
decode, feed the splitter, deliver the delta, scan for stops, in that order.

**ChatTemplate.** Text is a sequence of symbols: tags, line feeds, words.
`parse_tool_call` stands beside `render_chat`, since what one reads the other has to
write again.

**The kernels.** A weight is the record of the bits it is computed from (`BlockFormats`),
a sum the set of its terms together with their number (`MatMul`), an output of attention
the weight each position has in it, with powers of two for exponentials (`Softmax`), a
tensor the rewritings it went through (`Checkpoint`): ones added, exponentials, the order of
heads, the scales AWQ moves out of a norm and into the weights that read it, and whether it
was rounded while rewritten. So whether two ways to compute a
value agree, and whether anything is missing, counted twice or taken from elsewhere, is a
question of equality. Threads, warps and blocks are index sets: what each of them
writes is a function of its indices, and `Range` of the function is what lies in memory
after the launch. Loops over rows, splits, tiles and fragments keep their bounds.

Definitions marked "a fault" are a definition with a plausible bug put in. No
specification uses them; they are there so that for each property one can see that
it would notice.

## 3. Runs

`tlc -config X.cfg M` with the module and configuration below. All counters have
named bounds in the configuration.

| run | configuration | shows |
|---|---|---|
| plain | MCEngine_plain | no drafter, three slots, three requests: `NoDuplicateSlots`, `SlotSound`, `KvTruthful`, `Lossless`, `TurnsResume` |
| spec | MCEngine_spec | drafter, no cache: `EmptyDequeCoherent`, the loop implements `Generation` (`Generates`), requests end (`RequestEnds`) |
| draft_rows | MCDraftCache_rows | `RoundsFit`, `WindowCovered`, `RowsTrue` |
| rounds | MCSpeculation_rounds | `Restored`, `Lossless` |
| stream | MCServer_stream | one stream, every behaviour of its client, SIGTERM anywhere: `WellFormed`, `CompleteUnlessCut` |
| pool | MCServer_pool | stream, completion and a probe over two threads, the stream's client fickle: `OneHolder`, `GaugeCounts`, `Answered`, `Drains` |
| text | MCAnswerText_text | `SplitsAsWhole`, `StopsExactly`, `NeverHalf`, `StreamAddsUp` |
| pure | MCPureFunctions_pure | seventeen properties, below |
| mislabelled, overrun, raced, topk | – | the disagreements of section 6 |

What *pure* shows:

| property | of |
|---|---|
| `DrawsInProportion`, `GreedyIsFirst`, `NucleusIsSmallest` | the sampler: of the random numbers as many draw a token as its weight is of the survivors', to within one step; without a temperature it is the first of the likeliest, however many threads look; the survivors of top_p are the fewest that suffice |
| `MatchesPattern`, `EncodesAsTrained` | the tokenizer: the hand-written matcher does what the regular expression says, encoding repeats the merges in the order of training and loses no character |
| `PositionsDistinct`, `EmbeddingsInPlace`, `ImagesFitTokens` | images: positions, splicing over chunks, sizes and the order of patches |
| `NextTurnExtends` | the chat template and the parser of tool calls: the next request begins with what the last one left in the caches |
| `LanesReadAsBlocks`, `EveryBitOnce` | block formats: both readers find the same weights; every bit of a block has one use |
| `ProductsComplete`, `ScratchFits` | products: every path sums every term once; partial sums and the attention workspace fit what is allocated |
| `SoftmaxExact`, `CacheReadBack` | attention: splits, warps and tiles do not show; what is stored is what both readers find, rounded to the nearest |
| `CheckpointsAgree`, `PassesAgree` | loading and passes: GGUF and AWQ make the layers of the original weights, the one but for the order of heads and where a rounded one or exponential was undone, the other with channel scales that cancel wherever a norm is read; a missing tensor ends the server; decode is the same pass by graph and without, whatever came before |

Why the bounds are enough:

- *plain.* Two tokens, prompts of one to three, answers of up to three, three
  requests, chunks of two: prompts that extend, repeat and contradict each other's
  prefixes, hits that a chunk boundary cuts, eviction (six snapshots over three
  slots) and a full context (five rows) all occur. The oracle is a hash of the whole
  context, so two histories that differ in one token mostly go on differently.
- *spec.* Blocks of three, answers of three and one round of evidence: acceptance of
  none, some and all drafts, a stop token as free token and inside a block, the
  switch to plain decode after any round, and the end in the middle of a block. Eight
  rows leave room for a rejected block, see *overrun* for what happens otherwise.
- *draft_rows.* A window of seven, blocks of four and 20 positions make each request
  long enough for several compactions, and a second request begins over the leftovers
  of the first. With blocks of three no row is both read and written by a compaction;
  with four there is one such row that a block still sees.
- *rounds.* A convolution of three taps, drafts of up to three: shorter and longer
  than the window, so both ways of slicing it occur, over several rounds.
- *stream, pool.* One request shows all of a stream's states; three over two threads
  are the fewest with one in the engine, one waiting for it and one waiting for a
  thread. In *pool* one client is fickle, so that a stalled write keeps the engine from
  the two behind it, and two handlers waiting or working leave the probe without a
  thread; that is where `Answered` is checked. Deltas are bounded by three in *stream*
  (first, middle, last) and left out in *pool*; images are left to *raced*.
- *text.* Eleven token texts that cut tags, a three-byte character and a stop string
  everywhere, four tokens: every pair of layers holds text back at once.
- *pure.* All small inputs of each function; bounds in `MCPureFunctions`. Random numbers
  are multiples of 1/24 from 0 on, below 1; 24 is divided by some masses and not by
  others. Block formats
  have no bound: all sixteen are checked, every bit of a run of 256 weights. Products use
  tiles of 16 to 32 instead of 32 to 128, so that some have several launches, tiles,
  splits and fused parts, and a ragged last one of each; the fragment layout of the
  tensor cores (16 by 8 by 16) keeps its size. `ScratchFits` uses the sizes of the code,
  with the group counts of the models it serves. Attention has up to five positions
  over up to four splits of two warps, so that splits and warps are empty; three scores,
  so that a maximum comes first, last and twice. `f32_to_e4m3` is checked at every
  exponent from below the smallest subnormal to above the largest number and every
  mantissa of a float with a few more bits than e4m3, which is what ties and carries need.
  Passes cross every graph bucket, with up to two calls before.

`CHECK_DEADLOCK FALSE` stands in every configuration because behaviours end: the
bound on requests is reached, or the answer is complete.

**Fairness.** `Engine`: weak fairness of the actions of a request that has begun
(`Working`). Its thread holds `g_engine` and waits for nobody, so it runs on; when the
next request comes is up to clients. `Server`: weak fairness of each request's own actions. That covers
threads being scheduled, writes that succeed or time out after ten minutes, and the
mutex; `std::mutex` promises no fairness between waiters, but here requests are
finitely many and each one releases it, so a waiter is alone at last. Nothing is
assumed of clients.

## 4. Proofs

Checked by `tlapm`; each theorem holds for every value of the constants that the
module's `ASSUME` admits.

| theorem | says |
|---|---|
| `Engine_proofs!TypeCorrect` | types of all variables |
| `Engine_proofs!NoDuplicates` | no prefix in two slots |
| `Engine_proofs!KvAlwaysTruthful` | `[]KvTruthful`, given `Headroom` |
| `Engine_proofs!SnapshotsSound, AlwaysLossless, AlwaysCoherent` | `[]SlotSound`, `[]Lossless`, `[]EmptyDequeCoherent`, given `Regular`, of every behaviour with `[]CutClean` |
| `Engine_proofs!Implements` | such a behaviour of `Engine` is one of `Generation`, given `Regular` |
| `Engine_proofs!PromiseKept` | with a drafter or with snapshots, but not both, every behaviour is one: `[]Lossless`, `[]EmptyDequeCoherent` and `Generates`, given `Regular` |
| `Engine_proofs!ConversationsResume` | `[]TurnsResume`, given neither |
| `DraftCache_proofs!TypeCorrect, AlwaysFits, Covered` | the drafter's cache: types, `[]RoundsFit`, `[]WindowCovered` |
| `DraftCache_proofs!RowsHold` | `[]RowsTrue`, in whatever order overlapping copies are done |
| `Speculation_proofs!TypeCorrect, RestoredAlways, LosslessAlways` | the rounds: types, `[]Restored`, `[]Lossless`, if the oracle names tokens (`ArgmaxIsToken`) |
| `Server_proofs!TypeCorrect, SingleHolder, GaugeExact` | the HTTP side: types, `[]OneHolder`, `[]GaugeCounts` |
| `Server_proofs!StreamsWellFormed, StreamsComplete` | `[]WellFormed`, `[]CompleteUnlessCut` |
| `AnswerText_proofs!TypeCorrect` | types of all variables |
| `AnswerText_proofs!SplitsAsWholeAlways, StopsExactlyAlways` | `[]SplitsAsWhole`, `[]StopsExactly` |
| `AnswerText_proofs!NeverHalfAlways, StreamAddsUpAlways` | `[]NeverHalf`, `[]StreamAddsUp` |
| `Kernels_proofs!Fair, GreedyStable, Nucleus` | the sampler: `[]DrawsInProportion`, `[]GreedyIsFirst`, `[]NucleusIsSmallest`, for any weights, parameters, resolution of random numbers, halvings and threads |
| `Kernels_proofs!Softmaxes` | attention: `[]SoftmaxExact`, for any context, scores, splits, warps, heads and tiles |
| `Kernels_proofs!Complete` | products: `[]ProductsComplete`, for any tiles, rows, parts, groups, splits and types of blocks |
| `Model_proofs!Scratch` | `[]ScratchFits`, for any machine, shapes, context limit and free memory |
| `Model_proofs!Cache` | `[]CacheReadBack`, for any layers, heads and slots; for any precision of a float |
| `Model_proofs!Passes` | `[]PassesAgree`, for any model, calls before, places and shifts |
| `Model_proofs!Positions, Embeddings` | images in a prompt: `[]PositionsDistinct`, `[]EmbeddingsInPlace`, for any prompt, images, chunks and cached prefix |
| `Model_proofs!Sizes` | images: `[]ImagesFitTokens`, for any image, factor and bounds on the area |

**The assumptions are the disagreements.** `Headroom` says that a block fits behind the
longest answer; handle() does not see to it, and without it *overrun* refutes
`KvTruthful`. `Regular` adds that no prompt is empty: /v1/completions admits one, and
decoding would begin from the logits of the request before. `CutClean` is about a server
with both a drafter and snapshots, as it is deployed: no request that speculates ends with
committed tokens still queued, since the snapshot then taken (server.cpp:507) is of more
tokens than it is filed under, which *mislabelled* shows. It is a condition on behaviours
and not on constants; as long as it holds, drafting, routing, hits and chunks together
change nothing a client of an exact request can see. Without a drafter, or without
snapshots, it holds by itself (`PromiseKept`).

**Why Engine is right.** `KvTruthful` speaks of `kvTokens`, which prefill leaves stale and
decode leaves behind, so it is not inductive. `KvInv` adds what the rows hold at every
point: the first `pos` rows are those of `All`, the prompt followed by what was emitted
and what is pending; `pos` is at the end of `All`, or one token before it when plain
decode (or a stop token) has not fed the last one. Then `Emit` leaves `All` alone
(`Popped`), a forward pass extends the rows by the tokens it is given (`HoldsMore`),
a round writes a whole block of which the accepted part is what `All` grows by, and
the last snapshot records a prefix of `All` no longer than `pos`. `TokenInv` goes on
from there: the recurrent state is the first `pos` tokens of `All`, so by `KvInv` no pass
is garbled and the logits are those of the same prefix (`Faithful`); every token of
`All` behind the prompt is the oracle's choice after those before it (`Chosen`), which
for a round is what acceptance compares (`SaysAsModel`). Snapshots are taken from
this state and resumed into it. `Lossless` and the refinement follow; and
`EmptyDequeCoherent`, since with nothing pending `All` is the prompt with what was
emitted, all of which has been fed (`StandsAtPos`).

**Why a conversation resumes.** `TurnsResume` is about which slots survive, so `TurnInv` is
about stamps. They differ, so the least recent slot is not among the `k` newest when
there are more than `k` slots: what a store writes over is not what it must keep. A
lookup that hits makes its snapshot the newest (`Held(Resumed, 0)`), the snapshot behind
the prompt makes it the second newest (`Primary`), and the last one the third (`Settled`);
so one slot is enough for the next turn, two for a resend and three for what
was resumed from. That the lookup then returns exactly this length rests on `NoDuplicates`:
the slot is the only one filed under these tokens (`Finds`). Headroom and the drafter
play no part, since this is about what is found; that it is also right is `SlotSound`.

**Why speculation is right.** `Engine` takes a round as one step; `Speculation_proofs` shows
that backup, verification, roll-back and replay make it one. At the heart is that the
rows of a convolution and the window behind them do not depend on how a text is cut into
calls (`ConvJoins`, `WindowJoins`): so the rows captured of a block are those which the
accepted part alone would have had, and to run the recurrence over that many of them from
the saved state ends where plain decoding would. `SpecInv` says for every stage of a
round which tokens the device stands behind, and that the arena holds no others below
that point; that what is handed out is the model's own (`Lossless`) follows since
acceptance compares a draft with the choice of the oracle behind the same tokens. Nothing
is assumed of drafts; of the oracle, that it names a token, as the argmax over one logit
per token does.

**Why the drafter's cache never aborts.** See the head of `DraftCache_proofs`: prefill
pushes fewer than `Window` rows and never compacts; then each round finds the cache
ending at `pos`, and two blocks fit into `Window + 1`.

**What a compaction leaves.** A row that reads a source already overwritten gets a later
row, from which the same may be said, but never one from behind the last (`MoveIs`). This
takes a source that the copy writes to, and when the cache overflows so much is dropped
that only the oldest `n + Block - 3` of the kept rows have one (`KeptBounds`). The `n` rows
pushed then move all but `Block - 3` of these out of the window (`PushedRows`): with blocks of
eight, five positions out of 2048.

**Why the gauge is exact.** The gauge is decremented, so that it is a natural number at
all follows from its counting the waiting requests; types, gauge, single holder and
"a connection is in the backlog once" are proved together (`Inv`).

**Why streams are whole.** `WellFormed` speaks of what was said only. `StreamInv` adds what
is left to say: `todo` is in order, everything said may come before everything in it
(`Crossed`), and while the sink works the last event of the two together is [DONE] as
soon as the tail has begun. A provider that finds its client gone drops events, which
cannot put two others out of order. And while the sink works the wire has as many
events as were said, so a stream with an answer is complete unless a write failed.

**Why text is split as if it were read at once.** Where the splitter has come to is a place
in the reading of the whole text: what it has put out, followed by a reading of its buffer
and all that is to come, gives the reading of the whole (`AsWhole`). `TakeReads` shows that a
turn of the loop keeps the place, since a tag found in the buffer stays the next one that
counts whatever follows; `OutReads` that a release does, since it leaves back every byte
in which a tag could begin that is not complete yet (`TagStays`). Both need of the four
tags only what `TagAssumption` says: "<" stands first and nowhere else in each, and neither
opening tag begins the other. So a call keeps the place (`FeedReads`), and behind the flush
nothing is left to read.

**Why streams are cut between characters.** Around a tag characters are whole, for a tag is
made of characters of one byte; so each maximal run of text of one kind is well begun
(`Along`) if the text is. What a stream was sent plus its carry is such a run cut where a
character may be open, and the carry is exactly the open character (`Follows`). So deltas
and the last replacement start and end at characters, and what was sent with the carry
behind it is the answer.

**Why a stop string is found.** A match lies in text searched before, which found none, or it
ends in the new text and so begins no earlier than where the search does (`FindStays`,
`StopFirst`). This is about one stop string; with several, the code's rule differs
(section 6). That it cuts anything needs a string which is not empty, and the definition
of `StopsExactly` says so.

Types are proved and not checked by a run: TLC would only meet them again.

**Induction over data.** A loop is written as a function of the number of turns made. What
it computes is shown by induction over the *set* of turns after which it holds (`Induction`,
from the well-foundedness of the naturals); a schema over operators is not available to the
provers. `RunsExist` and `RunsKeep` in `Loops_proofs` do this once for all loops: a set of
states that holds the first and is kept by each turn holds the last. On it rest the laws of
sums (a sum over disjoint parts, by columns as by rows, of a table with one entry) and of
powers, and through them everything below.

**Why the draw is fair.** The bisection keeps `lo` below a point where the test fails and at one
where it holds, so that after `Halvings` turns the two are neighbours (`BisectIs`); for top_p
this means that what stays covers the mass, and without its lightest tokens would not
(`NucleusIs`). A draw picks the first survivor at which the running sum reaches
u times the mass. Random numbers are the multiples of `1 / Resolution` in [0, 1); those that pick
a token are the ones whose product with the mass lies in the interval by which the sum grows
there (`DrawIs`), and of an evenly spaced grid an interval holds its share to within one point
(`MultiplesBetween`, `DrawsCount`). Only 0 lies in no such interval: it picks the first
survivor, whatever its weight. Of the threads' candidates the
best is the first of the likeliest, whoever holds it (`GreedyIs`).

**Why a softmax may be taken in pieces.** `IsSoftmax` says of a partial result over a set of
positions: its maximum is the largest score, each weight is the exponential of the distance
to it, the divisor is their sum. Two of them over disjoint sets merge to one over the union
(`MergeIs`, `CombinedIs`), one over nothing changes nothing, which is what -FLT_MAX is for. A warp
adds position after position (`AttendIs`, `WarpLoopIs`), warps and splits partition the context
(`TurnsOf`, `PerIs`), and a tile of keys is such a merge for each launched row (`TileStepIs`);
rows that are not launched are not read, since blocks are numbered by live queries
(`LaunchedIs`).

**Why no term of a product is lost.** A kernel's loops, tiles, lanes and splits are the index set of
a sum. If that set maps one-to-one onto the inputs of a row and each index adds the term of its
input, the sum is the one sought (`ExactlyOnce`; `OnceInSplits` when splits share the indices).
So for each kernel the proof names the map: threads and slots of a column stripe, groups shared out
to splits (`Shares`, `EvenShares`), lanes and registers of a tensor-core fragment (`LaneOf`,
`ChunkInputs`, `SlotsAre`: the nibble of a packed word that a slot takes is the input that the other
operand holds there), lanes and runs of a block (`WalkedAll`, `RunInputs`). Outputs are covered by
stripes, by tiles whose ragged edge is not stored, by tiles of dequantised rows, and fused parts
by their offsets (`OffsetsAre`, `PartsAre`, `PartsTogether`); rows by launches of at most `MaxM`
(`LaunchedAll`). Repacking moves each word of each part to where the kernel looks (`RepackIs`,
`WeightsLoaded`). `TileAssumption` has what the instruction m16n8k16 needs of the tiles;
`ProductAssumption` what the callers guarantee: rows fill stripes, groups fill inputs, and the
kernels that share groups out evenly get a number of splits that divides them, as
`gemv_choose_splits` gives it.

**Why the scratch suffices.** `gemv_choose_splits` takes the first divisor of the groups with
which the machine is full, at 8 blocks for each multiprocessor. With the divisor before it the
machine was not, and by `RoomAssumption` it is at least an eighth of the one taken; so there
are fewer than 64 blocks for each, or else one split of an output no wider than the widest
(`SplitsChosenFill`, `PartialsFit`, `TilesFit`). Those of attention grow with the context, and the workspace is for
the largest one that is allowed (`SplitsGrow`); a captured graph keeps the splits of its
bucket's end, which is no further (`CaptureIs`).

**Why the cache reads back.** Slot, head, half and column are a number in mixed radix, so two
different ones have two places (`StoreIs`, `LoadIs`, `SpotsDiffer`); the layers' parts do not meet
since the layers of a kind are counted densely, which takes `ModelAssumption`: every fourth
layer is one of full attention (`PartsApart`, `StatesDense`). A number of four bits comes back
within a half unit since nothing is clamped (`QuartersNear`); one of e4m3 is the nearest
there is, because their values strictly grow with the code and the number lies between two
neighbours (`BetweenTwo`, `NormalNear`, `SubnormalNear`, `Clipped`), for any number of bits of mantissa.

**Why passes agree.** Of what a decode reads, earlier calls leave only splits, the graph's flag and
the length, and each decode sets the splits itself (`DecodesAlike`, `RowsAlike`). That a score
depends only on the distance of two positions is shown for quarter turns: the two dimensions
of a pair turn together, so a turn of both sides cancels in the sum over pairs (`SumPairs`,
`TurnedFurther`, `ScoreMoves`).

**Why images are in their places.** `Laid` says of a prompt expanded so far where each span lies
and that between spans there is no placeholder; it is kept token by token (`PlacedIs`).
Positions follow spans in the same order: what is behind a span is behind the larger side of
its box (`TurnKeeps`). A chunk copies of each span exactly the rows they have in common, and
chunks partition what is prefilled (`SpliceIs`, `ChunkOf`, `CopiesAre`). For sizes the bounds on the
area are shown for the squared sides, as `Part` has them (`ShrunkFits`, `GrownFits`), and the layout
of patches is a number in mixed radix that is read back digit by digit (`PatchIs`). Its
assumptions on the bounds are those of the processor's configuration: the largest aspect
ratio fits, with one factor to the short side, between them.

## 5. Only model-checked

Liveness (`RequestEnds`, `Answered`, `Drains`), which needs fairness and ENABLED. `MatchesPattern`,
`EncodesAsTrained` and `NextTurnExtends`, whose reference definitions are recursive operators.
`LanesReadAsBlocks` and `EveryBitOnce`, which are about the tables of sixteen formats: the run
visits all of them, bit by bit, and is the proof; so is `CheckpointsAgree` about the names in two
kinds of file.

## 6. Where code and comments disagree

With a run that shows it (`PROJECT.json`, "findings"):

1. *mislabelled* (server.cpp:507). After a stop in the middle of a committed block the
   last snapshot files the state of the whole block under a shorter prefix.
2. *overrun* (model.cu:687, server.cpp:917). Near the end of the context a block's
   rejected rows go into the next layer's part of the arena.
3. *raced* (server.cpp:853). Two handlers run the vision tower at once over one scratch.
4. *topk* (sampling.cu:139). top_k keeps the threshold that more than k tokens reach.
   So a request with top_k == 1 and a temperature, which server.cpp:248 takes for greedy
   and lets speculate, has its tokens drawn from several as soon as it decodes plainly:
   the speculated text, and the one after a full hit or a switch, are not the same.
   `Lossless` promises the text of exact requests only.

Without one, met while reading:

- model.cu:953: the verification ignores `mrope_delta`, which model.h:149-153 says
  every later position is shifted by; rounds behind an image use other angles.
- server.cpp:474 and 484: a delta is delivered before the stop scan, so a stream can
  show text of a stop string that the result then cuts; a stop found in the flush
  (526) drops the text before it from the stream, and turns "abort" into "stop".
- server.cpp:400-408: with several stop strings the first in the list wins, not the
  one that occurs first.
- dflash.cu:704 copies between overlapping ranges with cudaMemcpyAsync, which promises no
  order; 697-699 speaks of a memmove and says nothing is lost. At most `Block - 3`
  positions at the window's edge can be lost (`RowsTrue`, `RowsHold`).
- sampling.cu:189 compares with >=, and the random number may be 0 (19): then the first
  survivor is drawn even if its weight has become 0.
- server.cpp:296: an empty prompt, which /v1/completions admits, prefills nothing, and
  the first token is chosen from the logits of the request before.
- load_gguf.cu:33-34 says that undoing ssm_a is exact, bf16(log(-x)); 90-99 round x to bf16
  before 84 takes the logarithm, so small A_log come back changed, as do the norms, from
  which 78 takes the one off when w + 1 has been rounded. The model marks these tensors,
  and `CheckpointsAgree` allows it for no others. What AWQ folds into norms, alpha and beta
  (reports/GGUF_LOADER.md:48-54, 119-123) is compared by what it cancels against.
- server.cpp:445-452: a round that ends at its free token counts as a verification
  and a full draft in the metrics.
- chat_template.h:16-17 has tools serialised in insertion order. server.cpp:739 parses the
  request into nlohmann::json, whose objects are sorted by key, and line 800 renders
  from a dump of that; keys of tools, and of arguments a client sends as an object, come
  out in alphabetical order.
- model.cu:735 takes a layer's slot among the gated delta nets as li - li/4, true only of
  three in every four (`ModelAssumption`); model_shape.h:1-2 says that nothing may hard-code a
  dimension.
- dequant.cu:19 says that the sizes of its structs are asserted at launch; no launch
  does. They are right (`EveryBitOnce`).
- gemv_w4a16.cu:348-349: "4x covers the divisor-loop overshoot" holds for the group
  counts of the models served, not for any: a prime one overshoots at once. `RoomAssumption`
  names what it takes, that each divisor is at most eight times the one before.
- model.cu:155-157 (k_quant_i4, kept for an ablation and used by no shipped format) clamps
  the zero point to 0..15, so a group whose numbers all have one sign and do not come
  near zero saturates: 10 to 11 is stored as 1.
- attn.cu:41-43 rounds to the nearest by adding 0.5f. The addition is rounded itself: for the float
  just above one half of a unit it gives 1, which is taken for a tie and goes to 0. The model's
  sum is exact, and no other float is concerned.
- spec.cu:225 and 475: the stand-alone generators can hand out more than `max_new`
  tokens, which gate_spec.cu:1-2 compares with plain decode.
- sampling.cu:163 says "keep the smallest set" that covers top_p. The bisection never tests
  its upper end, so tokens within its resolution of the likeliest are kept with it;
  `NucleusIsSmallest` says so.
- server.cpp:994: the role prelude of a stream is written only once the engine is
  had, so a queued client sees nothing; 633-641: SIGTERM cuts a stream whose
  provider has not started; 3-6: probes wait for a thread when the pool is full.
- server.cpp:922 and 930: a stop list with a non-string, or a non-boolean
  include_usage, throws past the handler's error path; httplib answers 500 and the
  error counter does not move.

## 7. Not modelled

How floating-point sums round, the values of the lookup grids and the elementwise
kernels between products; the drafter's network; the decoding and resampling of images,
the arithmetic of the vision tower: a comparison of numbers, which the gates in src/tests
make. Streams of the device and its allocation. Headers of gguf and safetensors files,
JSON of the configuration and command-line options, which are read once and end the
process on an error. Metrics but the queue gauge and the error counter; /metrics reads
the prefix cache's counters without a lock while the engine's holder writes them
(server.cpp:716), which feeds nothing back. Clients. Content that is neither text nor
null, JSON and XML escaping in the chat template, tool-call values that are JSON; so
`NextTurnExtends` is about texts, and where the tokenizer sees the boundary of two turns
otherwise the tokens may still differ. The suffix drafter of spec.cu:102, which only the
stand-alone generator uses: `Speculation` allows any draft. `Server` lets `generate()` hand
out any number of deltas; it is not composed with `Engine` step by step.

## 8. Plan

Done in this order: `PrefixCache` and `Engine`, `DraftCache`, `Speculation` with
`Recurrence`, `Server`, `AnswerText`, the pure functions, the proofs; then the block
formats, products, attention, loading and passes with `KernelFunctions`, the parser of
tool calls, and the proofs about streams, the empty deque
and conversations; then those about rounds, images and the text of answers, and last about
sampling, attention, products and what a pass stands on. What would come
next:

1. positions in `Engine`'s arena rows, with `mrope_delta`, so that the divergence of
   model.cu:953 becomes a run; penalties of the sampler (which tokens
   `sampler_note_token` counts);
2. which snapshots stay sound when a drafter and the cache are both on and every request
   ends at a block's end;
3. the kernels of the drafter's network, as `MatMul` and `Attention` have those of the model.
