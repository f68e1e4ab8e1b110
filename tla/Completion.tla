----------------------------- MODULE Completion -----------------------------
(***************************************************************************)
(* One-at-a-time decoding: llama_rn_context_completion (rn-completion.cpp) *)
(* under the loop of the native bridges (jni.cpp doCompletion, which       *)
(* LlamaContext.mm completion repeats line by line), and the other calls   *)
(* that use the same tokens and the same cache: embedding, rerank, bench,  *)
(* clearCache, saveSession and loadSession.                                *)
(*                                                                         *)
(* embd is the code's record of what was evaluated and kv what sequence 0  *)
(* of the llama memory really holds.  Nothing in the code ties the two     *)
(* together but the order of its statements: that is what is checked here. *)
(*                                                                         *)
(* pc: "loop" is the test of the bridge's while, "next" the entry of       *)
(* nextToken, "decode" and "sample" its halves, "close" what embedding and *)
(* rerank do after their only doCompletion.  Calls run one at a time; stop *)
(* comes from another thread at any moment.                                *)
(***************************************************************************)
EXTENDS Integers, Sequences, FiniteSets

CONSTANTS
  Tokens,          \* the vocabulary
  CharKind,        \* how the text of a token ends: see Ending
  NCtx,            \* n_ctx
  NBatch,          \* n_batch
  NKeep,           \* n_keep, after loadPrompt brought it to at most n_ctx - 4
  CtxShift,        \* ctx_shift
  IgnoreEos,       \* ignore_eos: the sampler never picks an end of generation
  PartialRemoval,  \* FALSE for recurrent and hybrid models, whose state is whole
  DecodeMayFail,   \* whether llama_decode may return an error
  Kinds,           \* the calls made
  Prompts,         \* the prompts given, as tokens
  Predicts,        \* n_predict given by a call; Unset leaves params.n_predict
  Unset,
  SizeMax,         \* 2^w: n_remain is a size_t
  MaxCalls         \* bound: the number of calls

AllKinds == {"completion", "embedding", "rerank", "bench", "clear", "save", "load"}

ASSUME CompletionAssumption ==
  /\ CharKind \in [Tokens -> {"ascii", "whole", "lead", "tail"}]
  /\ NCtx \in Nat /\ NBatch \in Nat \ {0} /\ NKeep \in 0..(NCtx - 4)
  /\ CtxShift \in BOOLEAN /\ IgnoreEos \in BOOLEAN /\ DecodeMayFail \in BOOLEAN
  /\ PartialRemoval \in BOOLEAN
  /\ Kinds \subseteq AllKinds
  /\ Prompts \subseteq Seq(Tokens)
  /\ Unset \notin Int /\ Predicts \subseteq Int \cup {Unset}
  /\ SizeMax \in Nat \ {0} /\ MaxCalls \in Nat

VARIABLES
  embd,            \* the tokens of the prompt and of the answer
  kv,              \* the tokens in sequence 0 of the memory, in their order
  n_past,
  n_predict,       \* params.n_predict: it outlives the call that set it
  n_remain,
  has_next_token,
  is_interrupted,
  incomplete,
  ending,          \* how generated_text ends: "none" is the empty text
  session,         \* the session files: tokens and memory
  call,            \* the call that runs, or the last one
  pc,
  calls,
  fresh,           \* history: the prefix loadPrompt reused was in the memory
  logits,          \* history: this call has decoded something
  late,            \* history: batches and tokens begun after the stop
  budget,          \* history: how many more tokens n_predict allows
  split            \* history: this call sampled a part of a character

params == <<n_predict, session, call, calls>>
vars == <<embd, kv, n_past, n_remain, has_next_token, is_interrupted, incomplete,
          ending, pc, fresh, logits, late, budget, split, params>>

-----------------------------------------------------------------------------
(* What the steps are made of *)

Smaller(a, b) == IF a <= b THEN a ELSE b

(* The conversion of an int to size_t. *)
AsSize_Int(n) == n
AsSize(n) == n % SizeMax

(* find_common_prefix_length: how many leading tokens a and b share. *)
CommonPrefix(a, b) ==
  Cardinality({i \in 1..Smaller(Len(a), Len(b)) : \A j \in 1..i : a[j] = b[j]})

(* s without the n elements at the 0-based places from, from + 1, ... *)
Without(s, from, n) ==
  SubSeq(s, 1, Smaller(from, Len(s))) \o SubSeq(s, from + n + 1, Len(s))

(* truncatePrompt: keep the first NKeep tokens and drop as many half-windows *)
(* after them (erased_blocks * n_block_size) as leaves less than a window.   *)
Block == (NCtx - NKeep) \div 2
Erased(size) == (size - NKeep - Block) - ((size - NKeep - Block) % Block)
Truncated(text) ==
  IF Len(text) >= NCtx THEN Without(text, NKeep, Erased(Len(text))) ELSE text

(* Where loadPrompt lets evaluation start: at least one token is evaluated. *)
Reused_All(old, text) == CommonPrefix(old, text)
Reused(old, text) ==
  LET common == CommonPrefix(old, text)
  IN  IF common = Len(text) THEN common - 1 ELSE common

(* The first past tokens of text are in the memory. *)
InMemory(memory, text, past) ==
  past <= Len(memory) /\ SubSeq(memory, 1, past) = SubSeq(text, 1, past)

(* llama_memory_seq_rm(0, p0, -1) of a memory that cannot drop a part of its *)
(* state fails when the last position is among those to drop.                *)
CanRemoveFrom(memory, p0) == PartialRemoval \/ p0 <= 0 \/ p0 >= Len(memory)

(* How the text ends after a token, and what the UTF-8 scan of doCompletion  *)
(* makes of it: a text that ends in a one-byte character leaves the flag be. *)
Ending(before, token) ==
  CASE CharKind[token] = "lead" -> "part"
    [] CharKind[token] = "tail" -> IF before = "part" THEN "whole" ELSE before
    [] OTHER -> CharKind[token]

Scanned(text) == IF text \in {"part", "whole"} THEN text = "part" ELSE incomplete

(* Where nextToken goes on: n_past < embd.size() compares as size_t, so that *)
(* a negative n_past is not below any size.                                  *)
DecodeOrSample(past, tokens) ==
  IF past >= 0 /\ past < Len(tokens) THEN "decode" ELSE "sample"

(* nextToken may go on after a token. *)
BudgetLeft_Always(remain) == TRUE
BudgetLeft(remain) == n_predict = -1 \/ remain # 0

(* The test of the bridge's loop. *)
LoopGoesOn_UntilStopped == ~is_interrupted
LoopGoesOn == has_next_token /\ ~is_interrupted

(* nextToken looks at is_interrupted after every batch. *)
StopsDecoding_AtEnd == is_interrupted /\ n_past + NBatch >= Len(embd)
StopsDecoding == is_interrupted

-----------------------------------------------------------------------------
(* Starting a call *)

Init ==
  /\ embd = <<>> /\ kv = <<>> /\ n_past = 0
  /\ n_predict = -1 /\ n_remain = 0
  /\ has_next_token = FALSE /\ is_interrupted = FALSE
  /\ incomplete = FALSE /\ ending = "none"
  /\ session = {}
  /\ call = [kind |-> "none", prompt |-> <<>>]
  /\ pc = "idle" /\ calls = 0
  /\ fresh = TRUE /\ logits = FALSE /\ late = 0 /\ budget = 0 /\ split = FALSE

(* rewind and beginCompletion, and the call's n_predict. *)
Rewound(kind, prompt, asked) ==
  /\ call' = [kind |-> kind, prompt |-> prompt]
  /\ n_predict' = IF asked = Unset THEN n_predict ELSE asked
  /\ n_remain' = AsSize(n_predict')
  /\ budget' = IF n_predict' > 0 THEN n_predict' ELSE 0
  /\ is_interrupted' = FALSE /\ incomplete' = FALSE /\ ending' = "none"
  /\ logits' = FALSE /\ late' = 0 /\ split' = FALSE

(* loadPrompt, given the tokens and the memory as the caller prepared them. *)
LoadPrompt(prompt, tokens, memory) ==
  LET text == Truncated(prompt)
      past == Reused(tokens, text)
      can  == CanRemoveFrom(memory, past)
  IN  /\ embd' = text
      /\ n_past' = IF can THEN past ELSE 0
      /\ kv' = IF can THEN SubSeq(memory, 1, Smaller(past, Len(memory))) ELSE <<>>
      /\ has_next_token' = TRUE
      /\ fresh' = InMemory(memory, text, past)

(* loadPrompt with a prompt too long for a context that does not shift: it  *)
(* returns before it touches the tokens or has_next_token.                  *)
RefusePrompt(tokens, memory) ==
  /\ embd' = tokens /\ kv' = memory /\ n_past' = 0
  /\ fresh' = TRUE
  /\ UNCHANGED has_next_token

TooLong(prompt) == Len(prompt) >= NCtx /\ ~CtxShift

Counted == calls < MaxCalls /\ pc = "idle" /\ calls' = calls + 1

(* completion: a refused prompt is an error and the call is over. *)
StartCompletion(prompt, asked) ==
  /\ "completion" \in Kinds /\ Counted
  /\ Rewound("completion", prompt, asked)
  /\ IF TooLong(prompt)
       THEN RefusePrompt(embd, kv) /\ pc' = "idle"
       ELSE LoadPrompt(prompt, embd, kv) /\ pc' = "loop"
  /\ UNCHANGED session

(* completion without a prompt, with media and no projector, or whose       *)
(* sampler cannot be made: rewind was called, and of the parameters only    *)
(* n_predict may have been written.                                         *)
FailCompletion(asked) ==
  /\ "completion" \in Kinds /\ Counted
  /\ call' = [kind |-> "completion", prompt |-> <<>>]
  /\ n_predict' = IF asked = Unset THEN n_predict ELSE asked
  /\ n_past' = 0 /\ n_remain' = 0 /\ budget' = 0
  /\ is_interrupted' = FALSE /\ incomplete' = FALSE /\ ending' = "none"
  /\ logits' = FALSE /\ late' = 0 /\ split' = FALSE
  /\ UNCHANGED <<embd, kv, has_next_token, fresh, session, pc>>

(* embedding clears the memory, not the tokens, and does not look at *)
(* context_full.                                                      *)
StartEmbedding(prompt) ==
  /\ "embedding" \in Kinds /\ Counted
  /\ Rewound("embedding", prompt, 0)
  /\ IF TooLong(prompt) THEN RefusePrompt(embd, <<>>) ELSE LoadPrompt(prompt, embd, <<>>)
  /\ pc' = "next"
  /\ UNCHANGED session

(* rerank, for one document, clears both. *)
StartRerank(prompt) ==
  /\ "rerank" \in Kinds /\ Counted
  /\ Rewound("rerank", prompt, Unset)
  /\ IF TooLong(prompt) THEN RefusePrompt(<<>>, <<>>) ELSE LoadPrompt(prompt, <<>>, <<>>)
  /\ pc' = "next"
  /\ UNCHANGED session

-----------------------------------------------------------------------------
(* nextToken and doCompletion *)

(* What doCompletion does with nextToken's verdict: has and remain are       *)
(* has_next_token and n_remain as nextToken left them, text the new ending.  *)
(* A text that ends inside a character keeps the generation going; then a    *)
(* stop word found by the bridge ends it.                                    *)
Finish(has, remain, text, stopped) ==
  /\ ending' = text
  /\ incomplete' = Scanned(text)
  /\ stopped => call.kind = "completion" /\ ~incomplete'
  /\ has_next_token' = ((has \/ incomplete') /\ ~stopped)
  /\ n_remain' = IF incomplete' /\ ~has THEN AsSize(remain + 1) ELSE remain
  /\ pc' = IF call.kind = "completion" THEN "loop" ELSE "close"

Began == late' = IF is_interrupted THEN late + 1 ELSE late

EnterLoop ==
  /\ pc = "loop" /\ LoopGoesOn
  /\ pc' = "next"
  /\ UNCHANGED <<embd, kv, n_past, n_remain, has_next_token, is_interrupted,
                 incomplete, ending, fresh, logits, late, budget, split, params>>

(* endCompletion *)
LeaveLoop ==
  /\ pc = "loop" /\ ~LoopGoesOn
  /\ pc' = "idle"
  /\ UNCHANGED <<embd, kv, n_past, n_remain, has_next_token, is_interrupted,
                 incomplete, ending, fresh, logits, late, budget, split, params>>

ContextFull_Late == Len(embd) > NCtx
ContextFull == Len(embd) >= NCtx

NoShift ==
  /\ pc = "next" /\ ~ContextFull
  /\ pc' = DecodeOrSample(n_past, embd)
  /\ UNCHANGED <<embd, kv, n_past, n_remain, has_next_token, is_interrupted,
                 incomplete, ending, fresh, logits, late, budget, split, params>>

StopWhenFull ==
  /\ pc = "next" /\ ContextFull /\ ~CtxShift
  /\ Finish(FALSE, n_remain, ending, FALSE)
  /\ UNCHANGED <<embd, kv, n_past, is_interrupted, fresh, logits, late, budget, split, params>>

(* The first token of the window that a shift drops, in embd. *)
FirstDropped_Early == NKeep
FirstDropped == NKeep + 1

Discarded == (n_past - NKeep - 1) \div 2

(* Half of what follows the kept tokens goes, from the tokens and from the *)
(* memory, which refuses without a word when it cannot drop a part.        *)
ShiftContext ==
  /\ pc = "next" /\ ContextFull /\ CtxShift
  /\ embd' = Without(embd, FirstDropped, Discarded)
  /\ kv' = IF PartialRemoval THEN Without(kv, NKeep + 1, Discarded) ELSE kv
  /\ n_past' = n_past - Discarded
  /\ pc' = DecodeOrSample(n_past', embd')
  /\ UNCHANGED <<n_remain, has_next_token, is_interrupted, incomplete, ending,
                 fresh, logits, late, budget, split, params>>

(* One llama_decode; the memory gives the tokens the positions that follow *)
(* its last one.                                                           *)
DecodeBatch ==
  LET n == Smaller(NBatch, Len(embd) - n_past)
  IN  /\ pc = "decode"
      /\ kv' = kv \o SubSeq(embd, n_past + 1, n_past + n)
      /\ n_past' = n_past + n
      /\ logits' = TRUE
      /\ Began
      /\ IF StopsDecoding
           THEN /\ embd' = SubSeq(embd, 1, n_past')
                /\ Finish(FALSE, n_remain, ending, FALSE)
           ELSE /\ pc' = DecodeOrSample(n_past', embd)
                /\ UNCHANGED <<embd, n_remain, has_next_token, incomplete, ending>>
      /\ UNCHANGED <<is_interrupted, fresh, budget, split, params>>

DecodeFails ==
  /\ pc = "decode" /\ DecodeMayFail
  /\ Finish(FALSE, n_remain, ending, FALSE)
  /\ UNCHANGED <<embd, kv, n_past, is_interrupted, fresh, logits, late, budget, split, params>>

(* n_predict = 0: the text of the end-of-sequence token is added all the same. *)
PredictNothing ==
  /\ pc = "sample" /\ n_predict = 0
  /\ \E stopped \in BOOLEAN : Finish(FALSE, n_remain, "ascii", stopped)
  /\ UNCHANGED <<embd, kv, n_past, is_interrupted, fresh, logits, late, budget, split, params>>

SampleEnd ==
  /\ pc = "sample" /\ n_predict # 0 /\ ~IgnoreEos
  /\ Finish(FALSE, n_remain, ending, FALSE)
  /\ Began
  /\ UNCHANGED <<embd, kv, n_past, is_interrupted, fresh, logits, budget, split, params>>

SampleToken(token) ==
  /\ pc = "sample" /\ n_predict # 0
  /\ embd' = Append(embd, token)
  /\ \E stopped \in BOOLEAN :
       Finish(BudgetLeft(AsSize(n_remain - 1)), AsSize(n_remain - 1),
              Ending(ending, token), stopped)
  /\ budget' = IF budget > 0 THEN budget - 1 ELSE 0
  /\ split' = (split \/ ending' = "part")
  /\ Began
  /\ UNCHANGED <<kv, n_past, is_interrupted, fresh, logits, params>>

(* The end of embedding and of a document of rerank, which clears the memory. *)
Close ==
  /\ pc = "close"
  /\ kv' = IF call.kind = "rerank" THEN <<>> ELSE kv
  /\ pc' = "idle"
  /\ UNCHANGED <<embd, n_past, n_remain, has_next_token, is_interrupted, incomplete,
                 ending, fresh, logits, late, budget, split, params>>

(* stopCompletion, from a thread of its own. *)
Stop ==
  /\ ~is_interrupted
  /\ is_interrupted' = TRUE
  /\ UNCHANGED <<embd, kv, n_past, n_remain, has_next_token, incomplete, ending, pc,
                 fresh, logits, late, budget, split, params>>

-----------------------------------------------------------------------------
(* The calls that touch the tokens or the memory and decode nothing for them *)

Between(kind) ==
  /\ kind \in Kinds /\ Counted
  /\ call' = [kind |-> kind, prompt |-> <<>>]
  /\ UNCHANGED <<n_predict, n_remain, has_next_token, is_interrupted, incomplete,
                 ending, pc, fresh, logits, late, budget, split>>

(* bench clears the memory it used. *)
Bench ==
  /\ Between("bench")
  /\ kv' = <<>>
  /\ UNCHANGED <<embd, n_past, session>>

ClearCache ==
  /\ Between("clear")
  /\ kv' = <<>> /\ embd' = <<>> /\ n_past' = 0
  /\ UNCHANGED session

(* saveSession writes the first size tokens and the whole memory. *)
SaveSession ==
  /\ Between("save") /\ embd # <<>>
  /\ \E size \in 1..Len(embd) :
       session' = {[tokens |-> SubSeq(embd, 1, size), memory |-> kv]}
  /\ UNCHANGED <<embd, kv, n_past>>

LoadSession ==
  /\ Between("load")
  /\ \E file \in session : embd' = file.tokens /\ kv' = file.memory
  /\ UNCHANGED <<n_past, session>>

(* A file that cannot be read: the tokens were already resized to n_ctx, *)
(* filled up with token 0.                                               *)
LoadSessionFails ==
  /\ Between("load")
  /\ \E zero \in Tokens :
       embd' = [i \in 1..NCtx |-> IF i <= Len(embd) THEN embd[i] ELSE zero]
  /\ UNCHANGED <<kv, n_past, session>>

-----------------------------------------------------------------------------
Run ==
  \/ EnterLoop \/ LeaveLoop
  \/ NoShift \/ StopWhenFull \/ ShiftContext
  \/ DecodeBatch \/ DecodeFails
  \/ PredictNothing \/ SampleEnd \/ (\E token \in Tokens : SampleToken(token))
  \/ Close

Next ==
  \/ \E prompt \in Prompts :
       \/ \E asked \in Predicts : StartCompletion(prompt, asked)
       \/ StartEmbedding(prompt)
       \/ StartRerank(prompt)
  \/ \E asked \in Predicts \cup {Unset} : FailCompletion(asked)
  \/ Run
  \/ Stop
  \/ Bench \/ ClearCache \/ SaveSession \/ LoadSession \/ LoadSessionFails

Spec == Init /\ [][Next]_vars

(* The thread that runs a call is never held up for good. *)
FairSpec == Spec /\ WF_vars(Run)

-----------------------------------------------------------------------------
(* Properties *)

(* The values of the state. *)
TypeOK ==
  /\ embd \in Seq(Tokens) /\ kv \in Seq(Tokens)
  /\ n_past \in Int /\ n_past <= NCtx
  /\ n_predict \in Int /\ n_remain \in 0..(SizeMax - 1)
  /\ has_next_token \in BOOLEAN /\ is_interrupted \in BOOLEAN /\ incomplete \in BOOLEAN
  /\ ending \in {"none", "ascii", "whole", "part"}
  /\ session \subseteq [tokens : Seq(Tokens), memory : Seq(Tokens)]
  /\ call \in [kind : AllKinds \cup {"none"}, prompt : Seq(Tokens)]
  /\ pc \in {"idle", "loop", "next", "decode", "sample", "close"}
  /\ calls \in 0..MaxCalls
  /\ fresh \in BOOLEAN /\ logits \in BOOLEAN /\ late \in Nat
  /\ budget \in Nat /\ split \in BOOLEAN

(* Neither the tokens nor the memory outgrow the context, whatever the     *)
(* prompt, the shifts and the calls before (truncatePrompt, nextToken).    *)
WithinContext == Len(embd) <= NCtx /\ Len(kv) <= NCtx

(* While a call decodes, the memory holds exactly the tokens counted as    *)
(* evaluated, across batches, interruptions and context shifts, provided   *)
(* the prefix loadPrompt reused was there.                                 *)
MemoryMatchesTokens ==
  pc \in {"loop", "next", "decode", "sample"} /\ fresh
    => kv = SubSeq(embd, 1, n_past)

(* The sampler reads logits of this very call: loadPrompt leaves at least  *)
(* one token to evaluate ("we have to evaluate at least 1 token to         *)
(* generate logits").                                                      *)
LogitsBeforeSample == pc = "sample" /\ n_predict # 0 => logits

(* A stop lets at most one more batch or token begin (nextToken and the    *)
(* bridge's loop look at is_interrupted between any two of them).          *)
StopTakesEffect == late <= 1

(* A call ends (nextToken's limits and the bridge's loop), but for one whose *)
(* text stays inside a character for good: doCompletion then goes on after a *)
(* full context, a failed decode and an end of generation alike.             *)
CallEnds == pc # "idle" ~> pc = "idle" \/ [](incomplete /\ ~is_interrupted)

(* No token goes beyond n_predict, but in a call that sampled a part of a    *)
(* character ("may exceed the set limit slightly if the last token is a      *)
(* partial multibyte character"), whatever the calls before left behind.     *)
LimitHonoured ==
  [][pc = "sample" /\ embd' # embd /\ n_predict > 0 /\ budget = 0 => split]_vars

(* What loadPrompt takes for evaluated is in the memory ("compare the      *)
(* evaluated prompt with the new prompt").                                 *)
ReusedIsInMemory == fresh

(* The embedding of a text is computed from the whole text. *)
EmbeddingSeesPrompt ==
  pc = "close" /\ call.kind = "embedding" /\ ~is_interrupted => kv = call.prompt
=============================================================================
