-------------------------- MODULE CompletionProofs --------------------------
(***************************************************************************)
(* Proofs about Completion, for every vocabulary, context size, batch size *)
(* and set of prompts.  Two things the code takes for granted are needed   *)
(* and named: a prompt has a token, and a context that shifts can drop a   *)
(* part of its memory.                                                     *)
(***************************************************************************)
EXTENDS Completion, TLAPS, FiniteSetTheorems

TextGiven == <<>> \notin Prompts
ShiftWorks == PartialRemoval \/ ~CtxShift

-----------------------------------------------------------------------------
(* What the helpers return *)

(* Without drops n elements and keeps the others. *)
LEMMA WithoutType ==
  ASSUME NEW T, NEW s \in Seq(T), NEW from \in Nat, NEW n \in Nat, from + n <= Len(s)
  PROVE  /\ Without(s, from, n) \in Seq(T)
         /\ Len(Without(s, from, n)) = Len(s) - n
<1> DEFINE before == SubSeq(s, 1, from)
           after == SubSeq(s, from + n + 1, Len(s))
<1>1. Smaller(from, Len(s)) = from BY DEF Smaller
<1>2. before \in Seq(T) /\ Len(before) = from OBVIOUS
<1>3. after \in Seq(T) /\ Len(after) = Len(s) - from - n OBVIOUS
<1>4. Without(s, from, n) = before \o after BY <1>1 DEF Without
<1> HIDE DEF before, after
<1>5. before \o after \in Seq(T) /\ Len(before \o after) = Len(before) + Len(after)
  BY <1>2, <1>3
<1> QED BY <1>2, <1>3, <1>4, <1>5

(* Joining two sequences, and the start of one. *)
LEMMA JoinType ==
  ASSUME NEW T, NEW s \in Seq(T), NEW t \in Seq(T)
  PROVE  s \o t \in Seq(T) /\ Len(s \o t) = Len(s) + Len(t)
OBVIOUS

LEMMA StartType ==
  ASSUME NEW T, NEW s \in Seq(T), NEW m \in Nat, m <= Len(s)
  PROVE  SubSeq(s, 1, m) \in Seq(T) /\ Len(SubSeq(s, 1, m)) = m
OBVIOUS

(* A memory may be shorter than what is dropped; it never grows. *)
LEMMA WithoutShrinks ==
  ASSUME NEW T, NEW s \in Seq(T), NEW from \in Nat, NEW n \in Nat
  PROVE  /\ Without(s, from, n) \in Seq(T)
         /\ Len(Without(s, from, n)) <= Len(s)
         /\ from + n <= Len(s) => Len(Without(s, from, n)) = Len(s) - n
         /\ Len(Without(s, from, n)) <= from \/ from + n <= Len(s)
<1> DEFINE m == Smaller(from, Len(s))
<1>1. m \in Nat /\ m <= Len(s) /\ m <= from BY DEF Smaller
<1>2. SubSeq(s, 1, m) \in Seq(T) /\ Len(SubSeq(s, 1, m)) = m
  BY <1>1
<1>3. CASE from + n <= Len(s)
  BY <1>3, WithoutType
<1>4. CASE ~(from + n <= Len(s))
  <2>1. /\ SubSeq(s, from + n + 1, Len(s)) \in Seq(T)
        /\ Len(SubSeq(s, from + n + 1, Len(s))) = 0
    BY <1>4
  <2> QED BY <1>1, <1>2, <2>1, <1>4 DEF Without
<1> QED BY <1>3, <1>4

(* find_common_prefix_length is at most the length of either. *)
LEMMA CommonPrefixType ==
  ASSUME NEW T, NEW a \in Seq(T), NEW b \in Seq(T)
  PROVE  CommonPrefix(a, b) \in Nat /\ CommonPrefix(a, b) <= Len(b)
<1> DEFINE m == Smaller(Len(a), Len(b))
           P == {i \in 1..m : \A j \in 1..i : a[j] = b[j]}
<1>1. m \in Nat /\ m <= Len(b) BY DEF Smaller
<1>2. IsFiniteSet(1..m) /\ Cardinality(1..m) = m
  BY <1>1, FS_Interval
<1>3. P \subseteq 1..m OBVIOUS
<1>4. IsFiniteSet(P) /\ Cardinality(P) <= Cardinality(1..m)
  BY <1>2, <1>3, FS_Subset
<1>5. Cardinality(P) \in Nat BY <1>4, FS_CardinalityType
<1> QED BY <1>1, <1>2, <1>4, <1>5 DEF CommonPrefix

(* What truncatePrompt drops is there to drop and is enough. *)
LEMMA ErasedFits ==
  ASSUME NEW size \in Nat, size >= NCtx
  PROVE  /\ Erased(size) \in Nat
         /\ NKeep + Erased(size) <= size
         /\ size - Erased(size) \in 1..(NCtx - 1)
<1> DEFINE d == size - NKeep - Block
           rest == d % Block
<1>1. NCtx \in Nat /\ NKeep \in Nat /\ NKeep <= NCtx - 4
  BY CompletionAssumption DEF CompletionAssumption
<1>2. Block \in Nat /\ Block >= 2 /\ 2 * Block <= NCtx - NKeep
  BY <1>1 DEF Block
<1>3. d \in Nat BY <1>1, <1>2
<1>4. Erased(size) = d - rest BY DEF Erased
<1>5. size = NKeep + Block + d BY <1>1, <1>2
<1> HIDE DEF d
<1>6. rest \in Nat /\ rest < Block /\ rest <= d
  <2>1. \A a \in Nat, m \in Nat \ {0} : a % m \in Nat /\ a % m < m /\ a % m <= a
    OBVIOUS
  <2> QED BY <1>2, <1>3, <2>1
<1> HIDE DEF rest
<1> QED BY <1>1, <1>2, <1>3, <1>4, <1>5, <1>6

(* truncatePrompt makes any prompt shorter than the context, and leaves one. *)
LEMMA TruncatedFits ==
  ASSUME NEW text \in Seq(Tokens), text # <<>>
  PROVE  /\ Truncated(text) \in Seq(Tokens)
         /\ Len(Truncated(text)) \in 1..(NCtx - 1)
<1>1. NCtx \in Nat /\ NKeep \in Nat
  BY CompletionAssumption DEF CompletionAssumption
<1>2. CASE Len(text) < NCtx
  BY <1>1, <1>2 DEF Truncated
<1>3. CASE Len(text) >= NCtx
  <2>1. /\ Erased(Len(text)) \in Nat
        /\ NKeep + Erased(Len(text)) <= Len(text)
        /\ Len(text) - Erased(Len(text)) \in 1..(NCtx - 1)
    BY <1>3, ErasedFits
  <2>2. /\ Without(text, NKeep, Erased(Len(text))) \in Seq(Tokens)
        /\ Len(Without(text, NKeep, Erased(Len(text)))) = Len(text) - Erased(Len(text))
    BY <1>1, <2>1, WithoutType
  <2> QED BY <1>3, <2>1, <2>2 DEF Truncated
<1> QED BY <1>1, <1>2, <1>3

(* Where evaluation starts leaves a token to evaluate. *)
LEMMA ReusedFits ==
  ASSUME NEW old \in Seq(Tokens), NEW text \in Seq(Tokens), text # <<>>
  PROVE  Reused(old, text) \in 0..(Len(text) - 1)
BY CommonPrefixType DEF Reused

-----------------------------------------------------------------------------
(* The inductive invariant.  n_past counts tokens of embd and bounds the    *)
(* memory while a call runs; a token is sampled only below the window; and  *)
(* when the window is full all but one token was evaluated, which is what   *)
(* makes a shift drop at least one.                                         *)

Ends == {"none", "ascii", "whole", "part"}

Evaluated ==
  /\ pc # "idle" => n_past \in Nat /\ n_past <= Len(embd) /\ Len(kv) <= n_past
  /\ pc = "sample" => n_past = Len(embd)
  /\ pc = "decode" => n_past < Len(embd)
  /\ pc \in {"decode", "sample"} => Len(embd) < NCtx
  /\ CtxShift /\ pc \in {"loop", "next"} /\ Len(embd) = NCtx => n_past >= NCtx - 1

SessionsFit ==
  \A file \in session : Len(file.tokens) <= NCtx /\ Len(file.memory) <= NCtx

Bounds == WithinContext /\ SessionsFit /\ Evaluated

(* doCompletion leaves its flags well-typed and returns to its caller. *)
LEMMA FinishType ==
  ASSUME TypeOK, NEW has \in BOOLEAN, NEW remain \in 0..(SizeMax - 1), NEW text \in Ends,
         NEW stopped \in BOOLEAN, Finish(has, remain, text, stopped)
  PROVE  /\ ending' \in Ends /\ incomplete' \in BOOLEAN /\ has_next_token' \in BOOLEAN
         /\ n_remain' \in 0..(SizeMax - 1)
         /\ pc' \in {"loop", "close"}
<1>1. SizeMax \in Nat \ {0} BY CompletionAssumption DEF CompletionAssumption
<1>2. AsSize(remain + 1) \in 0..(SizeMax - 1) BY <1>1 DEF AsSize
<1>3. ending' = text BY DEF Finish
<1>4. incomplete' \in BOOLEAN BY DEF Finish, Scanned, TypeOK
<1>5. has_next_token' \in BOOLEAN BY DEF Finish
<1>6. n_remain' \in 0..(SizeMax - 1) BY <1>2 DEF Finish
<1>7. pc' \in {"loop", "close"} BY DEF Finish
<1> QED BY <1>3, <1>4, <1>5, <1>6, <1>7

(* loadPrompt leaves a prompt shorter than the context, a token of which is *)
(* to be evaluated, and a memory no longer than what it calls evaluated.    *)
LEMMA LoadPromptType ==
  ASSUME NEW prompt \in Seq(Tokens), prompt # <<>>,
         NEW tokens \in Seq(Tokens), NEW memory \in Seq(Tokens),
         LoadPrompt(prompt, tokens, memory)
  PROVE  /\ embd' \in Seq(Tokens) /\ kv' \in Seq(Tokens)
         /\ Len(embd') \in 1..(NCtx - 1)
         /\ n_past' \in 0..(Len(embd') - 1)
         /\ Len(kv') <= n_past'
         /\ has_next_token' \in BOOLEAN /\ fresh' \in BOOLEAN
<1> DEFINE text == Truncated(prompt)
           past == Reused(tokens, text)
           can  == CanRemoveFrom(memory, past)
<1>1. text \in Seq(Tokens) /\ Len(text) \in 1..(NCtx - 1)
  BY TruncatedFits
<1>2. text # <<>> BY <1>1
<1>3. past \in 0..(Len(text) - 1) BY <1>1, <1>2, ReusedFits
<1>4. /\ embd' = text
      /\ n_past' = IF can THEN past ELSE 0
      /\ kv' = IF can THEN SubSeq(memory, 1, Smaller(past, Len(memory))) ELSE <<>>
      /\ has_next_token' = TRUE
      /\ fresh' = InMemory(memory, text, past)
  BY DEF LoadPrompt
<1> HIDE DEF text, past, can
<1>5. Smaller(past, Len(memory)) \in 0..Len(memory) /\ Smaller(past, Len(memory)) <= past
  BY <1>1, <1>3 DEF Smaller
<1>6. /\ SubSeq(memory, 1, Smaller(past, Len(memory))) \in Seq(Tokens)
      /\ Len(SubSeq(memory, 1, Smaller(past, Len(memory)))) <= past
  BY <1>5
<1>7. kv' \in Seq(Tokens) /\ Len(kv') <= n_past' /\ n_past' \in 0..(Len(text) - 1)
  BY <1>1, <1>3, <1>4, <1>6
<1>8. fresh' \in BOOLEAN
  <2>1. InMemory(memory, text, past) \in BOOLEAN BY DEF InMemory
  <2> QED BY <1>4, <2>1
<1> QED BY <1>1, <1>4, <1>7, <1>8

(* Initially. *)
LEMMA InitBounds == Init => TypeOK /\ Bounds
<1>1. NCtx \in Nat /\ SizeMax \in Nat \ {0} /\ MaxCalls \in Nat
  BY CompletionAssumption DEF CompletionAssumption
<1> SUFFICES ASSUME Init PROVE TypeOK /\ Bounds OBVIOUS
<1>2. embd = <<>> /\ kv = <<>> /\ n_past = 0 /\ session = {} /\ pc = "idle"
  BY DEF Init
<1>3. TypeOK
  <2>1. embd \in Seq(Tokens) /\ kv \in Seq(Tokens) BY <1>2
  <2>2. call \in [kind : AllKinds \cup {"none"}, prompt : Seq(Tokens)]
    BY DEF Init
  <2>3. session \subseteq [tokens : Seq(Tokens), memory : Seq(Tokens)] BY <1>2
  <2>4. n_predict \in Int /\ n_remain \in 0..(SizeMax - 1) BY <1>1 DEF Init
  <2>5. calls \in 0..MaxCalls /\ late \in Nat /\ budget \in Nat BY <1>1 DEF Init
  <2>6. /\ has_next_token \in BOOLEAN /\ is_interrupted \in BOOLEAN
        /\ incomplete \in BOOLEAN /\ fresh \in BOOLEAN /\ logits \in BOOLEAN
        /\ split \in BOOLEAN /\ ending \in {"none", "ascii", "whole", "part"}
    BY DEF Init
  <2> QED BY <1>1, <1>2, <2>1, <2>2, <2>3, <2>4, <2>5, <2>6 DEF TypeOK
<1>4. Bounds BY <1>1, <1>2 DEF Bounds, WithinContext, SessionsFit, Evaluated
<1> QED BY <1>3, <1>4

(* The steps that only move the program counter. *)
LEMMA MovesKeepBounds ==
  ASSUME TypeOK, Bounds, EnterLoop \/ LeaveLoop \/ NoShift
  PROVE  TypeOK' /\ Bounds'
<1>1. NCtx \in Nat BY CompletionAssumption DEF CompletionAssumption
<1>2. UNCHANGED <<embd, kv, n_past, session>>
  BY DEF EnterLoop, LeaveLoop, NoShift, params
<1>3. pc' \in {"idle", "next", "decode", "sample"}
  BY DEF EnterLoop, LeaveLoop, NoShift, DecodeOrSample
<1>4. TypeOK'
  BY <1>3 DEF EnterLoop, LeaveLoop, NoShift, params, TypeOK
<1>5. Evaluated'
  <2>1. CASE EnterLoop BY <1>2, <2>1 DEF EnterLoop, Bounds, Evaluated
  <2>2. CASE LeaveLoop BY <1>2, <2>2 DEF LeaveLoop, Bounds, Evaluated
  <2>3. CASE NoShift
    <3>1. pc = "next" /\ Len(embd) < NCtx /\ pc' = DecodeOrSample(n_past, embd)
      BY <1>1, <2>3 DEF NoShift, ContextFull, TypeOK
    <3>2. n_past \in Nat /\ n_past <= Len(embd) /\ Len(kv) <= n_past
      BY <3>1 DEF Bounds, Evaluated
    <3>3. Len(embd) \in Nat BY DEF TypeOK
    <3>4. /\ pc' \in {"decode", "sample"}
          /\ pc' = "decode" => n_past < Len(embd)
          /\ pc' = "sample" => n_past = Len(embd)
      BY <3>1, <3>2, <3>3 DEF DecodeOrSample
    <3> QED BY <1>2, <3>1, <3>2, <3>4 DEF Evaluated
  <2> QED BY <2>1, <2>2, <2>3
<1>6. WithinContext' /\ SessionsFit'
  BY <1>2 DEF Bounds, WithinContext, SessionsFit
<1> QED BY <1>4, <1>5, <1>6 DEF Bounds

(* The ends of doCompletion that change no token. *)
LEMMA EndsKeepBounds ==
  ASSUME TypeOK, Bounds,
         StopWhenFull \/ DecodeFails \/ PredictNothing \/ SampleEnd
  PROVE  TypeOK' /\ Bounds'
<1>1. NCtx \in Nat BY CompletionAssumption DEF CompletionAssumption
<1>2. UNCHANGED <<embd, kv, n_past, is_interrupted, fresh, logits, budget, split, params>>
  BY DEF StopWhenFull, DecodeFails, PredictNothing, SampleEnd
<1>3. /\ ending' \in Ends /\ incomplete' \in BOOLEAN /\ has_next_token' \in BOOLEAN
      /\ n_remain' \in 0..(SizeMax - 1)
      /\ pc' \in {"loop", "close"}
  <2>1. ending \in Ends /\ "ascii" \in Ends /\ n_remain \in 0..(SizeMax - 1)
    BY DEF TypeOK, Ends
  <2>2. PICK text \in Ends, stopped \in BOOLEAN : Finish(FALSE, n_remain, text, stopped)
    BY <2>1 DEF StopWhenFull, DecodeFails, PredictNothing, SampleEnd
  <2> QED BY <2>1, <2>2, FinishType
<1>4. late' \in Nat
  <2>1. late \in Nat BY DEF TypeOK
  <2>2. CASE SampleEnd BY <2>1, <2>2 DEF SampleEnd, Began
  <2>3. CASE StopWhenFull \/ DecodeFails \/ PredictNothing
    BY <2>1, <2>3 DEF StopWhenFull, DecodeFails, PredictNothing
  <2> QED BY <2>2, <2>3
<1>5. TypeOK'
  BY <1>2, <1>3, <1>4 DEF TypeOK, params, Ends
<1>6. pc # "idle" /\ (CtxShift => Len(embd) < NCtx)
  <2>1. CASE StopWhenFull BY <2>1 DEF StopWhenFull
  <2>2. CASE DecodeFails BY <2>2 DEF DecodeFails, Bounds, Evaluated
  <2>3. CASE PredictNothing BY <2>3 DEF PredictNothing, Bounds, Evaluated
  <2>4. CASE SampleEnd BY <2>4 DEF SampleEnd, Bounds, Evaluated
  <2> QED BY <2>1, <2>2, <2>3, <2>4
<1>7. Evaluated'
  BY <1>1, <1>2, <1>3, <1>6 DEF Bounds, Evaluated, TypeOK
<1>8. WithinContext' /\ SessionsFit'
  BY <1>2 DEF Bounds, WithinContext, SessionsFit, params
<1> QED BY <1>5, <1>7, <1>8 DEF Bounds

(* A shift drops at least one token, and only tokens that were evaluated. *)
LEMMA ShiftDrops ==
  ASSUME TypeOK, Bounds, pc = "next", ContextFull, CtxShift
  PROVE  /\ Discarded \in Nat /\ Discarded >= 1
         /\ NKeep + 1 + Discarded <= n_past
         /\ Len(embd) = NCtx /\ n_past \in Nat /\ n_past <= NCtx
<1>1. NCtx \in Nat /\ NKeep \in Nat /\ NKeep <= NCtx - 4
  BY CompletionAssumption DEF CompletionAssumption
<1>2. Len(embd) \in Nat BY DEF TypeOK
<1>3. Len(embd) = NCtx BY <1>1, <1>2 DEF Bounds, WithinContext, ContextFull
<1>4. n_past \in Nat /\ n_past <= NCtx /\ n_past >= NCtx - 1
  BY <1>3 DEF Bounds, Evaluated
<1> QED BY <1>1, <1>3, <1>4 DEF Discarded

LEMMA ShiftKeepsBounds ==
  ASSUME TypeOK, Bounds, ShiftWorks, ShiftContext
  PROVE  TypeOK' /\ Bounds'
<1>1. NCtx \in Nat /\ NKeep \in Nat
  BY CompletionAssumption DEF CompletionAssumption
<1>2. /\ pc = "next" /\ ContextFull /\ CtxShift /\ PartialRemoval
      /\ embd' = Without(embd, NKeep + 1, Discarded)
      /\ kv' = Without(kv, NKeep + 1, Discarded)
      /\ n_past' = n_past - Discarded
      /\ pc' = DecodeOrSample(n_past', embd')
      /\ UNCHANGED <<n_remain, has_next_token, is_interrupted, incomplete, ending,
                     fresh, logits, late, budget, split, params>>
  BY DEF ShiftContext, ShiftWorks, FirstDropped
<1>3. /\ Discarded \in Nat /\ Discarded >= 1
      /\ NKeep + 1 + Discarded <= n_past
      /\ Len(embd) = NCtx /\ n_past \in Nat /\ n_past <= NCtx
  BY <1>2, ShiftDrops
<1>4. Len(kv) \in Nat /\ Len(kv) <= n_past
  BY <1>2 DEF Bounds, Evaluated, TypeOK
<1>5. embd' \in Seq(Tokens) /\ Len(embd') = NCtx - Discarded
  <2>1. embd \in Seq(Tokens) /\ NKeep + 1 \in Nat BY <1>1 DEF TypeOK
  <2>2. NKeep + 1 + Discarded <= Len(embd) BY <1>1, <1>3
  <2> QED BY <1>2, <1>3, <2>1, <2>2, WithoutType
<1>6. kv' \in Seq(Tokens) /\ Len(kv') <= n_past'
  <2>1. /\ kv' \in Seq(Tokens)
        /\ NKeep + 1 + Discarded <= Len(kv) => Len(kv') = Len(kv) - Discarded
        /\ Len(kv') <= NKeep + 1 \/ NKeep + 1 + Discarded <= Len(kv)
    <3>1. kv \in Seq(Tokens) /\ NKeep + 1 \in Nat BY <1>1 DEF TypeOK
    <3> QED BY <1>2, <1>3, <3>1, WithoutShrinks
  <2> QED BY <1>1, <1>2, <1>3, <1>4, <2>1
<1>7. n_past' \in Nat /\ n_past' <= Len(embd') /\ Len(embd') < NCtx /\ n_past' <= NCtx
  BY <1>1, <1>2, <1>3, <1>5
<1>8. pc' \in {"decode", "sample"} BY <1>2 DEF DecodeOrSample
<1>9. TypeOK'
  <2>1. UNCHANGED <<n_remain, has_next_token, is_interrupted, incomplete, ending,
                    fresh, logits, late, budget, split, n_predict, session, call, calls>>
    BY <1>2 DEF params
  <2>2. embd' \in Seq(Tokens) /\ kv' \in Seq(Tokens) /\ n_past' \in Int /\ n_past' <= NCtx
    BY <1>5, <1>6, <1>7
  <2> QED BY <1>8, <2>1, <2>2 DEF TypeOK
<1>10. Evaluated'
  BY <1>1, <1>2, <1>5, <1>6, <1>7, <1>8 DEF Evaluated, DecodeOrSample
<1>11. WithinContext' /\ SessionsFit'
  BY <1>1, <1>2, <1>5, <1>6, <1>7 DEF Bounds, WithinContext, SessionsFit, params
<1> QED BY <1>9, <1>10, <1>11 DEF Bounds

(* A batch moves tokens of embd to the memory. *)
LEMMA BatchType ==
  ASSUME TypeOK, Bounds, pc = "decode", NEW n, n = Smaller(NBatch, Len(embd) - n_past)
  PROVE  /\ n \in Nat /\ n >= 1 /\ n_past \in Nat /\ n_past + n <= Len(embd)
         /\ SubSeq(embd, n_past + 1, n_past + n) \in Seq(Tokens)
         /\ Len(SubSeq(embd, n_past + 1, n_past + n)) = n
<1>1. NBatch \in Nat \ {0} BY CompletionAssumption DEF CompletionAssumption
<1>2. embd \in Seq(Tokens) /\ Len(embd) \in Nat BY DEF TypeOK
<1>3. n_past \in Nat /\ n_past < Len(embd) BY DEF Bounds, Evaluated
<1>4. n \in Nat /\ n >= 1 /\ n_past + n <= Len(embd)
  BY <1>1, <1>2, <1>3 DEF Smaller
<1>5. /\ SubSeq(embd, n_past + 1, n_past + n) \in Seq(Tokens)
      /\ Len(SubSeq(embd, n_past + 1, n_past + n)) = n
  BY <1>2, <1>3, <1>4
<1> QED BY <1>3, <1>4, <1>5

LEMMA BatchKeepsBounds ==
  ASSUME TypeOK, Bounds, DecodeBatch
  PROVE  TypeOK' /\ Bounds'
<1> DEFINE n == Smaller(NBatch, Len(embd) - n_past)
           batch == SubSeq(embd, n_past + 1, n_past + n)
<1> HIDE DEF n
<1>0. n = Smaller(NBatch, Len(embd) - n_past) BY DEF n
<1>1. NCtx \in Nat BY CompletionAssumption DEF CompletionAssumption
<1>2. /\ embd \in Seq(Tokens) /\ kv \in Seq(Tokens) /\ Len(embd) \in Nat /\ Len(kv) \in Nat
      /\ late \in Nat /\ ending \in Ends /\ n_remain \in 0..(SizeMax - 1)
  BY DEF TypeOK, Ends
<1>3. /\ pc = "decode" /\ kv' = kv \o batch /\ n_past' = n_past + n /\ logits' = TRUE
      /\ UNCHANGED <<is_interrupted, fresh, budget, split, n_predict, session, call, calls>>
  BY <1>0 DEF DecodeBatch, params
<1>4. /\ n \in Nat /\ n >= 1 /\ n_past \in Nat /\ n_past + n <= Len(embd)
      /\ batch \in Seq(Tokens) /\ Len(batch) = n
  BY <1>0, <1>3, BatchType
<1>5. late' \in Nat
  <2>1. late' = late \/ late' = late + 1 BY DEF DecodeBatch, Began
  <2> QED BY <1>2, <2>1
<1>6. Len(embd) < NCtx /\ Len(kv) <= n_past
  BY <1>3 DEF Bounds, Evaluated
<1>7. IF is_interrupted
        THEN embd' = SubSeq(embd, 1, n_past') /\ Finish(FALSE, n_remain, ending, FALSE)
        ELSE /\ pc' = DecodeOrSample(n_past', embd)
             /\ UNCHANGED <<embd, n_remain, has_next_token, incomplete, ending>>
  BY DEF DecodeBatch, StopsDecoding
<1> HIDE DEF batch
<1>8. kv' \in Seq(Tokens) /\ Len(kv') = Len(kv) + n
  BY <1>2, <1>3, <1>4, JoinType
<1>9. n_past' \in Nat /\ n_past' <= Len(embd) /\ Len(kv') <= n_past'
  BY <1>2, <1>3, <1>4, <1>6, <1>8
<1>10. /\ embd' \in Seq(Tokens) /\ n_past' <= Len(embd') /\ Len(embd') < NCtx
       /\ pc' \in {"loop", "close", "decode", "sample"}
       /\ pc' \in {"loop", "sample"} => n_past' = Len(embd')
       /\ pc' = "decode" => n_past' < Len(embd')
       /\ ending' \in Ends /\ incomplete' \in BOOLEAN /\ has_next_token' \in BOOLEAN
       /\ n_remain' \in 0..(SizeMax - 1)
  <2>1. CASE is_interrupted
    <3>1. embd' = SubSeq(embd, 1, n_past') /\ Finish(FALSE, n_remain, ending, FALSE)
      BY <1>7, <2>1
    <3>2. embd' \in Seq(Tokens) /\ Len(embd') = n_past'
      BY <1>2, <1>9, <3>1, StartType
    <3>3. /\ ending' \in Ends /\ incomplete' \in BOOLEAN /\ has_next_token' \in BOOLEAN
          /\ n_remain' \in 0..(SizeMax - 1) /\ pc' \in {"loop", "close"}
      BY <1>2, <3>1, FinishType
    <3> QED BY <1>1, <1>2, <1>6, <1>9, <3>2, <3>3
  <2>2. CASE ~is_interrupted
    <3>1. /\ pc' = DecodeOrSample(n_past', embd)
          /\ UNCHANGED <<embd, n_remain, has_next_token, incomplete, ending>>
      BY <1>7, <2>2
    <3>2. /\ pc' \in {"decode", "sample"}
          /\ pc' = "decode" => n_past' < Len(embd)
          /\ pc' = "sample" => n_past' = Len(embd)
      BY <1>2, <1>9, <3>1 DEF DecodeOrSample
    <3>3. incomplete \in BOOLEAN /\ has_next_token \in BOOLEAN BY DEF TypeOK
    <3> QED BY <1>2, <1>6, <1>9, <3>1, <3>2, <3>3
  <2> QED BY <2>1, <2>2
<1>11. TypeOK'
  <2>1. n_past' \in Int /\ n_past' <= NCtx BY <1>1, <1>2, <1>6, <1>9
  <2> QED BY <1>3, <1>5, <1>8, <1>10, <2>1 DEF TypeOK, Ends
<1>12. Evaluated' BY <1>1, <1>9, <1>10 DEF Evaluated
<1>13. WithinContext' /\ SessionsFit'
  <2>1. Len(embd') <= NCtx /\ Len(kv') <= NCtx
    BY <1>1, <1>2, <1>6, <1>8, <1>9, <1>10
  <2> QED BY <1>3, <2>1 DEF Bounds, WithinContext, SessionsFit
<1> QED BY <1>11, <1>12, <1>13 DEF Bounds

LEMMA SampleKeepsBounds ==
  ASSUME TypeOK, Bounds, NEW token \in Tokens, SampleToken(token)
  PROVE  TypeOK' /\ Bounds'
<1>1. NCtx \in Nat /\ SizeMax \in Nat \ {0} /\ CharKind[token] \in {"ascii", "whole", "lead", "tail"}
  BY CompletionAssumption DEF CompletionAssumption
<1>2. /\ embd \in Seq(Tokens) /\ Len(embd) \in Nat /\ Len(kv) \in Nat /\ ending \in Ends
      /\ late \in Nat /\ budget \in Nat /\ split \in BOOLEAN /\ n_remain \in 0..(SizeMax - 1)
  BY DEF TypeOK, Ends
<1>3. /\ pc = "sample" /\ embd' = Append(embd, token)
      /\ UNCHANGED <<kv, n_past, is_interrupted, fresh, logits, n_predict, session, call, calls>>
  BY DEF SampleToken, params
<1>4. Len(embd) < NCtx /\ n_past = Len(embd) /\ Len(kv) <= n_past
  BY <1>3 DEF Bounds, Evaluated
<1>5. embd' \in Seq(Tokens) /\ Len(embd') = Len(embd) + 1
  BY <1>2, <1>3
<1>6. /\ ending' \in Ends /\ incomplete' \in BOOLEAN /\ has_next_token' \in BOOLEAN
      /\ n_remain' \in 0..(SizeMax - 1)
      /\ pc' \in {"loop", "close"}
  <2>1. AsSize(n_remain - 1) \in 0..(SizeMax - 1) BY <1>1, <1>2 DEF AsSize
  <2>2. BudgetLeft(AsSize(n_remain - 1)) \in BOOLEAN BY DEF BudgetLeft
  <2>3. Ending(ending, token) \in Ends BY <1>1, <1>2 DEF Ending, Ends
  <2>4. PICK stopped \in BOOLEAN :
          Finish(BudgetLeft(AsSize(n_remain - 1)), AsSize(n_remain - 1),
                 Ending(ending, token), stopped)
    BY DEF SampleToken
  <2> QED BY <2>1, <2>2, <2>3, <2>4, FinishType
<1>7. late' \in Nat /\ budget' \in Nat /\ split' \in BOOLEAN
  <2>1. late' = late \/ late' = late + 1 BY DEF SampleToken, Began
  <2>2. budget' = IF budget > 0 THEN budget - 1 ELSE 0 BY DEF SampleToken
  <2>3. split' \in BOOLEAN BY <1>2 DEF SampleToken
  <2> QED BY <1>2, <2>1, <2>2, <2>3
<1>8. TypeOK' BY <1>3, <1>5, <1>6, <1>7 DEF TypeOK, Ends
<1>9. Evaluated' BY <1>1, <1>2, <1>3, <1>4, <1>5, <1>6 DEF Evaluated
<1>10. WithinContext' /\ SessionsFit'
  BY <1>1, <1>2, <1>3, <1>4, <1>5 DEF Bounds, WithinContext, SessionsFit
<1> QED BY <1>8, <1>9, <1>10 DEF Bounds

LEMMA CloseKeepsBounds ==
  ASSUME TypeOK, Bounds, Close \/ Stop
  PROVE  TypeOK' /\ Bounds'
<1>1. NCtx \in Nat BY CompletionAssumption DEF CompletionAssumption
<1>2. CASE Close
  <2>1. kv' = kv \/ kv' = <<>> BY <1>2 DEF Close
  <2>2. kv' \in Seq(Tokens) /\ Len(kv') <= Len(kv)
    <3>1. kv \in Seq(Tokens) /\ Len(kv) \in Nat BY DEF TypeOK
    <3>2. <<>> \in Seq(Tokens) /\ Len(<<>>) = 0 OBVIOUS
    <3>3. CASE kv' = kv BY <3>1, <3>3
    <3>4. CASE kv' = <<>> BY <3>1, <3>2, <3>4
    <3> QED BY <2>1, <3>3, <3>4
  <2>3. TypeOK'
    <3>1. pc' = "idle" BY <1>2 DEF Close
    <3>2. UNCHANGED <<embd, n_past, n_remain, has_next_token, is_interrupted, incomplete,
                      ending, fresh, logits, late, budget, split, n_predict, session, call, calls>>
      BY <1>2 DEF Close, params
    <3> QED BY <2>2, <3>1, <3>2 DEF TypeOK
  <2>4. Bounds'
    <3>1. Len(kv) \in Nat /\ Len(kv') \in Nat BY <2>2 DEF TypeOK
    <3> QED BY <1>1, <1>2, <2>2, <3>1
            DEF Close, Bounds, WithinContext, SessionsFit, Evaluated, params
  <2> QED BY <2>3, <2>4
<1>3. CASE Stop
  <2>1. TypeOK' BY <1>3 DEF Stop, TypeOK, params
  <2>2. Bounds' BY <1>3 DEF Stop, Bounds, WithinContext, SessionsFit, Evaluated, params
  <2> QED BY <2>1, <2>2
<1> QED BY <1>2, <1>3

(* rewind leaves the flags of the call well-typed. *)
LEMMA RewoundType ==
  ASSUME TypeOK, NEW kind \in AllKinds, NEW prompt \in Seq(Tokens),
         NEW asked \in Int \cup {Unset}, Rewound(kind, prompt, asked)
  PROVE  /\ call' \in [kind : AllKinds \cup {"none"}, prompt : Seq(Tokens)]
         /\ n_predict' \in Int /\ n_remain' \in 0..(SizeMax - 1)
         /\ budget' \in Nat /\ late' \in Nat
         /\ is_interrupted' \in BOOLEAN /\ incomplete' \in BOOLEAN /\ logits' \in BOOLEAN
         /\ ending' \in Ends /\ split' \in BOOLEAN
<1>1. SizeMax \in Nat \ {0} BY CompletionAssumption DEF CompletionAssumption
<1>2. n_predict' \in Int
  <2>1. n_predict' = IF asked = Unset THEN n_predict ELSE asked BY DEF Rewound
  <2>2. n_predict \in Int BY DEF TypeOK
  <2> QED BY <2>1, <2>2
<1>3. n_remain' \in 0..(SizeMax - 1)
  <2>1. n_remain' = n_predict' % SizeMax BY DEF Rewound, AsSize
  <2>2. \A i \in Int : i % SizeMax \in 0..(SizeMax - 1) BY <1>1
  <2> QED BY <1>2, <2>1, <2>2
<1>4. budget' \in Nat
  <2>1. budget' = IF n_predict' > 0 THEN n_predict' ELSE 0 BY DEF Rewound
  <2> QED BY <1>2, <2>1
<1>5. call' \in [kind : AllKinds \cup {"none"}, prompt : Seq(Tokens)]
  BY DEF Rewound
<1>6. /\ late' \in Nat /\ is_interrupted' \in BOOLEAN /\ incomplete' \in BOOLEAN
      /\ logits' \in BOOLEAN /\ ending' \in Ends /\ split' \in BOOLEAN
  BY DEF Rewound, Ends
<1> QED BY <1>2, <1>3, <1>4, <1>5, <1>6

(* loadPrompt, or its refusal, from tokens and a memory that fit. *)
LEMMA LoadedBounds ==
  ASSUME TypeOK, Bounds, NEW prompt \in Seq(Tokens), prompt # <<>>,
         NEW tokens \in Seq(Tokens), NEW memory \in Seq(Tokens),
         Len(tokens) <= NCtx, Len(memory) <= NCtx,
         IF TooLong(prompt)
           THEN RefusePrompt(tokens, memory) /\ (pc' = "idle" \/ (memory = <<>> /\ pc' = "next"))
           ELSE LoadPrompt(prompt, tokens, memory) /\ pc' \in {"loop", "next"},
         UNCHANGED session
  PROVE  /\ embd' \in Seq(Tokens) /\ kv' \in Seq(Tokens)
         /\ n_past' \in Int /\ n_past' <= NCtx
         /\ has_next_token' \in BOOLEAN /\ fresh' \in BOOLEAN
         /\ pc' \in {"idle", "loop", "next"}
         /\ Bounds'
<1>1. NCtx \in Nat BY CompletionAssumption DEF CompletionAssumption
<1>2. CASE TooLong(prompt)
  <2>1. /\ embd' = tokens /\ kv' = memory /\ n_past' = 0 /\ fresh' = TRUE
        /\ has_next_token' = has_next_token /\ ~CtxShift
        /\ pc' = "idle" \/ (memory = <<>> /\ pc' = "next")
    BY <1>2 DEF RefusePrompt, TooLong
  <2>2. has_next_token' \in BOOLEAN BY <2>1 DEF TypeOK
  <2>3. Len(tokens) \in Nat /\ Len(memory) \in Nat OBVIOUS
  <2>4. Evaluated' BY <2>1, <2>3 DEF Evaluated
  <2>5. WithinContext' /\ SessionsFit' BY <2>1 DEF Bounds, WithinContext, SessionsFit
  <2> QED BY <1>1, <2>1, <2>2, <2>4, <2>5 DEF Bounds
<1>3. CASE ~TooLong(prompt)
  <2>1. LoadPrompt(prompt, tokens, memory) /\ pc' \in {"loop", "next"}
    BY <1>3
  <2>2. /\ embd' \in Seq(Tokens) /\ kv' \in Seq(Tokens)
        /\ Len(embd') \in 1..(NCtx - 1)
        /\ n_past' \in 0..(Len(embd') - 1)
        /\ Len(kv') <= n_past'
        /\ has_next_token' \in BOOLEAN /\ fresh' \in BOOLEAN
    BY <2>1, LoadPromptType
  <2>3. Evaluated' BY <1>1, <2>1, <2>2 DEF Evaluated
  <2>4. Len(kv') \in Nat BY <2>2
  <2>5. WithinContext' /\ SessionsFit'
    BY <1>1, <2>2, <2>4 DEF Bounds, WithinContext, SessionsFit
  <2> QED BY <1>1, <2>1, <2>2, <2>3, <2>5 DEF Bounds
<1> QED BY <1>2, <1>3

LEMMA StartKeepsBounds ==
  ASSUME TypeOK, Bounds, TextGiven, NEW prompt \in Prompts,
         \/ \E asked \in Predicts : StartCompletion(prompt, asked)
         \/ StartEmbedding(prompt)
         \/ StartRerank(prompt)
  PROVE  TypeOK' /\ Bounds'
<1>1. /\ NCtx \in Nat /\ MaxCalls \in Nat
      /\ prompt \in Seq(Tokens) /\ Predicts \subseteq Int \cup {Unset}
  BY CompletionAssumption DEF CompletionAssumption
<1>2. prompt # <<>> BY DEF TextGiven
<1>3. /\ embd \in Seq(Tokens) /\ kv \in Seq(Tokens) /\ calls \in 0..MaxCalls
      /\ session \subseteq [tokens : Seq(Tokens), memory : Seq(Tokens)]
      /\ Len(embd) <= NCtx /\ Len(kv) <= NCtx
      /\ <<>> \in Seq(Tokens) /\ Len(<<>>) = 0
  BY DEF TypeOK, Bounds, WithinContext
<1>4. calls' \in 0..MaxCalls /\ session' = session
  <2>1. calls < MaxCalls /\ calls' = calls + 1 /\ session' = session
    BY DEF StartCompletion, StartEmbedding, StartRerank, Counted
  <2> QED BY <1>1, <1>3, <2>1
<1>5. PICK kind \in AllKinds, asked \in Int \cup {Unset} : Rewound(kind, prompt, asked)
  <2>1. CASE \E a \in Predicts : StartCompletion(prompt, a)
    <3>1. PICK a \in Predicts : Rewound("completion", prompt, a) BY <2>1 DEF StartCompletion
    <3> QED BY <1>1, <3>1 DEF AllKinds
  <2>2. CASE StartEmbedding(prompt)
    <3>1. Rewound("embedding", prompt, 0) BY <2>2 DEF StartEmbedding
    <3> QED BY <3>1 DEF AllKinds
  <2>3. CASE StartRerank(prompt)
    <3>1. Rewound("rerank", prompt, Unset) BY <2>3 DEF StartRerank
    <3> QED BY <3>1 DEF AllKinds
  <2> QED BY <2>1, <2>2, <2>3
<1>6. /\ call' \in [kind : AllKinds \cup {"none"}, prompt : Seq(Tokens)]
      /\ n_predict' \in Int /\ n_remain' \in 0..(SizeMax - 1)
      /\ budget' \in Nat /\ late' \in Nat
      /\ is_interrupted' \in BOOLEAN /\ incomplete' \in BOOLEAN /\ logits' \in BOOLEAN
      /\ ending' \in Ends /\ split' \in BOOLEAN
  BY <1>1, <1>5, RewoundType
<1> DEFINE Loaded(tokens, memory) ==
      IF TooLong(prompt)
        THEN RefusePrompt(tokens, memory) /\ (pc' = "idle" \/ (memory = <<>> /\ pc' = "next"))
        ELSE LoadPrompt(prompt, tokens, memory) /\ pc' \in {"loop", "next"}
<1>7. PICK tokens \in {embd, <<>>}, memory \in {kv, <<>>} : Loaded(tokens, memory)
  <2>1. CASE \E a \in Predicts : StartCompletion(prompt, a)
    <3>1. IF TooLong(prompt)
            THEN RefusePrompt(embd, kv) /\ pc' = "idle"
            ELSE LoadPrompt(prompt, embd, kv) /\ pc' = "loop"
      BY <2>1 DEF StartCompletion
    <3>2. Loaded(embd, kv) BY <3>1
    <3> QED BY <3>2
  <2>2. CASE StartEmbedding(prompt)
    <3>1. /\ IF TooLong(prompt) THEN RefusePrompt(embd, <<>>) ELSE LoadPrompt(prompt, embd, <<>>)
          /\ pc' = "next"
      BY <2>2 DEF StartEmbedding
    <3>2. CASE TooLong(prompt)
      <4>1. RefusePrompt(embd, <<>>) BY <3>1, <3>2
      <4> QED BY <3>1, <3>2, <4>1
    <3>3. CASE ~TooLong(prompt)
      <4>1. LoadPrompt(prompt, embd, <<>>) BY <3>1, <3>3
      <4> QED BY <3>1, <3>3, <4>1
    <3> QED BY <3>2, <3>3
  <2>3. CASE StartRerank(prompt)
    <3>1. /\ IF TooLong(prompt) THEN RefusePrompt(<<>>, <<>>) ELSE LoadPrompt(prompt, <<>>, <<>>)
          /\ pc' = "next"
      BY <2>3 DEF StartRerank
    <3>2. Loaded(<<>>, <<>>) BY <3>1
    <3> QED BY <3>2
  <2> QED BY <2>1, <2>2, <2>3
<1>8. /\ tokens \in Seq(Tokens) /\ memory \in Seq(Tokens)
      /\ Len(tokens) <= NCtx /\ Len(memory) <= NCtx
  <2>1. tokens \in Seq(Tokens) /\ Len(tokens) <= NCtx
    <3>1. CASE tokens = embd BY <1>3, <3>1
    <3>2. CASE tokens = <<>> BY <1>1, <1>3, <3>2
    <3> QED BY <3>1, <3>2
  <2>2. memory \in Seq(Tokens) /\ Len(memory) <= NCtx
    <3>1. CASE memory = kv BY <1>3, <3>1
    <3>2. CASE memory = <<>> BY <1>1, <1>3, <3>2
    <3> QED BY <3>1, <3>2
  <2> QED BY <2>1, <2>2
<1>9. /\ embd' \in Seq(Tokens) /\ kv' \in Seq(Tokens)
      /\ n_past' \in Int /\ n_past' <= NCtx
      /\ has_next_token' \in BOOLEAN /\ fresh' \in BOOLEAN
      /\ pc' \in {"idle", "loop", "next"}
      /\ Bounds'
  BY <1>1, <1>2, <1>4, <1>7, <1>8, LoadedBounds
<1>10. TypeOK' BY <1>3, <1>4, <1>6, <1>9 DEF TypeOK, Ends
<1> QED BY <1>9, <1>10

(* A completion that fails before loadPrompt keeps the tokens and the memory. *)
LEMMA FailKeepsBounds ==
  ASSUME TypeOK, Bounds, NEW asked \in Predicts \cup {Unset}, FailCompletion(asked)
  PROVE  TypeOK' /\ Bounds'
<1>1. /\ NCtx \in Nat /\ MaxCalls \in Nat /\ SizeMax \in Nat \ {0}
      /\ Predicts \subseteq Int \cup {Unset}
  BY CompletionAssumption DEF CompletionAssumption
<1>2. /\ pc' = "idle" /\ calls < MaxCalls /\ calls' = calls + 1
      /\ call' = [kind |-> "completion", prompt |-> <<>>]
      /\ n_past' = 0 /\ n_remain' = 0 /\ budget' = 0 /\ late' = 0 /\ ending' = "none"
      /\ is_interrupted' = FALSE /\ incomplete' = FALSE /\ logits' = FALSE /\ split' = FALSE
      /\ UNCHANGED <<embd, kv, has_next_token, fresh, session>>
  BY DEF FailCompletion, Counted
<1>3. n_predict' \in Int
  <2>1. n_predict' = IF asked = Unset THEN n_predict ELSE asked BY DEF FailCompletion
  <2> QED BY <1>1, <2>1 DEF TypeOK
<1>4. call' \in [kind : AllKinds \cup {"none"}, prompt : Seq(Tokens)]
  <2>1. "completion" \in AllKinds BY DEF AllKinds
  <2> QED BY <1>2, <2>1
<1>5. calls' \in 0..MaxCalls
  <2>1. calls \in 0..MaxCalls BY DEF TypeOK
  <2> QED BY <1>1, <1>2, <2>1
<1>6. TypeOK'
  <2>1. /\ is_interrupted' \in BOOLEAN /\ incomplete' \in BOOLEAN /\ logits' \in BOOLEAN
        /\ split' \in BOOLEAN
    BY <1>2
  <2>2. /\ n_past' \in Int /\ n_past' <= NCtx /\ n_remain' \in 0..(SizeMax - 1)
        /\ budget' \in Nat /\ late' \in Nat
    BY <1>1, <1>2
  <2>3. /\ embd' = embd /\ kv' = kv /\ has_next_token' = has_next_token /\ fresh' = fresh
        /\ session' = session /\ pc' = "idle" /\ ending' = "none"
    BY <1>2
  <2> QED BY <1>3, <1>4, <1>5, <2>1, <2>2, <2>3 DEF TypeOK
<1>7. Evaluated' BY <1>2 DEF Evaluated
<1> QED BY <1>2, <1>6, <1>7 DEF Bounds, WithinContext, SessionsFit

(* The calls that decode nothing find no call running and leave none. *)
LEMMA BetweenKeepsBounds ==
  ASSUME TypeOK, Bounds, Bench \/ ClearCache \/ SaveSession \/ LoadSession \/ LoadSessionFails
  PROVE  TypeOK' /\ Bounds'
<1>1. NCtx \in Nat /\ MaxCalls \in Nat
  BY CompletionAssumption DEF CompletionAssumption
<1>2. PICK kind \in AllKinds : Between(kind)
  BY DEF Bench, ClearCache, SaveSession, LoadSession, LoadSessionFails, AllKinds
<1>3. /\ pc = "idle" /\ calls < MaxCalls /\ calls' = calls + 1
      /\ call' = [kind |-> kind, prompt |-> <<>>]
      /\ UNCHANGED <<n_predict, n_remain, has_next_token, is_interrupted, incomplete,
                     ending, pc, fresh, logits, late, budget, split>>
  BY <1>2 DEF Between, Counted
<1>4. /\ embd \in Seq(Tokens) /\ kv \in Seq(Tokens) /\ n_past \in Int /\ n_past <= NCtx
      /\ session \subseteq [tokens : Seq(Tokens), memory : Seq(Tokens)]
      /\ Len(embd) \in Nat /\ Len(embd) <= NCtx /\ Len(kv) <= NCtx
      /\ \A file \in session : Len(file.tokens) <= NCtx /\ Len(file.memory) <= NCtx
      /\ <<>> \in Seq(Tokens) /\ Len(<<>>) = 0
  BY DEF TypeOK, Bounds, WithinContext, SessionsFit
<1>5. /\ embd' \in Seq(Tokens) /\ kv' \in Seq(Tokens) /\ n_past' \in Int /\ n_past' <= NCtx
      /\ session' \subseteq [tokens : Seq(Tokens), memory : Seq(Tokens)]
      /\ Len(embd') <= NCtx /\ Len(kv') <= NCtx
      /\ \A file \in session' : Len(file.tokens) <= NCtx /\ Len(file.memory) <= NCtx
  <2>1. CASE Bench
    <3>1. kv' = <<>> /\ UNCHANGED <<embd, n_past, session>> BY <2>1 DEF Bench
    <3> QED BY <1>1, <1>4, <3>1
  <2>2. CASE ClearCache
    <3>1. kv' = <<>> /\ embd' = <<>> /\ n_past' = 0 /\ session' = session
      BY <2>2 DEF ClearCache
    <3> QED BY <1>1, <1>4, <3>1
  <2>3. CASE SaveSession
    <3>1. UNCHANGED <<embd, kv, n_past>> BY <2>3 DEF SaveSession
    <3>2. PICK size \in 1..Len(embd) :
            session' = {[tokens |-> SubSeq(embd, 1, size), memory |-> kv]}
      BY <2>3 DEF SaveSession
    <3>3. size \in Nat /\ size <= Len(embd) BY <1>4
    <3>4. SubSeq(embd, 1, size) \in Seq(Tokens) /\ Len(SubSeq(embd, 1, size)) = size
      BY <1>4, <3>3, StartType
    <3>5. Len(SubSeq(embd, 1, size)) <= NCtx BY <1>1, <1>4, <3>3, <3>4
    <3> DEFINE start == SubSeq(embd, 1, size)
    <3> HIDE DEF start
    <3>6. session' = {[tokens |-> start, memory |-> kv]} BY <3>2 DEF start
    <3>7. start \in Seq(Tokens) /\ Len(start) <= NCtx BY <3>4, <3>5 DEF start
    <3> QED BY <1>4, <3>1, <3>6, <3>7
  <2>4. CASE LoadSession
    <3>1. PICK file \in session : embd' = file.tokens /\ kv' = file.memory
      BY <2>4 DEF LoadSession
    <3>2. UNCHANGED <<n_past, session>> BY <2>4 DEF LoadSession
    <3>3. file.tokens \in Seq(Tokens) /\ file.memory \in Seq(Tokens) BY <1>4
    <3> QED BY <1>4, <3>1, <3>2, <3>3
  <2>5. CASE LoadSessionFails
    <3>1. UNCHANGED <<kv, n_past, session>> BY <2>5 DEF LoadSessionFails
    <3>2. PICK zero \in Tokens :
            embd' = [i \in 1..NCtx |-> IF i <= Len(embd) THEN embd[i] ELSE zero]
      BY <2>5 DEF LoadSessionFails
    <3>3. \A i \in 1..NCtx : (IF i <= Len(embd) THEN embd[i] ELSE zero) \in Tokens
      BY <1>1, <1>4
    <3>4. embd' \in Seq(Tokens) /\ Len(embd') = NCtx BY <1>1, <3>2, <3>3
    <3> QED BY <1>1, <1>4, <3>1, <3>4
  <2> QED BY <2>1, <2>2, <2>3, <2>4, <2>5
<1>6. call' \in [kind : AllKinds \cup {"none"}, prompt : Seq(Tokens)]
  BY <1>3, <1>4
<1>7. calls' \in 0..MaxCalls
  <2>1. calls \in 0..MaxCalls BY DEF TypeOK
  <2> QED BY <1>1, <1>3, <2>1
<1>8. TypeOK' BY <1>3, <1>5, <1>6, <1>7 DEF TypeOK
<1>9. Evaluated' BY <1>3 DEF Evaluated
<1> QED BY <1>5, <1>8, <1>9 DEF Bounds, WithinContext, SessionsFit

LEMMA StepKeepsBounds ==
  ASSUME TextGiven, ShiftWorks, TypeOK, Bounds, [Next]_vars
  PROVE  TypeOK' /\ Bounds'
<1>1. CASE \E prompt \in Prompts :
             \/ \E asked \in Predicts : StartCompletion(prompt, asked)
             \/ StartEmbedding(prompt)
             \/ StartRerank(prompt)
  BY <1>1, StartKeepsBounds
<1>2. CASE EnterLoop \/ LeaveLoop \/ NoShift BY <1>2, MovesKeepBounds
<1>3. CASE StopWhenFull \/ DecodeFails \/ PredictNothing \/ SampleEnd
  BY <1>3, EndsKeepBounds
<1>4. CASE ShiftContext BY <1>4, ShiftKeepsBounds
<1>5. CASE DecodeBatch BY <1>5, BatchKeepsBounds
<1>6. CASE \E token \in Tokens : SampleToken(token) BY <1>6, SampleKeepsBounds
<1>7. CASE Close \/ Stop BY <1>7, CloseKeepsBounds
<1>8. CASE Bench \/ ClearCache \/ SaveSession \/ LoadSession \/ LoadSessionFails
  BY <1>8, BetweenKeepsBounds
<1>9. CASE UNCHANGED vars
  <2>1. UNCHANGED <<embd, kv, n_past, n_remain, has_next_token, is_interrupted, incomplete,
                    ending, pc, fresh, logits, late, budget, split, n_predict, session, call, calls>>
    BY <1>9 DEF vars, params
  <2>2. TypeOK' BY <2>1 DEF TypeOK
  <2>3. Bounds' BY <2>1 DEF Bounds, WithinContext, SessionsFit, Evaluated
  <2> QED BY <2>2, <2>3
<1>10. CASE \E asked \in Predicts \cup {Unset} : FailCompletion(asked)
  BY <1>10, FailKeepsBounds
<1> QED BY <1>1, <1>2, <1>3, <1>4, <1>5, <1>6, <1>7, <1>8, <1>9, <1>10 DEF Next, Run

(* Every variable keeps its type, whatever is called in whatever order. *)
THEOREM CompletionTypes ==
  ASSUME TextGiven, ShiftWorks PROVE Spec => []TypeOK
<1>1. Init => TypeOK /\ Bounds BY InitBounds
<1>2. TypeOK /\ Bounds /\ [Next]_vars => TypeOK' /\ Bounds' BY StepKeepsBounds
<1> QED BY <1>1, <1>2, PTL DEF Spec

(* Neither the tokens nor the memory ever outgrow the context: prompts are   *)
(* cut to fit, and a full context is shifted or refused before a token more. *)
THEOREM ContextNotExceeded ==
  ASSUME TextGiven, ShiftWorks PROVE Spec => []WithinContext
<1>1. Init => TypeOK /\ Bounds BY InitBounds
<1>2. TypeOK /\ Bounds /\ [Next]_vars => TypeOK' /\ Bounds' BY StepKeepsBounds
<1>3. TypeOK /\ Bounds => WithinContext BY DEF Bounds
<1> QED BY <1>1, <1>2, <1>3, PTL DEF Spec

-----------------------------------------------------------------------------
(* A stop lets one more batch or token begin: the count is 0 wherever one   *)
(* may still begin, and 1 only with the flag up that keeps the loop from    *)
(* going on.                                                                *)
OneLate ==
  \/ late = 0
  \/ late = 1 /\ is_interrupted /\ pc \in {"idle", "loop", "close"}

THEOREM StopIsTaken == Spec => []StopTakesEffect
<1>1. Init => OneLate BY DEF Init, OneLate
<1>2. OneLate /\ [Next]_vars => OneLate'
  <2> SUFFICES ASSUME OneLate, [Next]_vars PROVE OneLate' OBVIOUS
  <2>1. ASSUME NEW kind, NEW prompt, NEW asked, Rewound(kind, prompt, asked) PROVE OneLate'
    BY <2>1 DEF Rewound, OneLate
  <2>2. ASSUME NEW kind, Between(kind) PROVE OneLate'
    BY <2>2 DEF Between, OneLate
  <2>3. ASSUME pc' \in {"loop", "close"}, pc \in {"decode", "sample"}, Began,
               is_interrupted' = is_interrupted
        PROVE  OneLate'
    BY <2>3 DEF Began, OneLate
  <2>4. ASSUME pc' \in {"loop", "close"}, pc \in {"next", "decode", "sample"}, late' = late
        PROVE  OneLate'
    BY <2>4 DEF OneLate
  <2>5. CASE \E prompt \in Prompts :
               \/ \E asked \in Predicts : StartCompletion(prompt, asked)
               \/ StartEmbedding(prompt)
               \/ StartRerank(prompt)
    BY <2>1, <2>5 DEF StartCompletion, StartEmbedding, StartRerank
  <2>6. CASE EnterLoop BY <2>6 DEF EnterLoop, LoopGoesOn, OneLate
  <2>7. CASE LeaveLoop BY <2>7 DEF LeaveLoop, OneLate
  <2>8. CASE NoShift BY <2>8 DEF NoShift, OneLate
  <2>9. CASE ShiftContext BY <2>9 DEF ShiftContext, OneLate
  <2>10. CASE StopWhenFull BY <2>4, <2>10 DEF StopWhenFull, Finish
  <2>11. CASE DecodeFails BY <2>4, <2>11 DEF DecodeFails, Finish
  <2>12. CASE PredictNothing
    <3>1. pc = "sample" /\ pc' \in {"loop", "close"} /\ late' = late
      BY <2>12 DEF PredictNothing, Finish
    <3> QED BY <2>4, <3>1
  <2>13. CASE SampleEnd BY <2>3, <2>13 DEF SampleEnd, Finish
  <2>14. CASE \E token \in Tokens : SampleToken(token)
    <3>1. pc = "sample" /\ pc' \in {"loop", "close"} /\ Began /\ is_interrupted' = is_interrupted
      BY <2>14 DEF SampleToken, Finish
    <3> QED BY <2>3, <3>1
  <2>15. CASE DecodeBatch
    <3>1. pc = "decode" /\ Began /\ is_interrupted' = is_interrupted
      BY <2>15 DEF DecodeBatch
    <3>2. CASE is_interrupted
      <4>1. pc' \in {"loop", "close"} BY <2>15, <3>2 DEF DecodeBatch, StopsDecoding, Finish
      <4> QED BY <2>3, <3>1, <4>1
    <3>3. CASE ~is_interrupted BY <3>1, <3>3 DEF Began, OneLate
    <3> QED BY <3>2, <3>3
  <2>16. CASE Close BY <2>16 DEF Close, OneLate
  <2>17. CASE Stop BY <2>17 DEF Stop, OneLate
  <2>18. CASE Bench \/ ClearCache \/ SaveSession \/ LoadSession \/ LoadSessionFails
    BY <2>2, <2>18 DEF Bench, ClearCache, SaveSession, LoadSession, LoadSessionFails
  <2>19. CASE UNCHANGED vars BY <2>19 DEF vars, OneLate
  <2>20. CASE \E asked \in Predicts \cup {Unset} : FailCompletion(asked)
    BY <2>20 DEF FailCompletion, OneLate
  <2> QED BY <2>5, <2>6, <2>7, <2>8, <2>9, <2>10, <2>11, <2>12, <2>13, <2>14, <2>15,
             <2>16, <2>17, <2>18, <2>19, <2>20 DEF Next, Run
<1>3. OneLate => StopTakesEffect BY DEF OneLate, StopTakesEffect
<1> QED BY <1>1, <1>2, <1>3, PTL DEF Spec

-----------------------------------------------------------------------------
(* Limits.  Until a part of a character was sampled n_remain is what          *)
(* n_predict allows still, and the bridge's loop is left when that is        *)
(* nothing.  The limit of a call, an int, fits a size_t.                     *)
LimitFits == \A asked \in Predicts \ {Unset} : asked < SizeMax

WholeInv ==
  /\ ~incomplete /\ ending # "part"
  /\ n_predict > 0 /\ pc # "idle" => n_remain = budget /\ budget \in 0 .. SizeMax - 1
  /\ n_predict > 0 /\ (pc \in {"next", "decode", "sample"} \/ (pc = "loop" /\ has_next_token))
       => budget # 0

LimitInv ==
  /\ n_predict \in Int /\ n_predict < SizeMax
  /\ split \in BOOLEAN
  /\ ~split => WholeInv

LEMMA SmallSize == \A n \in 0 .. SizeMax - 1 : AsSize(n) = n
  BY CompletionAssumption DEF CompletionAssumption, AsSize

(* A verdict of nextToken that the budget allows, or that ends the call.     *)
LEMMA FinishKeepsLimit ==
  ASSUME WholeInv, NEW has \in BOOLEAN, NEW text, NEW stopped, text # "part",
         Finish(has, n_remain', text, stopped), n_predict' = n_predict,
         n_predict > 0 => n_remain' = budget' /\ budget' \in 0 .. SizeMax - 1 /\ (has => budget' # 0)
  PROVE  WholeInv'
<1>1. ~incomplete' /\ ending' # "part"
  BY DEF Finish, Scanned, WholeInv
<1>2. (has_next_token' => has) /\ pc' \in {"loop", "close"}
  BY <1>1 DEF Finish, WholeInv
<1> QED BY <1>1, <1>2 DEF WholeInv

(* The steps of a call that sampled whole characters only. *)
LEMMA RunKeepsLimit ==
  ASSUME LimitInv, ~split, ~split', Run \/ Stop
  PROVE  WholeInv'
<1> USE CompletionAssumption DEF CompletionAssumption
<1>1. WholeInv BY DEF LimitInv
<1>2. ASSUME pc # "idle", Finish(FALSE, n_remain, ending, FALSE), UNCHANGED <<n_predict, budget>>
      PROVE  WholeInv'
  <2>1. n_remain' = n_remain
    BY <1>1, <1>2 DEF Finish, Scanned, WholeInv
  <2>2. Finish(FALSE, n_remain', ending, FALSE)
    BY <1>2, <2>1
  <2> QED BY <1>1, <1>2, <2>1, <2>2, FinishKeepsLimit DEF WholeInv
<1>3. CASE EnterLoop BY <1>1, <1>3 DEF EnterLoop, LoopGoesOn, WholeInv, params
<1>4. CASE LeaveLoop BY <1>1, <1>4 DEF LeaveLoop, WholeInv, params
<1>5. CASE NoShift BY <1>1, <1>5 DEF NoShift, DecodeOrSample, WholeInv, params
<1>6. CASE ShiftContext BY <1>1, <1>6 DEF ShiftContext, DecodeOrSample, WholeInv, params
<1>7. CASE StopWhenFull \/ DecodeFails BY <1>2, <1>7 DEF StopWhenFull, DecodeFails, params
<1>8. CASE DecodeBatch
  <2>1. CASE StopsDecoding
    BY <1>2, <1>8, <2>1 DEF DecodeBatch, params
  <2>2. CASE ~StopsDecoding
    BY <1>1, <1>8, <2>2 DEF DecodeBatch, DecodeOrSample, WholeInv, params
  <2> QED BY <2>1, <2>2
<1>9. CASE PredictNothing
  <2>1. PICK stopped \in BOOLEAN : Finish(FALSE, n_remain, "ascii", stopped)
    BY <1>9 DEF PredictNothing
  <2>2. n_predict = 0 /\ n_predict' = n_predict
    BY <1>9 DEF PredictNothing, params
  <2>3. ~incomplete' /\ ending' # "part"
    BY <1>1, <2>1 DEF Finish, Scanned, WholeInv
  <2> QED BY <2>2, <2>3 DEF WholeInv
<1>10. CASE SampleEnd BY <1>2, <1>10 DEF SampleEnd, params
<1>11. ASSUME NEW token \in Tokens, SampleToken(token) PROVE WholeInv'
  <2> DEFINE remain == AsSize(n_remain - 1)
             text == Ending(ending, token)
  <2>1. PICK stopped \in BOOLEAN : Finish(BudgetLeft(remain), remain, text, stopped)
    BY <1>11 DEF SampleToken
  <2>2. text # "part"
    <3>1. ending' = text BY <2>1 DEF Finish
    <3>2. split' = (split \/ ending' = "part") BY <1>11 DEF SampleToken
    <3> QED BY <3>1, <3>2
  <2>3. pc = "sample" /\ n_predict' = n_predict /\ budget' = IF budget > 0 THEN budget - 1 ELSE 0
    BY <1>11 DEF SampleToken, params
  <2>4. n_predict > 0 => remain = budget - 1 /\ budget \in 1 .. SizeMax - 1
    <3>1. n_predict > 0 => n_remain = budget /\ budget \in 1 .. SizeMax - 1
      BY <1>1, <2>3 DEF WholeInv
    <3> QED BY <3>1, SmallSize
  <2> HIDE DEF remain, text
  <2>5. n_remain' = remain
    BY <1>1, <2>1, <2>2 DEF Finish, Scanned, WholeInv
  <2>6. n_predict > 0 => (BudgetLeft(remain) => budget' # 0)
    BY <2>3, <2>4 DEF BudgetLeft
  <2>7. n_predict > 0 => n_remain' = budget' /\ budget' \in 0 .. SizeMax - 1
    BY <2>3, <2>4, <2>5
  <2>8. BudgetLeft(remain) \in BOOLEAN
    BY DEF BudgetLeft
  <2>9. Finish(BudgetLeft(remain), n_remain', text, stopped)
    BY <2>1, <2>5
  <2> QED BY <1>1, <2>2, <2>3, <2>6, <2>7, <2>8, <2>9, FinishKeepsLimit
<1>12. CASE Close BY <1>1, <1>12 DEF Close, WholeInv, params
<1>13. CASE Stop BY <1>1, <1>13 DEF Stop, WholeInv, params
<1> QED BY <1>3, <1>4, <1>5, <1>6, <1>7, <1>8, <1>9, <1>10, <1>11, <1>12, <1>13 DEF Run

(* No token is sampled beyond n_predict, over all calls, stops and failures  *)
(* before, but in a call that sampled a part of a character.                 *)
THEOREM LimitIsHonoured ==
  ASSUME LimitFits
  PROVE  Spec => LimitHonoured
<1> USE CompletionAssumption DEF CompletionAssumption
<1>1. Init => LimitInv
  <2> SUFFICES ASSUME Init PROVE LimitInv OBVIOUS
  <2>1. n_predict \in Int /\ n_predict < SizeMax /\ ~(n_predict > 0)
    BY DEF Init
  <2>2. split \in BOOLEAN /\ ~incomplete /\ ending # "part"
    BY DEF Init
  <2> QED BY <2>1, <2>2 DEF LimitInv, WholeInv
<1>2. LimitInv /\ [Next]_vars => LimitInv'
  <2> SUFFICES ASSUME LimitInv, [Next]_vars PROVE LimitInv' OBVIOUS
  <2>1. ASSUME NEW kind, NEW prompt, NEW asked \in Predicts \cup {0, Unset}, Rewound(kind, prompt, asked)
        PROVE  LimitInv'
    <3>1. n_predict' \in Int /\ n_predict' < SizeMax
      BY <2>1 DEF Rewound, LimitInv, LimitFits
    <3>2. /\ ~incomplete' /\ ending' = "none" /\ n_remain' = AsSize(n_predict')
          /\ budget' = IF n_predict' > 0 THEN n_predict' ELSE 0
          /\ split' \in BOOLEAN
      BY <2>1 DEF Rewound
    <3>3. n_predict' > 0 => n_remain' = n_predict'
      BY <3>1, <3>2, SmallSize
    <3>4. n_predict' > 0 => n_remain' = budget' /\ budget' \in 0 .. SizeMax - 1 /\ budget' # 0
      BY <3>1, <3>2, <3>3
    <3>5. WholeInv' BY <3>2, <3>4 DEF WholeInv
    <3> QED BY <3>1, <3>2, <3>5 DEF LimitInv
  <2>2. ASSUME NEW kind, Between(kind) PROVE LimitInv'
    BY <2>2 DEF Between, LimitInv, WholeInv, Counted
  <2>3. CASE \E prompt \in Prompts :
               \/ \E asked \in Predicts : StartCompletion(prompt, asked)
               \/ StartEmbedding(prompt)
               \/ StartRerank(prompt)
    BY <2>1, <2>3 DEF StartCompletion, StartEmbedding, StartRerank
  <2>4. CASE \E asked \in Predicts \cup {Unset} : FailCompletion(asked)
    <3>1. n_predict' \in Int /\ n_predict' < SizeMax
      BY <2>4 DEF FailCompletion, LimitInv, LimitFits
    <3>2. ~incomplete' /\ ending' = "none" /\ split' \in BOOLEAN
      BY <2>4 DEF FailCompletion
    <3>3. pc' = "idle"
      BY <2>4 DEF FailCompletion, Counted
    <3> QED BY <3>1, <3>2, <3>3 DEF LimitInv, WholeInv
  <2>5. CASE Run \/ Stop
    <3>1. n_predict' = n_predict
      BY <2>5 DEF Run, EnterLoop, LeaveLoop, NoShift, StopWhenFull, ShiftContext, DecodeBatch,
                  DecodeFails, PredictNothing, SampleEnd, SampleToken, Close, Stop, params
    <3>2. split' = split \/ split' = (split \/ ending' = "part")
      BY <2>5 DEF Run, EnterLoop, LeaveLoop, NoShift, StopWhenFull, ShiftContext, DecodeBatch,
                  DecodeFails, PredictNothing, SampleEnd, SampleToken, Close, Stop
    <3>3. split' \in BOOLEAN /\ (split => split')
      BY <3>2 DEF LimitInv
    <3>4. ~split' => WholeInv'
      BY <2>5, <3>3, RunKeepsLimit
    <3> QED BY <3>1, <3>3, <3>4 DEF LimitInv
  <2>6. CASE Bench \/ ClearCache \/ SaveSession \/ LoadSession \/ LoadSessionFails
    BY <2>2, <2>6 DEF Bench, ClearCache, SaveSession, LoadSession, LoadSessionFails
  <2>7. CASE UNCHANGED vars BY <2>7 DEF vars, params, LimitInv, WholeInv
  <2> QED BY <2>3, <2>4, <2>5, <2>6, <2>7 DEF Next
<1>3. LimitInv => [pc = "sample" /\ embd' # embd /\ n_predict > 0 /\ budget = 0 => split]_vars
  BY DEF LimitInv, WholeInv
<1> QED BY <1>1, <1>2, <1>3, PTL DEF Spec, LimitHonoured

-----------------------------------------------------------------------------
(* Sampling reads logits.  A document too long for a context that does not   *)
(* shift is excluded: rerank goes on after loadPrompt refused it.            *)

RerankFits == "rerank" \in Kinds => \A prompt \in Prompts : ~TooLong(prompt)

(* Until something was decoded there is something to decode. *)
LogitsAhead ==
  /\ pc \in {"loop", "next", "decode"} => logits \/ n_predict = 0 \/ n_past < Len(embd)
  /\ pc = "sample" => logits \/ n_predict = 0

THEOREM LogitsComeFirst ==
  ASSUME TextGiven, ShiftWorks, RerankFits PROVE Spec => []LogitsBeforeSample
<1>1. Init => TypeOK /\ Bounds /\ LogitsAhead BY InitBounds DEF Init, LogitsAhead
<1>2. TypeOK /\ Bounds /\ LogitsAhead /\ [Next]_vars => TypeOK' /\ Bounds' /\ LogitsAhead'
  <2> SUFFICES ASSUME TypeOK, Bounds, LogitsAhead, [Next]_vars
               PROVE  TypeOK' /\ Bounds' /\ LogitsAhead'
    OBVIOUS
  <2>1. TypeOK' /\ Bounds' BY StepKeepsBounds
  <2>2. ASSUME NEW prompt \in Prompts, NEW tokens \in Seq(Tokens), NEW memory \in Seq(Tokens),
               LoadPrompt(prompt, tokens, memory)
        PROVE  n_past' < Len(embd')
    <3>1. prompt \in Seq(Tokens) /\ prompt # <<>>
      BY CompletionAssumption DEF CompletionAssumption, TextGiven
    <3>2. Len(embd') \in 1..(NCtx - 1) /\ n_past' \in 0..(Len(embd') - 1)
      BY <2>2, <3>1, LoadPromptType
    <3>3. NCtx \in Nat BY CompletionAssumption DEF CompletionAssumption
    <3> QED BY <3>2, <3>3
  <2>3. /\ embd \in Seq(Tokens) /\ kv \in Seq(Tokens) /\ <<>> \in Seq(Tokens)
        /\ Len(embd) \in Nat /\ n_past \in Int
    BY DEF TypeOK
  <2>4. CASE \E prompt \in Prompts, asked \in Predicts : StartCompletion(prompt, asked)
    <3>1. PICK prompt \in Prompts, asked \in Predicts : StartCompletion(prompt, asked)
      BY <2>4
    <3>2. pc' = "idle" \/ (pc' = "loop" /\ LoadPrompt(prompt, embd, kv))
      BY <3>1 DEF StartCompletion
    <3> QED BY <2>1, <2>2, <2>3, <3>2 DEF LogitsAhead
  <2>5. CASE \E prompt \in Prompts : StartEmbedding(prompt)
    <3>1. n_predict' = 0 /\ pc' = "next"
      <4>1. 0 # Unset BY CompletionAssumption DEF CompletionAssumption
      <4> QED BY <2>5, <4>1 DEF StartEmbedding, Rewound
    <3> QED BY <2>1, <3>1 DEF LogitsAhead
  <2>6. CASE \E prompt \in Prompts : StartRerank(prompt)
    <3>1. PICK prompt \in Prompts : StartRerank(prompt) BY <2>6
    <3>2. pc' = "next" /\ LoadPrompt(prompt, <<>>, <<>>)
      BY <3>1 DEF StartRerank, RerankFits
    <3> QED BY <2>1, <2>2, <2>3, <3>2 DEF LogitsAhead
  <2>7. CASE EnterLoop BY <2>1, <2>7 DEF EnterLoop, LogitsAhead, params
  <2>8. CASE LeaveLoop BY <2>1, <2>8 DEF LeaveLoop, LogitsAhead, params
  <2>9. ASSUME pc = "next", UNCHANGED <<logits, n_predict>>,
               pc' = DecodeOrSample(n_past', embd'), n_past' \in Nat,
               n_past < Len(embd) => n_past' < Len(embd')
        PROVE  LogitsAhead'
    BY <2>9 DEF LogitsAhead, DecodeOrSample
  <2>10. CASE NoShift
    <3>1. pc = "next" /\ UNCHANGED <<embd, n_past, logits, n_predict>>
          /\ pc' = DecodeOrSample(n_past, embd)
      BY <2>10 DEF NoShift, params
    <3>2. n_past \in Nat BY <3>1 DEF Bounds, Evaluated
    <3> QED BY <2>1, <2>9, <3>1, <3>2
  <2>11. CASE ShiftContext
    <3>1. /\ pc = "next" /\ ContextFull /\ CtxShift /\ UNCHANGED <<logits, n_predict>>
          /\ embd' = Without(embd, NKeep + 1, Discarded) /\ n_past' = n_past - Discarded
          /\ pc' = DecodeOrSample(n_past', embd')
      BY <2>11 DEF ShiftContext, FirstDropped, params
    <3>2. /\ Discarded \in Nat /\ NKeep + 1 + Discarded <= n_past
          /\ Len(embd) = NCtx /\ n_past \in Nat /\ n_past <= NCtx
      BY <3>1, ShiftDrops
    <3>3. NKeep \in Nat /\ NKeep + 1 \in Nat /\ NCtx \in Nat
      BY CompletionAssumption DEF CompletionAssumption
    <3>4. NKeep + 1 + Discarded <= Len(embd) BY <3>2, <3>3
    <3>5. Len(embd') = Len(embd) - Discarded
      BY <2>3, <3>1, <3>2, <3>3, <3>4, WithoutType
    <3>6. n_past' \in Nat /\ (n_past < Len(embd) => n_past' < Len(embd'))
      BY <2>3, <3>1, <3>2, <3>3, <3>5
    <3> QED BY <2>1, <2>9, <3>1, <3>6
  <2>12. ASSUME pc \in {"next", "decode", "sample"}, pc' \in {"loop", "close"},
                UNCHANGED <<logits, n_predict>>,
                pc # "sample" => UNCHANGED <<embd, n_past>>
         PROVE  LogitsAhead'
    BY <2>12 DEF LogitsAhead
  <2>13. CASE StopWhenFull
    <3>1. pc = "next" /\ pc' \in {"loop", "close"} /\ UNCHANGED <<embd, n_past, logits, n_predict>>
      BY <2>13 DEF StopWhenFull, Finish, params
    <3> QED BY <2>1, <2>12, <3>1
  <2>14. CASE DecodeFails
    <3>1. pc = "decode" /\ pc' \in {"loop", "close"} /\ UNCHANGED <<embd, n_past, logits, n_predict>>
      BY <2>14 DEF DecodeFails, Finish, params
    <3> QED BY <2>1, <2>12, <3>1
  <2>15. CASE PredictNothing \/ SampleEnd \/ \E token \in Tokens : SampleToken(token)
    <3>1. pc = "sample" /\ pc' \in {"loop", "close"} /\ UNCHANGED <<logits, n_predict>>
      BY <2>15 DEF PredictNothing, SampleEnd, SampleToken, Finish, params
    <3> QED BY <2>1, <2>12, <3>1
  <2>16. CASE DecodeBatch
    <3>1. logits' = TRUE BY <2>16 DEF DecodeBatch
    <3> QED BY <2>1, <3>1 DEF LogitsAhead
  <2>17. CASE Close BY <2>1, <2>17 DEF Close, LogitsAhead
  <2>18. CASE Stop BY <2>1, <2>18 DEF Stop, LogitsAhead, params
  <2>19. CASE Bench \/ ClearCache \/ SaveSession \/ LoadSession \/ LoadSessionFails
    <3>1. pc' = "idle"
      BY <2>19 DEF Bench, ClearCache, SaveSession, LoadSession, LoadSessionFails,
                   Between, Counted
    <3> QED BY <2>1, <3>1 DEF LogitsAhead
  <2>20. CASE UNCHANGED vars BY <2>1, <2>20 DEF vars, params, LogitsAhead
  <2>21. CASE \E asked \in Predicts \cup {Unset} : FailCompletion(asked)
    <3>1. pc' = "idle" BY <2>21 DEF FailCompletion, Counted
    <3> QED BY <2>1, <3>1 DEF LogitsAhead
  <2> QED BY <2>4, <2>5, <2>6, <2>7, <2>8, <2>10, <2>11, <2>13, <2>14, <2>15, <2>16,
             <2>17, <2>18, <2>19, <2>20, <2>21 DEF Next, Run
<1>3. LogitsAhead => LogitsBeforeSample BY DEF LogitsAhead, LogitsBeforeSample
<1> QED BY <1>1, <1>2, <1>3, PTL DEF Spec

-----------------------------------------------------------------------------
(* The memory follows the tokens.  The facts about sequences behind it.      *)

LEMMA JoinStart ==
  ASSUME NEW T, NEW s \in Seq(T), NEW m \in Nat, NEW n \in Nat, m + n <= Len(s)
  PROVE  SubSeq(s, 1, m) \o SubSeq(s, m + 1, m + n) = SubSeq(s, 1, m + n)
OBVIOUS

LEMMA StartOfStart ==
  ASSUME NEW T, NEW s \in Seq(T), NEW m \in Nat, m <= Len(s)
  PROVE  SubSeq(SubSeq(s, 1, m), 1, m) = SubSeq(s, 1, m)
OBVIOUS

LEMMA StartOfAppend ==
  ASSUME NEW T, NEW s \in Seq(T), NEW x \in T
  PROVE  SubSeq(Append(s, x), 1, Len(s)) = SubSeq(s, 1, Len(s))
OBVIOUS

LEMMA JoinElement ==
  ASSUME NEW T, NEW s \in Seq(T), NEW t \in Seq(T), NEW i \in 1..(Len(s) + Len(t))
  PROVE  (s \o t)[i] = IF i <= Len(s) THEN s[i] ELSE t[i - Len(s)]
OBVIOUS

LEMMA PartElement ==
  ASSUME NEW T, NEW s \in Seq(T), NEW first \in 1..(Len(s) + 1), NEW last \in 0..Len(s),
         NEW i \in 1..(last - first + 1)
  PROVE  SubSeq(s, first, last)[i] = s[first + i - 1]
OBVIOUS

LEMMA SameSequence ==
  ASSUME NEW T, NEW s \in Seq(T), NEW t \in Seq(T), Len(s) = Len(t),
         \A i \in 1..Len(s) : s[i] = t[i]
  PROVE  s = t
OBVIOUS

(* Dropping evaluated tokens from both keeps one the start of the other. *)
LEMMA WithoutStart ==
  ASSUME NEW T, NEW s \in Seq(T), NEW m \in Nat, m <= Len(s),
         NEW from \in Nat, NEW n \in Nat, from + n <= m
  PROVE  Without(SubSeq(s, 1, m), from, n) = SubSeq(Without(s, from, n), 1, m - n)
<1> DEFINE t == SubSeq(s, 1, m)
<1>1. t \in Seq(T) /\ Len(t) = m /\ \A i \in 1..m : t[i] = s[i] OBVIOUS
<1>2. Smaller(from, Len(s)) = from /\ Smaller(from, Len(t)) = from
  BY <1>1 DEF Smaller
<1> HIDE DEF t
<1>3. Without(t, from, n) = SubSeq(t, 1, from) \o SubSeq(t, from + n + 1, m)
  BY <1>1, <1>2 DEF Without
<1>4. Without(s, from, n) = SubSeq(s, 1, from) \o SubSeq(s, from + n + 1, Len(s))
  BY <1>2 DEF Without
<1> DEFINE a == SubSeq(s, 1, from)
           b == SubSeq(s, from + n + 1, Len(s))
           c == SubSeq(t, from + n + 1, m)
<1>5. SubSeq(t, 1, from) = a BY <1>1
<1>6. /\ a \in Seq(T) /\ Len(a) = from
      /\ b \in Seq(T) /\ Len(b) = Len(s) - from - n
      /\ c \in Seq(T) /\ Len(c) = m - from - n
  BY <1>1
<1>7. \A i \in 1..Len(c) : c[i] = b[i]
  <2> SUFFICES ASSUME NEW i \in 1..(m - from - n) PROVE c[i] = b[i] BY <1>6
  <2>1. from + n + 1 + i - 1 = from + n + i /\ from + n + i \in 1..m OBVIOUS
  <2>2. c[i] = t[from + n + i] BY <1>1, <2>1, PartElement
  <2>3. b[i] = s[from + n + i] BY <2>1, PartElement
  <2> QED BY <1>1, <2>1, <2>2, <2>3
<1> HIDE DEF a, b, c
<1>8. /\ a \o c \in Seq(T) /\ Len(a \o c) = m - n
      /\ SubSeq(a \o b, 1, m - n) \in Seq(T)
      /\ Len(SubSeq(a \o b, 1, m - n)) = m - n
  <2>1. a \o c \in Seq(T) /\ Len(a \o c) = m - n
    <3>1. Len(a \o c) = Len(a) + Len(c) /\ a \o c \in Seq(T) BY <1>6, JoinType
    <3> QED BY <1>6, <3>1
  <2>2. a \o b \in Seq(T) /\ Len(a \o b) = Len(s) - n
    <3>1. Len(a \o b) = Len(a) + Len(b) /\ a \o b \in Seq(T) BY <1>6, JoinType
    <3>2. Len(s) \in Nat OBVIOUS
    <3> QED BY <1>6, <3>1, <3>2
  <2>3. m - n \in Nat /\ m - n <= Len(a \o b) BY <2>2
  <2> QED BY <2>1, <2>2, <2>3, StartType
<1>9. ASSUME NEW i \in 1..(m - n)
      PROVE  (a \o c)[i] = SubSeq(a \o b, 1, m - n)[i]
  <2>1. Len(a \o b) \in Nat /\ m - n \in 0..Len(a \o b) /\ Len(s) \in Nat
    <3>1. Len(a \o b) = Len(a) + Len(b) BY <1>6, JoinType
    <3> QED BY <1>6, <3>1
  <2>2. SubSeq(a \o b, 1, m - n)[i] = (a \o b)[i]
    <3>1. a \o b \in Seq(T) BY <1>6, JoinType
    <3>2. SubSeq(a \o b, 1, m - n)[i] = (a \o b)[1 + i - 1] BY <2>1, <3>1, PartElement
    <3>3. 1 + i - 1 = i OBVIOUS
    <3> QED BY <3>2, <3>3
  <2>3. (a \o b)[i] = IF i <= Len(a) THEN a[i] ELSE b[i - Len(a)]
    <3>1. i \in 1..(Len(a) + Len(b)) BY <1>6, <2>1
    <3> QED BY <1>6, <3>1, JoinElement
  <2>4. (a \o c)[i] = IF i <= Len(a) THEN a[i] ELSE c[i - Len(a)]
    <3>1. i \in 1..(Len(a) + Len(c)) BY <1>6
    <3> QED BY <1>6, <3>1, JoinElement
  <2>5. CASE i <= Len(a) BY <2>2, <2>3, <2>4, <2>5
  <2>6. CASE ~(i <= Len(a))
    <3>1. i - Len(a) \in 1..Len(c) BY <1>6, <2>6
    <3> QED BY <1>7, <2>2, <2>3, <2>4, <2>6, <3>1
  <2> QED BY <2>5, <2>6
<1>10. a \o c = SubSeq(a \o b, 1, m - n) BY <1>8, <1>9, SameSequence
<1> QED BY <1>3, <1>4, <1>5, <1>10 DEF t, a, b, c

(* loadPrompt keeps of the memory what it takes for evaluated. *)
LEMMA LoadKeepsMatch ==
  ASSUME NEW prompt \in Seq(Tokens), prompt # <<>>,
         NEW tokens \in Seq(Tokens), NEW memory \in Seq(Tokens),
         LoadPrompt(prompt, tokens, memory), fresh'
  PROVE  kv' = SubSeq(embd', 1, n_past')
<1> DEFINE text == Truncated(prompt)
           past == Reused(tokens, text)
           can  == CanRemoveFrom(memory, past)
<1>1. /\ embd' = text
      /\ n_past' = IF can THEN past ELSE 0
      /\ kv' = IF can THEN SubSeq(memory, 1, Smaller(past, Len(memory))) ELSE <<>>
      /\ InMemory(memory, text, past)
  BY DEF LoadPrompt
<1>2. text \in Seq(Tokens) /\ Len(text) \in 1..(NCtx - 1) BY TruncatedFits
<1>3. past \in 0..(Len(text) - 1)
  <2>1. text # <<>> BY <1>2
  <2> QED BY <1>2, <2>1, ReusedFits
<1> HIDE DEF text, past, can
<1>4. past <= Len(memory) /\ SubSeq(memory, 1, past) = SubSeq(text, 1, past)
  BY <1>1 DEF InMemory
<1>5. CASE can
  <2>1. Smaller(past, Len(memory)) = past BY <1>4 DEF Smaller
  <2> QED BY <1>1, <1>4, <1>5, <2>1
<1>6. CASE ~can
  <2>1. SubSeq(text, 1, 0) = <<>> BY <1>2
  <2> QED BY <1>1, <1>6, <2>1
<1> QED BY <1>5, <1>6

(* While a call decodes, the memory is what n_past says was evaluated:      *)
(* batches append the tokens that follow, an interruption cuts the tokens   *)
(* and not the memory, a shift takes the same places out of both.           *)
THEOREM MemoryFollows ==
  ASSUME TextGiven, ShiftWorks PROVE Spec => []MemoryMatchesTokens
<1>1. Init => TypeOK /\ Bounds /\ MemoryMatchesTokens
  BY InitBounds DEF Init, MemoryMatchesTokens
<1>2. TypeOK /\ Bounds /\ MemoryMatchesTokens /\ [Next]_vars
        => TypeOK' /\ Bounds' /\ MemoryMatchesTokens'
  <2> SUFFICES ASSUME TypeOK, Bounds, MemoryMatchesTokens, [Next]_vars
               PROVE  TypeOK' /\ Bounds' /\ MemoryMatchesTokens'
    OBVIOUS
  <2>1. TypeOK' /\ Bounds' BY StepKeepsBounds
  <2>2. /\ embd \in Seq(Tokens) /\ kv \in Seq(Tokens) /\ <<>> \in Seq(Tokens)
        /\ Len(embd) \in Nat
    BY DEF TypeOK
  <2>3. ASSUME NEW prompt \in Prompts, NEW tokens \in Seq(Tokens),
               IF TooLong(prompt) THEN RefusePrompt(tokens, <<>>)
                                  ELSE LoadPrompt(prompt, tokens, <<>>)
        PROVE  MemoryMatchesTokens'
    <3>1. prompt \in Seq(Tokens) /\ prompt # <<>>
      BY CompletionAssumption DEF CompletionAssumption, TextGiven
    <3>2. CASE TooLong(prompt)
      <4>1. kv' = <<>> /\ n_past' = 0 /\ embd' = tokens BY <2>3, <3>2 DEF RefusePrompt
      <4>2. SubSeq(tokens, 1, 0) = <<>> BY <2>3
      <4> QED BY <4>1, <4>2 DEF MemoryMatchesTokens
    <3>3. CASE ~TooLong(prompt)
      <4>1. LoadPrompt(prompt, tokens, <<>>) BY <2>3, <3>3
      <4>2. fresh' => kv' = SubSeq(embd', 1, n_past')
        BY <2>2, <3>1, <4>1, LoadKeepsMatch
      <4> QED BY <4>2 DEF MemoryMatchesTokens
    <3> QED BY <3>2, <3>3
  <2>4. CASE \E prompt \in Prompts, asked \in Predicts : StartCompletion(prompt, asked)
    <3>1. PICK prompt \in Prompts, asked \in Predicts : StartCompletion(prompt, asked)
      BY <2>4
    <3>2. prompt \in Seq(Tokens) /\ prompt # <<>>
      BY CompletionAssumption DEF CompletionAssumption, TextGiven
    <3>3. pc' = "idle" \/ LoadPrompt(prompt, embd, kv) BY <3>1 DEF StartCompletion
    <3>4. LoadPrompt(prompt, embd, kv) /\ fresh' => kv' = SubSeq(embd', 1, n_past')
      BY <2>2, <3>2, LoadKeepsMatch
    <3> QED BY <2>1, <3>3, <3>4 DEF MemoryMatchesTokens
  <2>5. CASE \E prompt \in Prompts : StartEmbedding(prompt)
    <3>1. PICK prompt \in Prompts : StartEmbedding(prompt) BY <2>5
    <3>2. IF TooLong(prompt) THEN RefusePrompt(embd, <<>>) ELSE LoadPrompt(prompt, embd, <<>>)
      BY <3>1 DEF StartEmbedding
    <3> QED BY <2>1, <2>2, <2>3, <3>2
  <2>6. CASE \E prompt \in Prompts : StartRerank(prompt)
    <3>1. PICK prompt \in Prompts : StartRerank(prompt) BY <2>6
    <3>2. IF TooLong(prompt) THEN RefusePrompt(<<>>, <<>>) ELSE LoadPrompt(prompt, <<>>, <<>>)
      BY <3>1 DEF StartRerank
    <3> QED BY <2>1, <2>2, <2>3, <3>2
  <2>7. CASE EnterLoop BY <2>1, <2>7 DEF EnterLoop, MemoryMatchesTokens
  <2>8. CASE LeaveLoop BY <2>1, <2>8 DEF LeaveLoop, MemoryMatchesTokens
  <2>9. CASE NoShift BY <2>1, <2>9 DEF NoShift, MemoryMatchesTokens
  <2>10. CASE StopWhenFull BY <2>1, <2>10 DEF StopWhenFull, MemoryMatchesTokens
  <2>11. CASE DecodeFails BY <2>1, <2>11 DEF DecodeFails, MemoryMatchesTokens
  <2>12. CASE PredictNothing BY <2>1, <2>12 DEF PredictNothing, MemoryMatchesTokens
  <2>13. CASE SampleEnd BY <2>1, <2>13 DEF SampleEnd, MemoryMatchesTokens
  <2>14. CASE ShiftContext
    <3>1. /\ pc = "next" /\ ContextFull /\ CtxShift /\ PartialRemoval /\ fresh' = fresh
          /\ embd' = Without(embd, NKeep + 1, Discarded) /\ n_past' = n_past - Discarded
          /\ kv' = Without(kv, NKeep + 1, Discarded)
      BY <2>14 DEF ShiftContext, FirstDropped, ShiftWorks
    <3>2. /\ Discarded \in Nat /\ NKeep + 1 + Discarded <= n_past
          /\ Len(embd) = NCtx /\ n_past \in Nat /\ n_past <= NCtx
      BY <3>1, ShiftDrops
    <3>3. NKeep + 1 \in Nat BY CompletionAssumption DEF CompletionAssumption
    <3>4. fresh => kv = SubSeq(embd, 1, n_past) BY <3>1 DEF MemoryMatchesTokens
    <3>5. Without(SubSeq(embd, 1, n_past), NKeep + 1, Discarded)
            = SubSeq(Without(embd, NKeep + 1, Discarded), 1, n_past - Discarded)
      BY <2>2, <3>2, <3>3, WithoutStart
    <3>6. fresh' => kv' = SubSeq(embd', 1, n_past') BY <3>1, <3>4, <3>5
    <3> QED BY <2>1, <3>6 DEF MemoryMatchesTokens
  <2>15. CASE DecodeBatch
    <3> DEFINE n == Smaller(NBatch, Len(embd) - n_past)
    <3> HIDE DEF n
    <3>1. /\ pc = "decode" /\ n_past' = n_past + n /\ fresh' = fresh
          /\ kv' = kv \o SubSeq(embd, n_past + 1, n_past + n)
          /\ embd' = embd \/ embd' = SubSeq(embd, 1, n_past')
      BY <2>15 DEF DecodeBatch, n
    <3>2. n \in Nat /\ n_past \in Nat /\ n_past + n <= Len(embd)
      BY <3>1, BatchType DEF n
    <3>3. fresh => kv = SubSeq(embd, 1, n_past) BY <3>1 DEF MemoryMatchesTokens
    <3>4. SubSeq(embd, 1, n_past) \o SubSeq(embd, n_past + 1, n_past + n)
            = SubSeq(embd, 1, n_past + n)
      BY <2>2, <3>2, JoinStart
    <3>5. fresh' => kv' = SubSeq(embd, 1, n_past') BY <3>1, <3>3, <3>4
    <3>6. SubSeq(SubSeq(embd, 1, n_past'), 1, n_past') = SubSeq(embd, 1, n_past')
      BY <2>2, <3>1, <3>2, StartOfStart
    <3>7. fresh' => kv' = SubSeq(embd', 1, n_past') BY <3>1, <3>5, <3>6
    <3> QED BY <2>1, <3>7 DEF MemoryMatchesTokens
  <2>16. CASE \E token \in Tokens : SampleToken(token)
    <3>1. PICK token \in Tokens : SampleToken(token) BY <2>16
    <3>2. /\ pc = "sample" /\ embd' = Append(embd, token)
          /\ kv' = kv /\ n_past' = n_past /\ fresh' = fresh
      BY <3>1 DEF SampleToken
    <3>3. n_past = Len(embd) BY <3>2 DEF Bounds, Evaluated
    <3>4. fresh => kv = SubSeq(embd, 1, n_past) BY <3>2 DEF MemoryMatchesTokens
    <3>5. SubSeq(embd', 1, Len(embd)) = SubSeq(embd, 1, Len(embd))
      BY <2>2, <3>2, StartOfAppend
    <3>6. fresh' => kv' = SubSeq(embd', 1, n_past') BY <3>2, <3>3, <3>4, <3>5
    <3> QED BY <2>1, <3>6 DEF MemoryMatchesTokens
  <2>17. CASE Close BY <2>1, <2>17 DEF Close, MemoryMatchesTokens
  <2>18. CASE Stop BY <2>1, <2>18 DEF Stop, MemoryMatchesTokens
  <2>19. CASE Bench \/ ClearCache \/ SaveSession \/ LoadSession \/ LoadSessionFails
    <3>1. pc' = "idle"
      BY <2>19 DEF Bench, ClearCache, SaveSession, LoadSession, LoadSessionFails,
                   Between, Counted
    <3> QED BY <2>1, <3>1 DEF MemoryMatchesTokens
  <2>20. CASE UNCHANGED vars BY <2>1, <2>20 DEF vars, MemoryMatchesTokens
  <2>21. CASE \E asked \in Predicts \cup {Unset} : FailCompletion(asked)
    <3>1. pc' = "idle" BY <2>21 DEF FailCompletion, Counted
    <3> QED BY <2>1, <3>1 DEF MemoryMatchesTokens
  <2> QED BY <2>4, <2>5, <2>6, <2>7, <2>8, <2>9, <2>10, <2>11, <2>12, <2>13, <2>14,
             <2>15, <2>16, <2>17, <2>18, <2>19, <2>20, <2>21 DEF Next, Run
<1> QED BY <1>1, <1>2, PTL DEF Spec

-----------------------------------------------------------------------------
(* A call ends: how many steps are left of it.                             *)

(* The tokens a completion may sample still: until the context is full, or *)
(* until n_remain, decremented as a size_t, is zero.                       *)
TokensLeft ==
  IF ~CtxShift THEN NCtx - Len(embd) ELSE IF n_remain = 0 THEN SizeMax ELSE n_remain

(* The steps of one turn of the bridge's loop, and those left of it.       *)
Turn == NCtx + 4
InTurn ==
  IF pc = "loop" THEN Turn ELSE IF pc = "next" THEN NCtx + 3
  ELSE IF pc = "decode" THEN 2 + Len(embd) - n_past ELSE 2

LastStep == pc = "close" \/ (pc = "loop" /\ ~has_next_token)

StepsLeft ==
  IF pc = "idle" THEN 0
  ELSE IF is_interrupted THEN IF pc \in {"loop", "close"} THEN 1 ELSE InTurn
  ELSE IF LastStep THEN 2
  ELSE TokensLeft * Turn + InTurn + 1

(* A completion without a limit whose context shifts ends only when the    *)
(* model, a stop word or a stop ends it.                                   *)
Limited == CtxShift => n_predict # -1 \/ is_interrupted

(* A text of whole characters; what a call's text is until it samples a part *)
(* of a character.                                                           *)
EndsWhole == ~incomplete /\ ending # "part"
WholeUnsplit == split \in BOOLEAN /\ (~split => EndsWhole)

LEMMA LessTimes ==
  ASSUME NEW a \in Nat, NEW b \in Nat, NEW w \in Nat
  PROVE  a * w \in Nat /\ (a < b => a * w + w <= b * w)
<1>1. a * w \in Nat
  OBVIOUS
<1>2. ASSUME a < b PROVE a * w + w <= b * w
  <2>1. PICK k \in Nat : b = a + 1 + k
    <3>1. b - a - 1 \in Nat /\ b = a + 1 + (b - a - 1)
      BY <1>2
    <3> QED BY <3>1
  <2>2. b * w = a * w + w + k * w /\ k * w \in Nat
    BY <2>1
  <2> QED BY <1>1, <2>2
<1> QED BY <1>1, <1>2

LEMMA WholeEnd ==
  ASSUME WholeUnsplit, [Next]_vars
  PROVE  WholeUnsplit' /\ (Run \/ Stop => (split => split'))
<1>1. ASSUME NEW has, NEW remain, NEW text, NEW stopped, text # "part", EndsWhole,
             Finish(has, remain, text, stopped)
      PROVE  EndsWhole'
  BY <1>1 DEF Finish, Scanned, EndsWhole
<1>2. CASE \E prompt \in Prompts :
             \/ \E asked \in Predicts : StartCompletion(prompt, asked)
             \/ StartEmbedding(prompt)
             \/ StartRerank(prompt)
  <2>1. ~incomplete' /\ ending' = "none" /\ split' = FALSE
    BY <1>2 DEF StartCompletion, StartEmbedding, StartRerank, Rewound
  <2>2. pc = "idle" /\ calls' = calls + 1
    BY <1>2 DEF StartCompletion, StartEmbedding, StartRerank, Counted
  <2>3. ~Run
    BY <2>2 DEF Run, EnterLoop, LeaveLoop, NoShift, StopWhenFull, ShiftContext, DecodeBatch,
                DecodeFails, PredictNothing, SampleEnd, SampleToken, Close
  <2>4. Stop => split' = split
    BY DEF Stop
  <2> QED BY <2>1, <2>3, <2>4 DEF WholeUnsplit, EndsWhole
<1>3. CASE EnterLoop \/ LeaveLoop \/ NoShift \/ ShiftContext \/ Close \/ Stop
  BY <1>3 DEF EnterLoop, LeaveLoop, NoShift, ShiftContext, Close, Stop, EndsWhole, WholeUnsplit
<1>4. CASE StopWhenFull \/ DecodeFails \/ PredictNothing \/ SampleEnd
  <2>1. split' = split
    BY <1>4 DEF StopWhenFull, DecodeFails, PredictNothing, SampleEnd
  <2>2. EndsWhole => EndsWhole'
    BY <1>1, <1>4 DEF StopWhenFull, DecodeFails, PredictNothing, SampleEnd, EndsWhole
  <2> QED BY <2>1, <2>2 DEF WholeUnsplit
<1>5. CASE DecodeBatch
  <2>1. split' = split
    BY <1>5 DEF DecodeBatch
  <2>2. EndsWhole => EndsWhole'
    BY <1>1, <1>5 DEF DecodeBatch, EndsWhole
  <2> QED BY <2>1, <2>2 DEF WholeUnsplit
<1>6. ASSUME NEW token \in Tokens, SampleToken(token)
      PROVE  WholeUnsplit' /\ (split => split')
  <2>1. split' = (split \/ ending' = "part") /\ ending' = Ending(ending, token)
    BY <1>6 DEF SampleToken, Finish
  <2>2. Ending(ending, token) # "part" /\ EndsWhole => EndsWhole'
    BY <1>1, <1>6 DEF SampleToken
  <2> QED BY <2>1, <2>2 DEF WholeUnsplit
<1>7. CASE Bench \/ ClearCache \/ SaveSession \/ LoadSession \/ LoadSessionFails
  BY <1>7 DEF Bench, ClearCache, SaveSession, LoadSession, LoadSessionFails, Between, EndsWhole,
              WholeUnsplit
<1>8. CASE UNCHANGED vars
  BY <1>8 DEF vars, EndsWhole, WholeUnsplit
<1>9. CASE \E asked \in Predicts \cup {Unset} : FailCompletion(asked)
  <2>1. ~incomplete' /\ ending' = "none" /\ split' = FALSE
    BY <1>9 DEF FailCompletion
  <2>2. pc = "idle"
    BY <1>9 DEF FailCompletion, Counted
  <2>3. ~Run
    BY <2>2 DEF Run, EnterLoop, LeaveLoop, NoShift, StopWhenFull, ShiftContext, DecodeBatch,
                DecodeFails, PredictNothing, SampleEnd, SampleToken, Close
  <2>4. Stop => split' = split
    BY DEF Stop
  <2> QED BY <2>1, <2>3, <2>4 DEF WholeUnsplit, EndsWhole
<1> QED BY <1>2, <1>3, <1>4, <1>5, <1>6, <1>7, <1>8, <1>9 DEF Next, Run

(* What is left is a number, and at least that of the place.               *)
LEMMA StepsLeftType ==
  ASSUME TypeOK, Bounds
  PROVE  /\ NCtx \in Nat /\ Turn \in Nat /\ TokensLeft \in Nat /\ TokensLeft * Turn \in Nat
         /\ InTurn \in 2 .. Turn
         /\ pc # "idle" => StepsLeft \in Nat \ {0}
         /\ pc # "idle" /\ ~is_interrupted => StepsLeft >= 2
         /\ pc \in {"next", "decode", "sample"} =>
              StepsLeft >= InTurn /\ (~is_interrupted => StepsLeft >= InTurn + 1)
<1>1. NCtx \in Nat /\ Turn \in Nat /\ SizeMax \in Nat
  BY CompletionAssumption DEF CompletionAssumption, Turn
<1>2. TokensLeft \in Nat
  <2>1. Len(embd) <= NCtx /\ Len(embd) \in Nat /\ n_remain \in Nat
    BY <1>1 DEF Bounds, WithinContext, TypeOK
  <2> QED BY <1>1, <2>1 DEF TokensLeft
<1>3. TokensLeft * Turn \in Nat
  BY <1>1, <1>2, LessTimes
<1>4. InTurn \in 2 .. Turn
  <2>1. pc = "decode" => n_past \in Nat /\ n_past < Len(embd) /\ Len(embd) \in Nat /\ Len(embd) < NCtx
    BY DEF Bounds, Evaluated, TypeOK
  <2> QED BY <1>1, <2>1 DEF InTurn, Turn
<1> HIDE DEF InTurn, TokensLeft, Turn
<1> QED BY <1>1, <1>2, <1>3, <1>4 DEF StepsLeft, LastStep

(* The last turn, when nextToken's verdict is to end.                      *)
LEMMA TurnEnds ==
  ASSUME TypeOK, Bounds, pc \in {"next", "decode", "sample"}, is_interrupted' = is_interrupted,
         pc' = "close" \/ (pc' = "loop" /\ ~has_next_token')
  PROVE  StepsLeft' < StepsLeft
<1>1. StepsLeft >= 2 /\ (~is_interrupted => StepsLeft >= 3) /\ StepsLeft \in Nat
  BY StepsLeftType
<1>2. StepsLeft' = IF is_interrupted THEN 1 ELSE 2
  BY DEF StepsLeft, LastStep
<1> QED BY <1>1, <1>2

(* A step within a turn.                                                   *)
LEMMA TurnGoesOn ==
  ASSUME TypeOK, Bounds, TypeOK', Bounds', ~LastStep, pc \in {"loop", "next", "decode", "sample"},
         pc' \in {"next", "decode", "sample"}, is_interrupted' = is_interrupted,
         TokensLeft' = TokensLeft, InTurn' < InTurn, is_interrupted => pc # "loop"
  PROVE  StepsLeft' < StepsLeft
<1>1. /\ TokensLeft * Turn \in Nat /\ InTurn \in Nat /\ InTurn' \in Int
      /\ TokensLeft' * Turn = TokensLeft * Turn
  <2>1. pc' = "decode" => n_past' \in Nat /\ Len(embd') \in Nat
    BY DEF Bounds, Evaluated, TypeOK
  <2>2. InTurn' \in Int
    BY <2>1, StepsLeftType DEF InTurn, Turn
  <2> QED BY <2>2, StepsLeftType
<1>2. StepsLeft = IF is_interrupted THEN InTurn ELSE TokensLeft * Turn + InTurn + 1
  BY DEF StepsLeft
<1>3. StepsLeft' = IF is_interrupted THEN InTurn' ELSE TokensLeft * Turn + InTurn' + 1
  BY <1>1 DEF StepsLeft, LastStep, Turn
<1> HIDE DEF InTurn, TokensLeft, Turn, StepsLeft
<1> QED BY <1>1, <1>2, <1>3

(* Every step of the thread that runs the call.                            *)
LEMMA RunStepsLeft ==
  ASSUME TypeOK, Bounds, TypeOK', Bounds', EndsWhole, EndsWhole', Limited, Run
  PROVE  StepsLeft' < StepsLeft
<1>1. NCtx \in Nat /\ Len(embd) \in Nat /\ Len(embd) <= NCtx /\ n_past \in Int
  BY CompletionAssumption DEF CompletionAssumption, TypeOK, Bounds, WithinContext
<1>2. CASE EnterLoop
  <2>1. /\ pc = "loop" /\ has_next_token /\ ~is_interrupted /\ pc' = "next"
        /\ UNCHANGED <<embd, n_past, n_remain, is_interrupted>>
    BY <1>2 DEF EnterLoop, LoopGoesOn
  <2>2. TokensLeft' = TokensLeft /\ InTurn' < InTurn /\ ~LastStep
    BY <1>1, <2>1 DEF TokensLeft, InTurn, LastStep, Turn
  <2> QED BY <2>1, <2>2, TurnGoesOn
<1>3. CASE LeaveLoop \/ Close
  <2>1. pc # "idle" /\ pc' = "idle"
    BY <1>3 DEF LeaveLoop, Close
  <2>2. StepsLeft' = 0
    BY <2>1 DEF StepsLeft
  <2> QED BY <2>1, <2>2, StepsLeftType
<1>4. ASSUME pc = "next" \/ pc = "decode", pc' = DecodeOrSample(n_past', embd'),
             UNCHANGED <<n_remain, is_interrupted>>, ~CtxShift => embd' = embd,
             pc = "decode" => n_past < n_past' /\ embd' = embd
      PROVE  StepsLeft' < StepsLeft
  <2>1. pc' \in {"decode", "sample"} /\ Len(embd') \in Nat /\ Len(embd') <= NCtx
    BY <1>4 DEF DecodeOrSample, TypeOK, Bounds, WithinContext
  <2>2. pc' = "decode" => n_past' \in Nat /\ n_past' < Len(embd')
    BY <2>1 DEF Bounds, Evaluated
  <2>3. pc = "decode" => n_past \in Nat /\ n_past < Len(embd)
    BY DEF Bounds, Evaluated
  <2>4. InTurn' < InTurn
    BY <1>1, <1>4, <2>1, <2>2, <2>3 DEF InTurn
  <2>5. TokensLeft' = TokensLeft
    BY <1>4 DEF TokensLeft
  <2>6. ~LastStep
    BY <1>4 DEF LastStep
  <2> QED BY <1>4, <2>1, <2>4, <2>5, <2>6, TurnGoesOn
<1>5. CASE NoShift
  <2>1. /\ pc = "next" /\ pc' = DecodeOrSample(n_past, embd)
        /\ UNCHANGED <<embd, n_past, n_remain, is_interrupted>>
    BY <1>5 DEF NoShift
  <2> QED BY <1>4, <2>1
<1>6. CASE ShiftContext
  <2>1. /\ pc = "next" /\ CtxShift /\ pc' = DecodeOrSample(n_past', embd')
        /\ UNCHANGED <<n_remain, is_interrupted>>
    BY <1>6 DEF ShiftContext
  <2> QED BY <1>4, <2>1
<1>7. ASSUME NEW remain, NEW text, NEW stopped, Finish(FALSE, remain, text, stopped)
      PROVE  pc' = "close" \/ (pc' = "loop" /\ ~has_next_token')
  BY <1>7 DEF Finish, EndsWhole
<1>8. CASE StopWhenFull \/ DecodeFails \/ SampleEnd \/ PredictNothing
  <2>1. pc \in {"next", "decode", "sample"} /\ is_interrupted' = is_interrupted
    BY <1>8 DEF StopWhenFull, DecodeFails, SampleEnd, PredictNothing
  <2>2. \E text, stopped : Finish(FALSE, n_remain, text, stopped)
    BY <1>8 DEF StopWhenFull, DecodeFails, SampleEnd, PredictNothing
  <2>3. pc' = "close" \/ (pc' = "loop" /\ ~has_next_token')
    BY <1>7, <2>2
  <2> QED BY <2>1, <2>3, TurnEnds
<1>9. CASE DecodeBatch
  <2>1. pc = "decode" /\ is_interrupted' = is_interrupted
    BY <1>9 DEF DecodeBatch
  <2>2. CASE is_interrupted
    <3>1. pc' = "close" \/ (pc' = "loop" /\ ~has_next_token')
      BY <1>7, <1>9, <2>2 DEF DecodeBatch, StopsDecoding
    <3> QED BY <2>1, <3>1, TurnEnds
  <2>3. CASE ~is_interrupted
    <3> DEFINE n == Smaller(NBatch, Len(embd) - n_past)
    <3>1. /\ n_past' = n_past + n /\ pc' = DecodeOrSample(n_past', embd) /\ embd' = embd
          /\ n_remain' = n_remain
      BY <1>9, <2>3 DEF DecodeBatch, StopsDecoding
    <3>2. n_past \in Nat /\ n_past < Len(embd) /\ NBatch \in Nat \ {0}
      BY <2>1, CompletionAssumption DEF CompletionAssumption, Bounds, Evaluated
    <3>3. n \in Nat \ {0}
      BY <1>1, <3>2 DEF Smaller
    <3> HIDE DEF n
    <3>4. n_past < n_past'
      BY <3>1, <3>2, <3>3
    <3> QED BY <1>4, <2>1, <3>1, <3>4
  <2> QED BY <2>2, <2>3
<1>10. ASSUME NEW token \in Tokens, SampleToken(token) PROVE StepsLeft' < StepsLeft
  <2> DEFINE remain == AsSize(n_remain - 1)
  <2>1. /\ pc = "sample" /\ is_interrupted' = is_interrupted /\ n_predict' = n_predict
        /\ embd' = Append(embd, token)
    BY <1>10 DEF SampleToken, params
  <2>2. PICK stopped \in BOOLEAN : Finish(BudgetLeft(remain), remain, Ending(ending, token), stopped)
    BY <1>10 DEF SampleToken
  <2>3. /\ n_remain' = remain /\ pc' \in {"loop", "close"}
        /\ has_next_token' => BudgetLeft(remain)
    <3> HIDE DEF remain
    <3> QED BY <2>2 DEF Finish, EndsWhole
  <2>4. StepsLeft \in Nat /\ StepsLeft >= 2 /\ (~is_interrupted => StepsLeft >= 3)
    BY <2>1, StepsLeftType
  <2>5. CASE is_interrupted
    <3>1. StepsLeft' = 1
      BY <2>1, <2>3, <2>5 DEF StepsLeft
    <3> QED BY <2>4, <3>1
  <2>6. CASE ~is_interrupted /\ LastStep'
    <3>1. StepsLeft' = 2
      BY <2>1, <2>3, <2>6 DEF StepsLeft, LastStep
    <3> QED BY <2>4, <2>6, <3>1
  <2>7. CASE ~is_interrupted /\ ~LastStep'
    <3>1. pc' = "loop" /\ has_next_token' /\ BudgetLeft(remain)
      BY <2>3, <2>7 DEF LastStep
    <3>2. TokensLeft' < TokensLeft /\ TokensLeft' \in Nat
      <4>1. CASE ~CtxShift
        <5>1. Len(embd') = Len(embd) + 1 /\ Len(embd') <= NCtx
          BY <2>1 DEF TypeOK, Bounds, WithinContext
        <5> QED BY <1>1, <4>1, <5>1 DEF TokensLeft
      <4>2. CASE CtxShift
        <5>1. remain # 0
          BY <2>7, <3>1, <4>2 DEF BudgetLeft, Limited
        <5>2. SizeMax \in Nat \ {0} /\ n_remain \in 0 .. SizeMax - 1
          BY CompletionAssumption DEF CompletionAssumption, TypeOK
        <5>3. n_remain # 0 => remain = n_remain - 1
          BY <5>2, SmallSize
        <5>4. remain \in 0 .. SizeMax - 1
          BY <5>2 DEF AsSize
        <5> HIDE DEF remain
        <5> QED BY <2>3, <4>2, <5>1, <5>2, <5>3, <5>4 DEF TokensLeft
      <4> QED BY <4>1, <4>2
    <3>3. StepsLeft' = TokensLeft' * Turn + Turn + 1
      BY <2>1, <2>7, <3>1 DEF StepsLeft, InTurn, Turn
    <3>4. StepsLeft = TokensLeft * Turn + 2 + 1
      BY <2>1, <2>7 DEF StepsLeft, InTurn, LastStep
    <3>5. Turn \in Nat /\ TokensLeft \in Nat
      BY StepsLeftType
    <3>6. TokensLeft' * Turn \in Nat /\ TokensLeft * Turn \in Nat
          /\ TokensLeft' * Turn + Turn <= TokensLeft * Turn
      BY <3>2, <3>5, LessTimes
    <3> HIDE DEF TokensLeft, Turn, StepsLeft
    <3> QED BY <3>3, <3>4, <3>5, <3>6
  <2> QED BY <2>5, <2>6, <2>7
<1> QED BY <1>2, <1>3, <1>5, <1>6, <1>8, <1>9, <1>10 DEF Run

(* A stop, at whatever moment.                                             *)
LEMMA StopStepsLeft ==
  ASSUME TypeOK, Bounds, pc # "idle", Stop
  PROVE  StepsLeft' < StepsLeft
<1>1. /\ ~is_interrupted /\ is_interrupted'
      /\ UNCHANGED <<pc, embd, n_past, n_remain, has_next_token>>
  BY DEF Stop
<1>2. /\ InTurn \in Int /\ StepsLeft \in Nat /\ StepsLeft >= 2
      /\ pc \in {"next", "decode", "sample"} => StepsLeft >= InTurn + 1
  BY <1>1, StepsLeftType
<1>3. InTurn' = InTurn
  BY <1>1 DEF InTurn
<1>4. StepsLeft' = IF pc \in {"loop", "close"} THEN 1 ELSE InTurn
  BY <1>1, <1>3 DEF StepsLeft
<1>5. pc \in {"loop", "close", "next", "decode", "sample"}
  BY DEF TypeOK
<1> HIDE DEF StepsLeft, InTurn, Turn
<1> QED BY <1>2, <1>4, <1>5

(* The safety part of CallEnds: every step of a running call, a stop and a *)
(* failed decode among them, leaves fewer steps of it, and at the end of   *)
(* the call none.  So no more than StepsLeft steps of a call follow any    *)
(* of its states, until it samples a part of a character (the scan of      *)
(* doCompletion would go on without a limit), when the completion has a    *)
(* limit, a context that does not shift or a stop.                         *)
THEOREM CallAdvances ==
  ASSUME TextGiven, ShiftWorks
  PROVE  Spec => [][pc # "idle" /\ Limited /\ ~split'
                      => StepsLeft' \in Nat /\ StepsLeft' < StepsLeft]_vars
<1> DEFINE I == TypeOK /\ Bounds /\ WholeUnsplit
<1> DEFINE Counts == StepsLeft \in Nat
<1>1. Init => I
  BY InitBounds DEF Init, EndsWhole, WholeUnsplit
<1>2. I /\ [Next]_vars => I'
  BY StepKeepsBounds, WholeEnd
<1>3. I /\ I' /\ [Next]_vars
        => [pc # "idle" /\ Limited /\ ~split' => StepsLeft' < StepsLeft]_vars
  <2> SUFFICES ASSUME I, I', Next, pc # "idle", Limited, ~split'
               PROVE  StepsLeft' < StepsLeft
    OBVIOUS
  <2>1. Run \/ Stop
    BY DEF Next, StartCompletion, StartEmbedding, StartRerank, FailCompletion, Counted, Between,
           Bench, ClearCache, SaveSession, LoadSession, LoadSessionFails
  <2>2. ~split
    BY <2>1, WholeEnd
  <2>3. EndsWhole /\ EndsWhole'
    BY <2>2 DEF WholeUnsplit
  <2> QED BY <2>1, <2>3, RunStepsLeft, StopStepsLeft
<1>4. I => Counts
  <2> SUFFICES ASSUME I PROVE StepsLeft \in Nat
    OBVIOUS
  <2>1. pc = "idle" => StepsLeft = 0
    BY DEF StepsLeft
  <2> QED BY <2>1, StepsLeftType
<1>5. Counts' /\ [pc # "idle" /\ Limited /\ ~split' => StepsLeft' < StepsLeft]_vars
        => [pc # "idle" /\ Limited /\ ~split' => StepsLeft' \in Nat /\ StepsLeft' < StepsLeft]_vars
  OBVIOUS
<1> HIDE DEF I, Counts
<1> QED BY <1>1, <1>2, <1>3, <1>4, <1>5, PTL DEF Spec

-----------------------------------------------------------------------------
(* What an embedding and a rerank are computed from.                       *)

Pools == call.kind # "completion" /\ ~is_interrupted /\ Len(call.prompt) < NCtx

(* A call that makes one doCompletion, with a prompt that fits and no      *)
(* stop, decodes the prompt and closes with it in the memory; a rerank     *)
(* starts from nothing, and so takes nothing for evaluated that is not.    *)
WholeText ==
  /\ Pools /\ pc \in {"next", "decode", "sample"} => embd = call.prompt
  /\ Pools /\ pc = "close" /\ fresh => kv = call.prompt
  /\ (pc = "loop" => call.kind = "completion") /\ (pc = "close" => call.kind # "completion")
  /\ call.kind = "rerank" /\ pc # "idle" => fresh

(* Nothing is reused of no tokens. *)
LEMMA FreshFromNothing ==
  ASSUME NEW prompt \in Seq(Tokens), prompt # <<>>, LoadPrompt(prompt, <<>>, <<>>)
  PROVE  fresh'
<1> DEFINE text == Truncated(prompt)
<1>1. text \in Seq(Tokens) /\ Len(text) \in 1..(NCtx - 1)
  BY TruncatedFits
<1>2. fresh' = InMemory(<<>>, text, Reused(<<>>, text))
  BY DEF LoadPrompt
<1> HIDE DEF text
<1>3. CommonPrefix(<<>>, text) = 0
  <2>1. Smaller(Len(<<>>), Len(text)) = 0
    BY <1>1 DEF Smaller
  <2>2. {i \in 1..0 : \A j \in 1..i : <<>>[j] = text[j]} = {}
    OBVIOUS
  <2> QED BY <2>1, <2>2, FS_EmptySet DEF CommonPrefix
<1>4. Reused(<<>>, text) = 0
  BY <1>1, <1>3 DEF Reused
<1>5. <<>> \in Seq(Tokens) /\ Len(<<>>) = 0 /\ SubSeq(<<>>, 1, 0) = <<>> /\ SubSeq(text, 1, 0) = <<>>
  BY <1>1
<1>6. InMemory(<<>>, text, 0)
  BY <1>5 DEF InMemory
<1> QED BY <1>2, <1>4, <1>6

LEMMA WholeTextKept ==
  ASSUME TextGiven, DecodeMayFail = FALSE, TypeOK, Bounds, MemoryMatchesTokens, WholeText,
         [Next]_vars
  PROVE  WholeText'
<1>1. NCtx \in Nat
  BY CompletionAssumption DEF CompletionAssumption
<1>2. ASSUME NEW prompt \in Prompts, NEW kind, NEW asked, NEW tokens, NEW memory,
             Rewound(kind, prompt, asked), pc' = "next",
             IF TooLong(prompt) THEN RefusePrompt(tokens, memory)
                                ELSE LoadPrompt(prompt, tokens, memory),
             kind = "rerank" => tokens = <<>> /\ memory = <<>>
      PROVE  WholeText'
  <2>1. prompt \in Seq(Tokens) /\ prompt # <<>>
    BY CompletionAssumption DEF CompletionAssumption, TextGiven
  <2>2. call'.kind = kind /\ call'.prompt = prompt
    BY <1>2 DEF Rewound
  <2>3. Len(prompt) < NCtx => embd' = prompt
    BY <1>1, <1>2, <2>1 DEF TooLong, LoadPrompt, Truncated
  <2>4. kind = "rerank" => fresh'
    BY <1>2, <2>1, FreshFromNothing DEF RefusePrompt
  <2> QED BY <1>2, <2>2, <2>3, <2>4 DEF WholeText, Pools
<1>3. ASSUME NEW prompt \in Prompts, StartEmbedding(prompt) \/ StartRerank(prompt)
      PROVE  WholeText'
  <2>1. CASE StartEmbedding(prompt)
    BY <1>2, <2>1 DEF StartEmbedding
  <2>2. CASE StartRerank(prompt)
    BY <1>2, <2>2 DEF StartRerank
  <2> QED BY <1>3, <2>1, <2>2
<1>4. ASSUME NEW prompt \in Prompts, NEW asked, StartCompletion(prompt, asked)
      PROVE  WholeText'
  <2>1. call'.kind = "completion" /\ pc' \in {"idle", "loop"}
    BY <1>4 DEF StartCompletion, Rewound
  <2> QED BY <2>1 DEF WholeText, Pools
<1>5. ASSUME NEW has, NEW remain, NEW text, NEW stopped, Finish(has, remain, text, stopped),
             UNCHANGED <<kv, call, fresh, is_interrupted>>, pc = "sample"
      PROVE  WholeText'
  <2>1. pc' = IF call.kind = "completion" THEN "loop" ELSE "close"
    BY <1>5 DEF Finish
  <2>2. fresh /\ Pools => kv = call.prompt
    <3>1. n_past = Len(embd) /\ embd \in Seq(Tokens)
      BY <1>5 DEF Bounds, Evaluated, TypeOK
    <3>2. SubSeq(embd, 1, n_past) = embd
      BY <3>1
    <3> QED BY <1>5, <3>2 DEF MemoryMatchesTokens, WholeText
  <2> QED BY <1>5, <2>1, <2>2 DEF WholeText, Pools
<1>6. CASE EnterLoop \/ LeaveLoop \/ NoShift \/ Close \/ Stop
  <2>1. CASE EnterLoop \/ LeaveLoop
    BY <2>1 DEF EnterLoop, LeaveLoop, params, WholeText, Pools
  <2>2. CASE NoShift
    BY <2>2 DEF NoShift, DecodeOrSample, params, WholeText, Pools
  <2>3. CASE Close \/ Stop
    BY <2>3 DEF Close, Stop, params, WholeText, Pools
  <2> QED BY <1>6, <2>1, <2>2, <2>3
<1>7. CASE StopWhenFull \/ ShiftContext
  <2>1. /\ pc = "next" /\ Len(embd) >= NCtx /\ UNCHANGED <<call, fresh, is_interrupted>>
        /\ pc' = "close" => call.kind # "completion"
        /\ pc' = "loop" => call.kind = "completion"
    BY <1>7 DEF StopWhenFull, ShiftContext, ContextFull, DecodeOrSample, Finish, params
  <2>2. ~Pools
    BY <1>1, <2>1 DEF WholeText, Pools, TypeOK
  <2> QED BY <2>1, <2>2 DEF WholeText, Pools
<1>8. CASE PredictNothing \/ SampleEnd \/ \E token \in Tokens : SampleToken(token)
  <2>1. pc = "sample" /\ UNCHANGED <<kv, call, fresh, is_interrupted>>
    BY <1>8 DEF PredictNothing, SampleEnd, SampleToken, params
  <2>2. \E has, remain, text, stopped : Finish(has, remain, text, stopped)
    BY <1>8 DEF PredictNothing, SampleEnd, SampleToken
  <2> QED BY <1>5, <2>1, <2>2
<1>11. CASE DecodeBatch
  <2>1. pc = "decode" /\ UNCHANGED <<call, fresh, is_interrupted>>
    BY <1>11 DEF DecodeBatch, params
  <2>2. /\ ~is_interrupted => embd' = embd /\ pc' \in {"decode", "sample"}
        /\ pc' = "close" => call.kind # "completion"
        /\ pc' = "loop" => call.kind = "completion"
    BY <1>11 DEF DecodeBatch, StopsDecoding, DecodeOrSample, Finish
  <2> QED BY <2>1, <2>2 DEF WholeText, Pools
<1>12. CASE DecodeFails
  BY <1>12 DEF DecodeFails
<1>13. CASE Bench \/ ClearCache \/ SaveSession \/ LoadSession \/ LoadSessionFails
  <2>1. pc' = "idle"
    BY <1>13 DEF Bench, ClearCache, SaveSession, LoadSession, LoadSessionFails, Between, Counted
  <2> QED BY <2>1 DEF WholeText
<1>14. CASE UNCHANGED vars
  BY <1>14 DEF vars, params, WholeText, Pools
<1>15. CASE \E asked \in Predicts \cup {Unset} : FailCompletion(asked)
  <2>1. pc' = "idle"
    BY <1>15 DEF FailCompletion, Counted
  <2> QED BY <2>1 DEF WholeText
<1> QED BY <1>3, <1>4, <1>6, <1>7, <1>8, <1>11, <1>12, <1>13, <1>14, <1>15 DEF Next, Run

LEMMA WholeTextHolds ==
  ASSUME TextGiven, ShiftWorks, DecodeMayFail = FALSE PROVE Spec => []WholeText
<1>1. Init => WholeText
  BY DEF Init, WholeText
<1>2. TypeOK /\ Bounds /\ MemoryMatchesTokens /\ WholeText /\ [Next]_vars => WholeText'
  BY WholeTextKept
<1>3. Init => TypeOK /\ Bounds
  BY InitBounds
<1>4. TypeOK /\ Bounds /\ [Next]_vars => TypeOK' /\ Bounds'
  BY StepKeepsBounds
<1> QED BY <1>1, <1>2, <1>3, <1>4, MemoryFollows, PTL DEF Spec

(* What EmbeddingSeesPrompt lacks to hold.  An embedding or a rerank that  *)
(* is not stopped and whose text fits is computed from the whole text, as  *)
(* soon as what loadPrompt reused was in the memory (llama_decode does not *)
(* fail).                                                                  *)
THEOREM PooledFromWholeText ==
  ASSUME TextGiven, ShiftWorks, DecodeMayFail = FALSE
  PROVE  Spec => [](pc = "close" /\ ~is_interrupted /\ Len(call.prompt) < NCtx /\ fresh
                      => kv = call.prompt)
<1>1. WholeText => (pc = "close" /\ ~is_interrupted /\ Len(call.prompt) < NCtx /\ fresh
                      => kv = call.prompt)
  BY DEF WholeText, Pools
<1> QED BY <1>1, WholeTextHolds, PTL

(* A rerank clears the tokens with the memory, which an embedding does     *)
(* not: its score is always of the whole document.                         *)
THEOREM RerankSeesDocument ==
  ASSUME TextGiven, ShiftWorks, DecodeMayFail = FALSE
  PROVE  Spec => [](pc = "close" /\ call.kind = "rerank" /\ ~is_interrupted
                      /\ Len(call.prompt) < NCtx => kv = call.prompt)
<1>1. WholeText => (pc = "close" /\ call.kind = "rerank" /\ ~is_interrupted
                      /\ Len(call.prompt) < NCtx => kv = call.prompt)
  BY DEF WholeText, Pools
<1> QED BY <1>1, WholeTextHolds, PTL
=============================================================================
