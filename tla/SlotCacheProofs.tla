-------------------------- MODULE SlotCacheProofs ---------------------------
(***************************************************************************)
(* Proofs about SlotCache, for every number of slots, all sizes, texts and *)
(* requests: what a slot computes with is its own prompt, the positions    *)
(* follow, and a state file can be used.                                   *)
(***************************************************************************)
EXTENDS SlotCache, FiniteSetTheorems, SequenceTheorems, TLAPS

(* What the theorems assume of the requests: a prompt ends in text; images *)
(* are in prompts of completions that say so; and a recurrent model is not *)
(* asked to load a state for a prompt with images, as its memory may reach *)
(* beyond what it shares with the prompt and then cannot be cut.           *)
EndInText ==
  \A q \in Shapes : \A i \in DOMAIN q.prompts : q.prompts[i][Len(q.prompts[i])] # Null

ImagesMarked ==
  \A q \in Shapes : \A i \in DOMAIN q.prompts :
    (\E j \in DOMAIN q.prompts[i] : q.prompts[i][j] = Null) => q.task = "completion" /\ q.media

WholeStateForText == TRUE \in Recurrent => \A q \in Shapes : ~(q.load /\ q.media)

-----------------------------------------------------------------------------
(* The invariant.                                                          *)

NoNull(text) == \A i \in DOMAIN text : text[i] # Null

(* The memory m holds the first n tokens of cache, and nothing else.       *)
Exact(m, cache, n) == DOMAIN m = 0 .. n - 1 /\ \A p \in 0 .. n - 1 : m[p] = cache[p + 1]

(* Such a slot has exactly what n_past counts.  The others may be short of *)
(* an image that was skipped or, with a recurrent model, have more or less *)
(* than the file's tokens: llama_decode refuses what they add.             *)
Fits(rec, sl) == ~sl.media /\ (rec => ~sl.load)

Held(rec, fits, cache, m, n) ==
  \E k \in Nat :
    /\ DOMAIN m = 0 .. k - 1
    /\ \A p \in 0 .. k - 1 : p < n => m[p] = cache[p + 1]
    /\ n > 0 => k > 0
    /\ ~rec => k <= n /\ (k < n => cache[k + 1] = Null)
    /\ fits => k = n

(* The batch b has the text of the prompt from where the memory was.       *)
TextOf(b, cache, n, end) ==
  /\ DOMAIN b = {p \in n .. end - 1 : cache[p + 1] # Null}
  /\ \A p \in DOMAIN b : b[p] = cache[p + 1]

Coming(rec, sl, m, b) ==
  \E n \in 0 .. sl.n_past - 1 :
    /\ Held(rec, Fits(rec, sl), sl.cache_tokens, m, n)
    /\ TextOf(b, sl.cache_tokens, n, sl.n_past)
    /\ \/ \A p \in n .. sl.n_past - 1 : sl.cache_tokens[p + 1] # Null
       \/ sl.media /\ ~rec /\ n > 0

Kept(rec, sl, m, b) ==
  IF b # Empty THEN Coming(rec, sl, m, b)
  ELSE Held(rec, Fits(rec, sl), sl.cache_tokens, m, sl.n_past)

(* A prompt with images that failed on the way: the memory may have more   *)
(* of it than n_past counts.                                               *)
Covered(sl, m) ==
  \E k \in Nat :
    /\ k >= sl.n_past /\ DOMAIN m = 0 .. k - 1
    /\ \A p \in 0 .. k - 1 : p < sl.n_past => m[p] = sl.cache_tokens[p + 1]

(* A slot whose prompt is not all in the batches yet.                      *)
Prefilling(rec, sl) ==
  /\ sl.cache_tokens = Head(sl.docs)
  /\ sl.n_past < Len(sl.cache_tokens)
  /\ sl.cache_tokens[Len(sl.cache_tokens)] # Null
  /\ NoNull(sl.cache_tokens) \/ (sl.media /\ (sl.n_past > 0 => ~rec))

InUse(sl) ==
  /\ sl.docs # <<>> /\ sl.cache_tokens # <<>>
  /\ sl.n_past <= Len(sl.cache_tokens) /\ sl.checkpoint <= Len(sl.cache_tokens)
  /\ sl.task = "rerank" => \A i \in DOMAIN sl.docs :
       /\ sl.docs[i] # <<>> /\ NoNull(sl.docs[i])

Due(sl) == sl.checkpoint > 0 /\ sl.n_past >= sl.checkpoint

(* The stage of a slot in the round: its prompt waits for the loop that    *)
(* fills the batch, or was there; it will be sampled in this round, or was *)
(* and its last token is in no batch yet.                                  *)
Stages == {"waiting", "prompt", "sampling", "generating", "other"}

Unsampled(s) == \/ pc \in {"prompt", "fill", "decode", "checkpoint"}
                \/ pc = "sample" /\ scan <= s
                \/ pc = "emit" /\ scan < s

Stage(s) ==
  IF pc = "fill" /\ scan = s THEN "waiting"
  ELSE IF pc = "emit" /\ scan = s THEN "sampling"
  ELSE IF slot[s].state = "PROCESSING_PROMPT"
    THEN IF pc \in {"prompt", "fill"} /\ scan <= s THEN "waiting" ELSE "prompt"
  ELSE IF slot[s].state = "GENERATING"
    THEN IF Unsampled(s) THEN "sampling" ELSE "generating"
  ELSE "other"

(* What the next decode adds to the slot's memory.                         *)
Pending(s) == IF pc \in {"prompt", "fill", "decode"} THEN batch[s] ELSE Empty

Sane(rec, sl, m, b, dist, stage) ==
  /\ stage \in {"waiting", "prompt"} => Prefilling(rec, sl)
  /\ stage = "waiting" => b = Empty
  /\ stage # "other" => InUse(sl)
  /\ stage = "sampling" =>
       /\ sl.n_past = Len(sl.cache_tokens)
       /\ b # Empty => sl.cache_tokens[sl.n_past] # Null
       /\ b = Empty /\ ~dist => Exact(m, sl.cache_tokens, sl.n_past)
  /\ stage = "generating" =>
       /\ sl.n_past = Len(sl.cache_tokens) - 1
       /\ sl.generated = sl.cache_tokens[sl.n_past + 1] /\ sl.generated # Null
       /\ ~dist => Exact(m, sl.cache_tokens, sl.n_past)
  /\ ~dist /\ (stage # "other" \/ b # Empty) => Kept(rec, sl, m, b)
  /\ ~dist /\ Due(sl) /\ sl.cache_tokens # <<>> => Kept(rec, sl, m, b) \/ Covered(sl, m)

SlotInv(s) == Sane(recurrent, slot[s], mem[s], Pending(s), disturbed[s], Stage(s))

(* A cancelled slot stays where the loop over the slots found it; what is  *)
(* due was saved before the first slot is sampled.                         *)
PlaceInv(s) ==
  /\ pc = "fill" /\ scan = s => slot[s].state # "GENERATING"
  /\ pc = "emit" /\ scan = s => slot[s].state # "PROCESSING_PROMPT"
  /\ pc \in {"sample", "emit"} /\ ~disturbed[s] => ~Due(slot[s])

(* A state file names no image, and its memory begins with its tokens.     *)
Usable(rec, f) ==
  /\ NoNull(f.toks)
  /\ f.toks = <<>> => f = NoFile
  /\ ~f.tainted /\ f.toks # <<>> =>
       \E k \in Nat \ {0} :
         /\ DOMAIN f.mem = 0 .. k - 1
         /\ \A p \in 0 .. k - 1 : p < Len(f.toks) => f.mem[p] = f.toks[p + 1]
         /\ ~rec => Len(f.toks) <= k

IsMemory(m) == DOMAIN m \subseteq Nat /\ m = [p \in DOMAIN m |-> m[p]]

Types ==
  /\ TypeOK
  /\ recurrent \in Recurrent
  /\ DOMAIN mem = Slots /\ DOMAIN batch = Slots
  /\ \A s \in Slots : IsMemory(mem[s]) /\ IsMemory(batch[s])
  /\ IsMemory(file.mem)

Inv ==
  /\ Types
  /\ \A s \in Slots : SlotInv(s) /\ PlaceInv(s)
  /\ Usable(recurrent, file)

-----------------------------------------------------------------------------
(* Texts and sets of positions                                             *)

LEMMA LeastExists ==
  ASSUME NEW n \in Nat, NEW S, S \subseteq 0 .. n, S # {}
  PROVE  \E x \in S : \A y \in S : x <= y
<1> DEFINE Upto(x) == {y \in S : y <= x}
           T == {Upto(x) : x \in S}
           I == 0 .. n
           R == StrictSubsetOrdering(I)
<1>0. IsFiniteSet(I)
  BY FS_Interval
<1>1. IsWellFoundedOn(R, SUBSET I)
  BY <1>0, FS_StrictSubsetOrderingWellFounded, FS_FiniteSubsetsOfFinite
<1>2. T # {} /\ T \subseteq SUBSET I
  <2>1. PICK x \in S : TRUE
    OBVIOUS
  <2>2. Upto(x) \in T /\ \A y \in S : Upto(y) \subseteq I
    OBVIOUS
  <2> HIDE DEF Upto, I
  <2> QED BY <2>2
<1> HIDE DEF T, R
<1>3. PICK t \in T : \A u \in T : <<u, t>> \notin R
  BY <1>1, <1>2, WFMin
<1>4. PICK x \in S : t = Upto(x)
  BY <1>3 DEF T
<1>5. ASSUME NEW y \in S, y < x PROVE FALSE
  <2>1. x \in Int /\ y \in Int /\ S \subseteq Int
    OBVIOUS
  <2>2. Upto(y) \subseteq Upto(x) /\ x \in Upto(x) /\ x \notin Upto(y)
    <3>1. \A z \in Upto(y) : z \in Upto(x)
      BY <1>5, <2>1
    <3>2. x \in Upto(x) /\ x \notin Upto(y)
      BY <1>5, <2>1
    <3> HIDE DEF Upto
    <3> QED BY <3>1, <3>2
  <2>3. Upto(y) \in SUBSET I /\ Upto(x) \in SUBSET I /\ Upto(y) \in T
    BY DEF T
  <2> HIDE DEF Upto, I
  <2>4. <<Upto(y), Upto(x)>> \in R
    BY <2>2, <2>3 DEF R, StrictSubsetOrdering
  <2> QED BY <2>3, <2>4, <1>3, <1>4
<1> QED BY <1>5

(* The last of some slots.                                                 *)
LEMMA LastExists ==
  ASSUME NEW S, S \subseteq Slots, S # {}
  PROVE  \E x \in S : \A y \in S : y <= x
<1> DEFINE T == {NSlots - x : x \in S}
<1>1. T \subseteq 0 .. NSlots /\ T # {}
  <2>1. \A x \in S : NSlots - x \in 0 .. NSlots
    BY SlotCacheAssumption DEF SlotCacheAssumption, Slots
  <2> QED BY <2>1
<1>2. \E t \in T : \A u \in T : t <= u
  <2> HIDE DEF T
  <2> QED BY <1>1, LeastExists, SlotCacheAssumption DEF SlotCacheAssumption
<1>3. PICK x \in S : \A y \in S : NSlots - x <= NSlots - y
  BY <1>2
<1>4. \A y \in S : y <= x
  BY <1>3, SlotCacheAssumption DEF SlotCacheAssumption, Slots
<1> QED BY <1>4

(* A set of positions that has, with any, all before it.                   *)
LEMMA Beginning ==
  ASSUME NEW n \in Nat, NEW S, S \subseteq 1 .. n, \A i \in S : \A j \in 1 .. i : j \in S
  PROVE  Cardinality(S) \in 0 .. n /\ S = 1 .. Cardinality(S)
<1>1. PICK c \in 0 .. n : S = 1 .. c
  <2>1. CASE S = 1 .. n
    BY <2>1
  <2>2. CASE S # 1 .. n
    <3> DEFINE R == (1 .. n) \ S
    <3>1. R # {} /\ R \subseteq 0 .. n
      <4>1. \E x \in 1 .. n : x \notin S
        BY <2>2
      <4> QED BY <4>1
    <3>2. PICK x \in R : \A y \in R : x <= y
      <4> HIDE DEF R
      <4> QED BY <3>1, LeastExists
    <3>3. x \in Int /\ 1 <= x /\ x <= n /\ x \notin S
      OBVIOUS
    <3>4. \A y \in S : y \in Int /\ 1 <= y /\ y <= n /\ ~(x <= y)
      <4>1. \A y \in S : x \in 1 .. y => x \in S
        OBVIOUS
      <4> QED BY <3>3, <4>1
    <3>5. \A y \in 1 .. x - 1 : y \in S
      <4>1. \A y \in 1 .. x - 1 : y \in 1 .. n /\ ~(x <= y)
        BY <3>3
      <4> QED BY <3>2, <4>1
    <3>6. \A y \in S : y \in 1 .. x - 1
      BY <3>3, <3>4
    <3>7. x - 1 \in 0 .. n /\ S = 1 .. x - 1
      <4>1. x - 1 \in 0 .. n
        BY <3>3
      <4> QED BY <3>5, <3>6, <4>1
    <3> QED BY <3>7
  <2> QED BY <2>1, <2>2
<1>2. Cardinality(1 .. c) = c
  BY <1>1, FS_Interval
<1> QED BY <1>1, <1>2

LEMMA TextLength == \A t \in Texts : Len(t) \in Nat /\ DOMAIN t = 1 .. Len(t)
BY LenProperties DEF Texts

LEMMA TextEmpty == <<>> \in Texts /\ Len(<<>>) = 0 /\ \A t \in Texts : t # <<>> <=> Len(t) > 0
BY EmptySeq, LenProperties DEF Texts

(* The first tokens of a text.                                             *)
LEMMA Prefix ==
  ASSUME NEW t \in Texts, NEW n \in 0 .. Len(t)
  PROVE  /\ SubSeq(t, 1, n) \in Texts /\ Len(SubSeq(t, 1, n)) = n
         /\ \A i \in 1 .. n : SubSeq(t, 1, n)[i] = t[i]
<1>1. Len(t) \in Nat /\ n \in Int
  BY TextLength
<1>2. \A i \in 1 .. n : t[i] \in Tokens \cup {Null}
  BY <1>1, ElementOfSeq DEF Texts
<1>3. /\ SubSeq(t, 1, n) \in Seq(Tokens \cup {Null})
      /\ Len(SubSeq(t, 1, n)) = IF 1 <= n THEN n - 1 + 1 ELSE 0
      /\ \A i \in 1 .. n - 1 + 1 : SubSeq(t, 1, n)[i] = t[1 + i - 1]
  BY <1>1, <1>2, SubSeqProperties
<1>4. n - 1 + 1 = n /\ (\A i \in 1 .. n : 1 + i - 1 = i) /\ (~(1 <= n) => n = 0)
  BY <1>1
<1> QED BY <1>3, <1>4 DEF Texts

LEMMA OneMore ==
  ASSUME NEW t \in Texts, NEW x \in Tokens \cup {Null}
  PROVE  /\ Append(t, x) \in Texts /\ Len(Append(t, x)) = Len(t) + 1
         /\ \A i \in 1 .. Len(t) : Append(t, x)[i] = t[i]
         /\ Append(t, x)[Len(t) + 1] = x
BY AppendProperties, TextLength DEF Texts

(* The prefix two texts share.                                             *)
LEMMA SharedPrefix ==
  ASSUME NEW a \in Texts, NEW b \in Texts
  PROVE  /\ CommonPrefix(a, b) \in Nat
         /\ CommonPrefix(a, b) <= Len(a) /\ CommonPrefix(a, b) <= Len(b)
         /\ \A i \in 1 .. CommonPrefix(a, b) : a[i] = b[i]
<1>1. Len(a) \in Nat /\ Len(b) \in Nat
  BY TextLength
<1> DEFINE n == Smaller(Len(a), Len(b))
           S == {i \in 1 .. n : \A j \in 1 .. i : a[j] = b[j]}
<1>2. n \in Nat /\ n <= Len(a) /\ n <= Len(b)
  BY <1>1 DEF Smaller
<1>3. S \subseteq 1 .. n /\ \A i \in S : \A j \in 1 .. i : j \in S
  BY <1>2
<1>4. Cardinality(S) \in 0 .. n /\ S = 1 .. Cardinality(S)
  <2> HIDE DEF n, S
  <2> QED BY <1>2, <1>3, Beginning
<1>5. CommonPrefix(a, b) = Cardinality(S)
  BY DEF CommonPrefix
<1>6. \A i \in S : a[i] = b[i]
  BY <1>2
<1> HIDE DEF n, S
<1> QED BY <1>1, <1>2, <1>4, <1>5, <1>6

(* The text before the first image.                                        *)
LEMMA BeforeNull ==
  ASSUME NEW t \in Texts
  PROVE  /\ UntilNull(t) \in Texts /\ NoNull(UntilNull(t)) /\ Len(UntilNull(t)) <= Len(t)
         /\ \A i \in 1 .. Len(UntilNull(t)) : UntilNull(t)[i] = t[i] /\ t[i] # Null
<1> DEFINE S == {i \in DOMAIN t : \A j \in 1 .. i : t[j] # Null}
           c == Cardinality(S)
<1>1. Len(t) \in Nat /\ DOMAIN t = 1 .. Len(t)
  BY TextLength
<1>2. S \subseteq 1 .. Len(t) /\ \A i \in S : \A j \in 1 .. i : j \in S
  BY <1>1
<1>3. c \in 0 .. Len(t) /\ S = 1 .. c
  <2> HIDE DEF S
  <2> QED BY <1>1, <1>2, Beginning
<1>4. \A i \in S : t[i] # Null
  BY <1>1
<1>5. UntilNull(t) = SubSeq(t, 1, c)
  BY DEF UntilNull
<1> HIDE DEF S, c
<1>6. /\ SubSeq(t, 1, c) \in Texts /\ Len(SubSeq(t, 1, c)) = c
      /\ \A i \in 1 .. c : SubSeq(t, 1, c)[i] = t[i]
  BY <1>3, Prefix
<1>7. NoNull(SubSeq(t, 1, c))
  BY <1>3, <1>4, <1>6, TextLength DEF NoNull
<1> QED BY <1>1, <1>3, <1>4, <1>5, <1>6, <1>7

-----------------------------------------------------------------------------
(* Memories                                                                *)

LEMMA EmptyMemory == IsMemory(Empty) /\ DOMAIN Empty = 0 .. 0 - 1
BY DEF Empty, IsMemory

LEMMA NoPositions ==
  ASSUME NEW m, IsMemory(m)
  PROVE  m = Empty <=> DOMAIN m = {}
BY DEF Empty, IsMemory

LEMMA PlacedMemory ==
  ASSUME NEW text, NEW n \in Nat
  PROVE  IsMemory(Placed(text, n)) /\ Exact(Placed(text, n), text, n)
BY DEF IsMemory, Placed, Exact

LEMMA ExactPlaced ==
  ASSUME NEW m, IsMemory(m), NEW text, NEW n \in Nat, Exact(m, text, n)
  PROVE  m = Placed(text, n)
BY DEF IsMemory, Placed, Exact

LEMMA ExactHeld ==
  ASSUME NEW m, NEW text, NEW n \in Nat, Exact(m, text, n), NEW rec, NEW fits
  PROVE  Held(rec, fits, text, m, n)
BY DEF Exact, Held

LEMMA EmptyHeld ==
  ASSUME NEW text, NEW rec, NEW fits
  PROVE  Held(rec, fits, text, Empty, 0)
BY EmptyMemory DEF Held

(* What is left after a removal: a beginning of what there was.            *)
LEMMA RemovedMemory ==
  ASSUME NEW m, IsMemory(m), NEW p0 \in Nat
  PROVE  IsMemory(Removed(m, p0)) /\ (p0 = 0 => Removed(m, p0) = Empty)
<1>1. Removed(m, p0) = m \/ Removed(m, p0) = [p \in {i \in DOMAIN m : i < p0} |-> m[p]]
  BY DEF Removed
<1>2. IsMemory([p \in {i \in DOMAIN m : i < p0} |-> m[p]])
  BY DEF IsMemory
<1>3. ASSUME p0 = 0 PROVE Removed(m, p0) = Empty
  <2>1. Removed(m, p0) = [p \in {i \in DOMAIN m : i < p0} |-> m[p]]
    BY <1>3 DEF Removed
  <2>2. {i \in DOMAIN m : i < p0} = {}
    BY <1>3 DEF IsMemory
  <2> QED BY <2>1, <2>2 DEF Empty
<1> QED BY <1>1, <1>2, <1>3

Shortened(r, m, k, p0) ==
  \E j \in 0 .. k :
    /\ DOMAIN r = 0 .. j - 1
    /\ \A p \in 0 .. j - 1 : r[p] = m[p]
    /\ ~recurrent => j = Smaller(k, p0)
    /\ recurrent => j = IF p0 = 0 THEN 0 ELSE k

LEMMA RemovedPrefix ==
  ASSUME NEW m, NEW k \in Nat, DOMAIN m = 0 .. k - 1, NEW p0 \in Nat
  PROVE  Shortened(Removed(m, p0), m, k, p0)
<1> SUFFICES \E j \in 0 .. k :
               /\ DOMAIN Removed(m, p0) = 0 .. j - 1
               /\ \A p \in 0 .. j - 1 : Removed(m, p0)[p] = m[p]
               /\ ~recurrent => j = Smaller(k, p0)
               /\ recurrent => j = IF p0 = 0 THEN 0 ELSE k
  BY DEF Shortened
<1>1. CASE recurrent /\ p0 > 0 /\ \E p \in DOMAIN m : p >= p0
  BY <1>1 DEF Removed
<1>2. CASE ~(recurrent /\ p0 > 0 /\ \E p \in DOMAIN m : p >= p0)
  <2> DEFINE j == Smaller(k, p0)
  <2>1. Removed(m, p0) = [p \in {i \in DOMAIN m : i < p0} |-> m[p]]
    BY <1>2 DEF Removed
  <2>2. j \in 0 .. k /\ {i \in 0 .. k - 1 : i < p0} = 0 .. j - 1
    BY DEF Smaller
  <2>3. ASSUME recurrent PROVE j = IF p0 = 0 THEN 0 ELSE k
    <3>1. CASE p0 = 0
      BY <3>1 DEF Smaller
    <3>2. CASE p0 > 0
      <4>1. \A p \in 0 .. k - 1 : ~(p >= p0)
        BY <1>2, <2>3, <3>2
      <4>2. k > p0 => k - 1 \in 0 .. k - 1 /\ k - 1 >= p0
        BY <3>2
      <4> QED BY <3>2, <4>1, <4>2 DEF Smaller
    <3> QED BY <3>1, <3>2
  <2> HIDE DEF j
  <2>4. /\ DOMAIN Removed(m, p0) = 0 .. j - 1
        /\ \A p \in 0 .. j - 1 : Removed(m, p0)[p] = m[p]
    BY <2>1, <2>2
  <2> QED BY <2>2, <2>3, <2>4 DEF j
<1> QED BY <1>1, <1>2

LEMMA JoinedMemory ==
  ASSUME NEW m, IsMemory(m), NEW b, IsMemory(b)
  PROVE  IsMemory(Joined(m, b)) /\ (b = Empty => Joined(m, b) = m)
<1>1. IsMemory(Joined(m, b))
  BY DEF IsMemory, Joined
<1>2. ASSUME b = Empty PROVE Joined(m, b) = m
  <2>1. DOMAIN b = {}
    BY <1>2 DEF Empty
  <2>2. Joined(m, b) = [p \in DOMAIN m |-> m[p]]
    BY <2>1 DEF Joined
  <2> QED BY <2>2 DEF IsMemory
<1> QED BY <1>1, <1>2

(* A batch that llama_decode accepts goes on where the memory ends, up to  *)
(* the first image or all the way.                                         *)
LEMMA AcceptedKept ==
  ASSUME NEW rec, NEW sl, sl.n_past \in Nat,
         NEW m, IsMemory(m), NEW b, IsMemory(b), b # Empty,
         Coming(rec, sl, m, b), Follows(m, b)
  PROVE  /\ Held(rec, Fits(rec, sl), sl.cache_tokens, Joined(m, b), sl.n_past)
         /\ sl.cache_tokens[sl.n_past] # Null => Exact(Joined(m, b), sl.cache_tokens, sl.n_past)
<1> DEFINE cache == sl.cache_tokens
           past == sl.n_past
<1>1. PICK n \in 0 .. past - 1 :
        /\ Held(rec, Fits(rec, sl), cache, m, n)
        /\ DOMAIN b = {p \in n .. past - 1 : cache[p + 1] # Null}
        /\ \A p \in DOMAIN b : b[p] = cache[p + 1]
        /\ \/ \A p \in n .. past - 1 : cache[p + 1] # Null
           \/ sl.media /\ ~rec /\ n > 0
  BY DEF Coming, TextOf
<1>2. PICK k \in Nat :
        /\ DOMAIN m = 0 .. k - 1
        /\ \A p \in 0 .. k - 1 : p < n => m[p] = cache[p + 1]
        /\ n > 0 => k > 0
        /\ ~rec => k <= n /\ (k < n => cache[k + 1] = Null)
        /\ Fits(rec, sl) => k = n
  <2> HIDE DEF cache
  <2> QED BY <1>1 DEF Held
<1> HIDE DEF cache
<1> past \in Nat
  OBVIOUS
<1> HIDE DEF past
<1>3. DOMAIN b # {} /\ \A p, q \in DOMAIN b : p .. q \subseteq DOMAIN b
  BY NoPositions DEF Follows
(* The batch begins where the memory ends. *)
<1>4. k = n /\ n \in DOMAIN b
  <2>1. CASE k = 0
    <3>1. n = 0
      BY <1>2, <2>1
    <3>2. \A p \in n .. past - 1 : cache[p + 1] # Null
      BY <1>1, <3>1
    <3> QED BY <1>1, <2>1, <3>1, <3>2
  <2>2. CASE k > 0
    <3>1. m # Empty
      BY <1>2, <2>2, NoPositions
    <3>2. PICK p \in 0 .. k - 1 :
            /\ p + 1 \in DOMAIN b
            /\ \A i \in 0 .. k - 1 : i <= p
            /\ \A i \in DOMAIN b : i > p
      BY <1>2, <3>1 DEF Follows
    <3>3. p = k - 1
      BY <2>2, <3>2
    <3>4. k \in DOMAIN b /\ k >= n /\ \A i \in DOMAIN b : i >= k
      BY <1>1, <3>2, <3>3
    <3>5. CASE \A i \in n .. past - 1 : cache[i + 1] # Null
      <4>1. n \in DOMAIN b
        BY <1>1, <3>5
      <4> QED BY <3>4, <4>1
    <3>6. CASE ~rec
      BY <1>2, <3>4, <3>6
    <3> QED BY <1>1, <3>5, <3>6
  <2> QED BY <1>2, <2>1, <2>2
(* It ends before an image or with the tokens there are. *)
<1>5. PICK j \in n + 1 .. past :
        /\ DOMAIN b = n .. j - 1
        /\ j < past => ~rec /\ ~Fits(rec, sl) /\ cache[j + 1] = Null
        /\ cache[past] # Null => j = past
  <2>1. CASE past - 1 \in DOMAIN b
    <3>1. n .. past - 1 \subseteq DOMAIN b
      BY <1>3, <1>4, <2>1
    <3>2. DOMAIN b = n .. past - 1 /\ past \in n + 1 .. past
      BY <1>1, <3>1
    <3> QED BY <3>2
  <2>2. CASE past - 1 \notin DOMAIN b
    <3> DEFINE S == {i \in n .. past - 1 : i \notin DOMAIN b}
    <3>1. S \subseteq 0 .. past /\ S # {}
      BY <2>2, <1>1
    <3>2. PICK j \in S : \A i \in S : j <= i
      <4> HIDE DEF S
      <4> QED BY <3>1, LeastExists
    <3>3. j \in n + 1 .. past - 1 /\ j \notin DOMAIN b
      BY <3>2, <1>4
    <3>4. \A i \in n .. j - 1 : i \in DOMAIN b
      BY <3>2, <3>3
    <3>5. \A i \in DOMAIN b : i \in n .. j - 1
      <4> SUFFICES ASSUME NEW i \in DOMAIN b, i > j PROVE FALSE
        BY <1>1, <3>3
      <4>1. n .. i \subseteq DOMAIN b
        BY <1>3, <1>4
      <4>2. j \in n .. i
        BY <1>1, <3>3
      <4> QED BY <3>3, <4>1, <4>2
    <3>6. cache[j + 1] = Null
      BY <1>1, <3>3
    <3>7. past - 1 \in n .. past - 1 /\ cache[past] = Null
      <4>1. past - 1 \in n .. past - 1 /\ past - 1 + 1 = past
        BY <1>1
      <4> QED BY <1>1, <2>2, <4>1
    <3>8. ~rec /\ sl.media
      BY <1>1, <2>2, <3>7
    <3>9. DOMAIN b = n .. j - 1
      BY <3>4, <3>5
    <3>10. j \in n + 1 .. past
      BY <1>1, <3>3
    <3> QED BY <3>6, <3>7, <3>8, <3>9, <3>10 DEF Fits
  <2> QED BY <2>1, <2>2
<1>6. DOMAIN Joined(m, b) = 0 .. j - 1
  <2>1. DOMAIN Joined(m, b) = (0 .. n - 1) \cup (n .. j - 1)
    BY <1>2, <1>4, <1>5 DEF Joined
  <2> QED BY <1>1, <1>5, <2>1
<1>7. \A p \in 0 .. j - 1 : Joined(m, b)[p] = cache[p + 1]
  <2> TAKE p \in 0 .. j - 1
  <2>1. CASE p \in DOMAIN b
    BY <1>1, <1>6, <2>1 DEF Joined
  <2>2. CASE p \notin DOMAIN b
    <3>1. p \in 0 .. n - 1
      BY <1>5, <2>2
    <3> QED BY <1>2, <1>4, <1>6, <2>2, <3>1 DEF Joined
  <2> QED BY <2>1, <2>2
<1>8. Held(rec, Fits(rec, sl), cache, Joined(m, b), past)
  <2>1. j \in Nat /\ j > 0 /\ j <= past
    BY <1>1, <1>5
  <2>2. /\ \A p \in 0 .. j - 1 : p < past => Joined(m, b)[p] = cache[p + 1]
        /\ past > 0 => j > 0
        /\ ~rec => j <= past /\ (j < past => cache[j + 1] = Null)
        /\ Fits(rec, sl) => j = past
    BY <1>5, <1>7, <2>1
  <2> QED BY <1>6, <2>1, <2>2 DEF Held
<1>9. cache[past] # Null => Exact(Joined(m, b), cache, past)
  BY <1>5, <1>6, <1>7 DEF Exact
<1> QED BY <1>8, <1>9 DEF cache, past

(* The positions follow when nothing but text comes.                       *)
LEMMA ComingFollows ==
  ASSUME NEW rec, NEW sl, sl.n_past \in Nat, NEW m, IsMemory(m), NEW b, IsMemory(b),
         Coming(rec, sl, m, b), Fits(rec, sl)
  PROVE  Follows(m, b)
<1>1. PICK n \in 0 .. sl.n_past - 1 :
        /\ Held(rec, Fits(rec, sl), sl.cache_tokens, m, n)
        /\ DOMAIN b = n .. sl.n_past - 1
  BY DEF Coming, TextOf, Fits
<1>2. DOMAIN m = 0 .. n - 1
  BY <1>1 DEF Held
<1>3. \A p, q \in DOMAIN b : p .. q \subseteq DOMAIN b
  BY <1>1
<1>4. ASSUME m # Empty
      PROVE  \E p \in DOMAIN m : /\ p + 1 \in DOMAIN b
                                 /\ \A i \in DOMAIN m : i <= p
                                 /\ \A i \in DOMAIN b : i > p
  <2>1. n > 0
    BY <1>2, <1>4, NoPositions
  <2>2. n - 1 \in DOMAIN m /\ n - 1 + 1 \in DOMAIN b
    BY <1>1, <1>2, <2>1
  <2>3. (\A i \in DOMAIN m : i <= n - 1) /\ (\A i \in DOMAIN b : i > n - 1)
    BY <1>1, <1>2
  <2> QED BY <2>2, <2>3
<1> QED BY <1>3, <1>4 DEF Follows

LEMMA NothingFollows == \A m : Follows(m, Empty)
BY DEF Follows, Empty

-----------------------------------------------------------------------------
(* What a slot begins with                                                 *)

(* load_prompt reuses only what the prompt shares with the slot's tokens,  *)
(* never all of the prompt, and without it leaves nothing in the memory.   *)
Begun(L, cache, m, prompt) ==
  /\ L.reuse \in BOOLEAN /\ L.n_past \in Nat /\ L.n_past < Len(prompt)
  /\ IsMemory(L.mem) /\ L.mem = Removed(m, L.n_past)
  /\ L.n_past = 0 => L.mem = Empty
  /\ ~L.reuse => L.n_past = 0
  /\ L.n_past <= Len(cache) /\ \A i \in 1 .. L.n_past : cache[i] = prompt[i]

LEMMA PromptLoadIs ==
  ASSUME NEW load \in BOOLEAN, NEW cache \in Texts, NEW prompt \in Texts, prompt # <<>>,
         NEW m, IsMemory(m), recurrent \in BOOLEAN
  PROVE  Begun(PromptLoad(load, cache, m, prompt), cache, m, prompt)
<1> DEFINE shared == CommonPrefix(cache, prompt)
           reuse == load /\ cache # <<>> /\ shared > 0 /\ (recurrent => shared = Len(cache))
           past == IF ~reuse THEN 0 ELSE IF shared = Len(prompt) THEN shared - 1 ELSE shared
<1>1. /\ shared \in Nat /\ shared <= Len(cache) /\ shared <= Len(prompt)
      /\ \A i \in 1 .. shared : cache[i] = prompt[i]
  BY SharedPrefix
<1>2. Len(prompt) \in Nat /\ Len(prompt) > 0 /\ Len(cache) \in Nat
  BY TextLength, TextEmpty
<1>3. reuse \in BOOLEAN
  OBVIOUS
<1>4. reuse => shared > 0
  OBVIOUS
<1> DEFINE L == PromptLoad(load, cache, m, prompt)
<1>5. L.reuse = reuse /\ L.n_past = past /\ L.mem = Removed(m, past)
  BY DEF PromptLoad
<1> HIDE DEF shared, reuse, L
<1>6. past \in Nat /\ past < Len(prompt) /\ past <= shared /\ (~reuse => past = 0)
  BY <1>1, <1>2, <1>4
<1> HIDE DEF past
<1>7. IsMemory(Removed(m, past)) /\ (past = 0 => Removed(m, past) = Empty)
  BY <1>6, RemovedMemory
<1>8. past <= Len(cache) /\ \A i \in 1 .. past : cache[i] = prompt[i]
  BY <1>1, <1>2, <1>6
<1> QED BY <1>3, <1>5, <1>6, <1>7, <1>8 DEF Begun, L

LEMMA TargetIs ==
  ASSUME NEW wanted \in BOOLEAN, NEW prompt \in Texts, prompt # <<>>, NEW past \in Nat
  PROVE  /\ CheckpointTarget(wanted, prompt, past) \in 0 .. Len(prompt)
         /\ CheckpointTarget(wanted, prompt, past) > 0 =>
              past <= CheckpointTarget(wanted, prompt, past)
<1>1. Len(prompt) \in Nat /\ Len(prompt) > 0
  BY TextLength, TextEmpty
<1> QED BY <1>1 DEF CheckpointTarget

(* load_state gives the beginning of the file's tokens, with a memory.     *)
LEMMA LoadedTypes ==
  ASSUME file.toks \in Texts, IsMemory(file.mem), NEW q \in Shapes
  PROVE  /\ LoadedTokens(q) \in Texts /\ Len(LoadedTokens(q)) <= Len(file.toks)
         /\ \A i \in 1 .. Len(LoadedTokens(q)) : LoadedTokens(q)[i] = file.toks[i]
         /\ IsMemory(LoadedMemory(q))
<1>1. q.load_size \in Nat /\ Len(file.toks) \in Nat /\ NCtx \in Nat
  BY TextLength, SlotCacheAssumption DEF SlotCacheAssumption, Shape
<1>2. /\ LoadedTokens(q) \in Texts /\ Len(LoadedTokens(q)) <= Len(file.toks)
      /\ \A i \in 1 .. Len(LoadedTokens(q)) : LoadedTokens(q)[i] = file.toks[i]
  <2>1. CASE ~recurrent /\ q.load_size > 0 /\ q.load_size < Len(file.toks)
    <3>1. q.load_size \in 0 .. Len(file.toks)
      BY <1>1, <2>1
    <3>2. LoadedTokens(q) = SubSeq(file.toks, 1, q.load_size)
      BY <2>1 DEF LoadedTokens
    <3> QED BY <1>1, <3>1, <3>2, Prefix
  <2>2. CASE ~(~recurrent /\ q.load_size > 0 /\ q.load_size < Len(file.toks))
    <3>1. LoadedTokens(q) = file.toks
      BY <2>2 DEF LoadedTokens
    <3> QED BY <1>1, <3>1
  <2> QED BY <2>1, <2>2
<1>3. (IF recurrent THEN NCtx + 1 ELSE Len(LoadedTokens(q))) \in Nat
  BY <1>1, <1>2, TextLength
<1>4. IsMemory(LoadedMemory(q))
  BY <1>3, RemovedMemory DEF LoadedMemory
<1> QED BY <1>2, <1>4

(* What load_state and load_prompt leave in the memory is the beginning of *)
(* the prompt that n_past counts; the memory of a recurrent model may be   *)
(* of another length.                                                      *)
LEMMA LoadedHeld ==
  ASSUME file.toks \in Texts, IsMemory(file.mem), Usable(recurrent, file), ~file.tainted,
         file # NoFile, recurrent \in BOOLEAN,
         NEW q \in Shapes, NEW prompt \in Texts, prompt # <<>>,
         NEW L, L = PromptLoad(TRUE, LoadedTokens(q), LoadedMemory(q), prompt),
         NEW fits, fits => ~recurrent
  PROVE  Held(recurrent, fits, prompt, L.mem, L.n_past)
<1> DEFINE cache == LoadedTokens(q)
           m == LoadedMemory(q)
           past == L.n_past
<1>1. /\ cache \in Texts /\ Len(cache) <= Len(file.toks) /\ IsMemory(m)
      /\ \A i \in 1 .. Len(cache) : cache[i] = file.toks[i]
  BY LoadedTypes
<1>2. /\ past \in Nat /\ L.mem = Removed(m, past)
      /\ past <= Len(cache) /\ \A i \in 1 .. past : cache[i] = prompt[i]
  <2> HIDE DEF cache, m
  <2>1. L = PromptLoad(TRUE, cache, m, prompt)
    BY DEF cache, m
  <2>2. Begun(L, cache, m, prompt)
    BY <1>1, <2>1, PromptLoadIs
  <2> QED BY <2>2 DEF Begun
<1>3. Len(cache) \in Nat /\ Len(file.toks) \in Nat /\ NCtx \in Nat
  BY <1>1, TextLength, SlotCacheAssumption DEF SlotCacheAssumption
<1>4. PICK k \in Nat \ {0} :
        /\ DOMAIN file.mem = 0 .. k - 1
        /\ \A p \in 0 .. k - 1 : p < Len(file.toks) => file.mem[p] = file.toks[p + 1]
        /\ ~recurrent => Len(file.toks) <= k
  BY DEF Usable
<1> DEFINE cut == IF recurrent THEN NCtx + 1 ELSE Len(cache)
<1>5. m = Removed(file.mem, cut) /\ cut \in Nat /\ (recurrent => cut > 0)
  BY <1>3 DEF LoadedMemory
<1> HIDE DEF cache, m, past
<1>6. PICK j \in 0 .. k :
        /\ DOMAIN m = 0 .. j - 1
        /\ \A p \in 0 .. j - 1 : m[p] = file.mem[p]
        /\ ~recurrent => j = Smaller(k, cut)
        /\ recurrent => j = IF cut = 0 THEN 0 ELSE k
  <2> HIDE DEF cut
  <2>1. Shortened(m, file.mem, k, cut)
    BY <1>4, <1>5, RemovedPrefix
  <2> QED BY <2>1 DEF Shortened
<1>7. PICK i \in 0 .. j :
        /\ DOMAIN Removed(m, past) = 0 .. i - 1
        /\ \A p \in 0 .. i - 1 : Removed(m, past)[p] = m[p]
        /\ ~recurrent => i = Smaller(j, past)
        /\ recurrent => i = IF past = 0 THEN 0 ELSE j
  <2>1. Shortened(Removed(m, past), m, j, past)
    BY <1>2, <1>6, RemovedPrefix
  <2> QED BY <2>1 DEF Shortened
<1>8. ~recurrent => i = past
  BY <1>1, <1>2, <1>3, <1>4, <1>6, <1>7 DEF Smaller
<1>9. past > 0 => i > 0
  BY <1>2, <1>4, <1>5, <1>6, <1>7, <1>8
<1>10. \A p \in 0 .. i - 1 : p < past => Removed(m, past)[p] = prompt[p + 1]
  <2> SUFFICES ASSUME NEW p \in 0 .. i - 1, p < past
               PROVE  Removed(m, past)[p] = prompt[p + 1]
    OBVIOUS
  <2>1. Removed(m, past)[p] = file.mem[p] /\ p \in 0 .. k - 1
    BY <1>6, <1>7
  <2>2. p < Len(file.toks) /\ p + 1 \in 1 .. past /\ p + 1 \in 1 .. Len(cache)
    BY <1>1, <1>2, <1>3
  <2>3. file.mem[p] = file.toks[p + 1]
    BY <1>4, <2>1, <2>2
  <2> QED BY <1>1, <1>2, <2>1, <2>2, <2>3
<1>11. /\ i \in Nat /\ (~recurrent => i <= past /\ (i < past => prompt[i + 1] = Null))
       /\ fits => i = past
  BY <1>2, <1>6, <1>7, <1>8
<1>12. Held(recurrent, fits, prompt, Removed(m, past), past)
  BY <1>7, <1>9, <1>10, <1>11 DEF Held
<1> QED BY <1>2, <1>12 DEF past

(* A slot goes on where its memory ends when a part of its prompt comes.   *)
LEMMA FilledKept ==
  ASSUME NEW rec, NEW old, NEW new, NEW m,
         old.n_past \in Nat, old.cache_tokens \in Texts,
         Held(rec, Fits(rec, old), old.cache_tokens, m, old.n_past),
         NoNull(old.cache_tokens) \/ (old.media /\ old.n_past > 0 /\ ~rec),
         NEW end \in old.n_past .. Len(old.cache_tokens), new.n_past = end,
         new.cache_tokens = old.cache_tokens, new.media = old.media, new.load = old.load,
         NEW b, IsMemory(b), TextOf(b, old.cache_tokens, old.n_past, end)
  PROVE  Kept(rec, new, m, b)
<1> DEFINE n == old.n_past
           cache == old.cache_tokens
           added == DOMAIN b
<1>1. Fits(rec, new) = Fits(rec, old) /\ Len(cache) \in Nat /\ DOMAIN cache = 1 .. Len(cache)
  BY TextLength DEF Fits
<1>2. /\ added = {} <=> b = Empty
      /\ added = {p \in n .. end - 1 : cache[p + 1] # Null}
  BY NoPositions DEF TextOf
<1>3. CASE added # {}
  <2>1. n \in 0 .. end - 1
    BY <1>1, <1>2, <1>3
  <2>2. \/ \A p \in n .. end - 1 : cache[p + 1] # Null
        \/ new.media /\ ~rec /\ n > 0
    BY <1>1 DEF NoNull
  <2>3. Coming(rec, new, m, b)
    BY <1>1, <2>1, <2>2 DEF Coming
  <2> QED BY <1>2, <1>3, <2>3 DEF Kept
<1>4. CASE added = {} /\ end = n
  BY <1>1, <1>2, <1>4 DEF Kept
<1>5. CASE added = {} /\ end # n
  <2>1. PICK k \in Nat :
          /\ DOMAIN m = 0 .. k - 1
          /\ \A p \in 0 .. k - 1 : p < n => m[p] = cache[p + 1]
          /\ n > 0 => k > 0
          /\ ~rec => k <= n /\ (k < n => cache[k + 1] = Null)
    BY DEF Held
  <2>2. n \in n .. end - 1 /\ n + 1 \in DOMAIN cache
    BY <1>1, <1>5
  <2>3. cache[n + 1] = Null
    BY <1>2, <1>5, <2>2
  <2>4. old.media /\ n > 0 /\ ~rec /\ ~Fits(rec, new)
    BY <2>2, <2>3 DEF NoNull, Fits
  <2>5. k <= n /\ n < end /\ k > 0 /\ cache[k + 1] = Null
    BY <1>5, <2>1, <2>3, <2>4
  <2>6. Held(rec, Fits(rec, new), cache, m, end)
    BY <2>1, <2>4, <2>5 DEF Held
  <2> QED BY <1>2, <1>5, <2>6 DEF Kept
<1> QED BY <1>3, <1>4, <1>5

-----------------------------------------------------------------------------
(* Requests and slots                                                      *)

LEMMA DocsAre ==
  ASSUME NEW docs \in Seq(Texts), docs # <<>>
  PROVE  /\ Len(docs) \in Nat \ {0} /\ DOMAIN docs = 1 .. Len(docs)
         /\ 1 \in DOMAIN docs /\ Head(docs) = docs[1] /\ Head(docs) \in Texts
         /\ \A i \in DOMAIN docs : docs[i] \in Texts
         /\ Tail(docs) \in Seq(Texts)
         /\ Len(docs) > 1 => Tail(docs) # <<>>
         /\ \A i \in DOMAIN Tail(docs) : i + 1 \in DOMAIN docs /\ Tail(docs)[i] = docs[i + 1]
<1>1. Len(docs) \in Nat /\ DOMAIN docs = 1 .. Len(docs) /\ Len(docs) # 0
  BY LenProperties, EmptySeq
<1>2. \A i \in DOMAIN docs : docs[i] \in Texts
  BY <1>1, ElementOfSeq
<1>3. /\ Head(docs) = docs[1] /\ Tail(docs) \in Seq(Texts)
      /\ Len(Tail(docs)) = Len(docs) - 1
      /\ \A i \in 1 .. Len(docs) - 1 : Tail(docs)[i] = docs[i + 1]
  BY HeadTailProperties
<1>4. Len(Tail(docs)) \in Nat /\ DOMAIN Tail(docs) = 1 .. Len(Tail(docs)) /\ Len(<<>>) = 0
  BY <1>3, LenProperties, EmptySeq
<1>5. Len(docs) > 1 => Tail(docs) # <<>>
  <2>1. Tail(docs) = <<>> => Len(Tail(docs)) = 0
    BY <1>4
  <2> QED BY <1>1, <1>3, <2>1
<1>6. \A i \in DOMAIN Tail(docs) : i + 1 \in DOMAIN docs /\ Tail(docs)[i] = docs[i + 1]
  BY <1>1, <1>3, <1>4
<1> QED BY <1>1, <1>2, <1>3, <1>5, <1>6

LEMMA ShapeIs ==
  ASSUME NEW q \in Shapes
  PROVE  /\ q.task \in Tasks /\ q.media \in BOOLEAN /\ q.load \in BOOLEAN /\ q.save \in BOOLEAN
         /\ q.checkpoint \in BOOLEAN /\ q.load_size \in Nat /\ q.save_size \in Nat
         /\ q.prompts \in Seq(Texts) /\ q.prompts # <<>>
         /\ \A i \in DOMAIN q.prompts : q.prompts[i] \in Texts /\ q.prompts[i] # <<>>
         /\ q.prompts[1] = Head(q.prompts) /\ 1 \in DOMAIN q.prompts
<1>1. q \in Shape /\ q.prompts # <<>> /\ \A i \in DOMAIN q.prompts : q.prompts[i] # <<>>
  BY SlotCacheAssumption DEF SlotCacheAssumption
<1>2. q.prompts \in Seq(Texts)
  BY <1>1 DEF Shape
<1> QED BY <1>1, <1>2, DocsAre DEF Shape

(* What a request adds to a slot.                                          *)
LEMMA PathsAre ==
  ASSUME NEW sl \in SlotRecord, NEW q \in Shapes, NEW r, r = WithPaths(sl, q)
  PROVE  /\ r \in SlotRecord
         /\ r.task = "completion" /\ r.media = q.media /\ r.load = q.load
         /\ r.save_prompt = q.checkpoint
<1>1. "completion" \in Tasks
  BY DEF Tasks
<1> QED BY <1>1, ShapeIs DEF WithPaths, SlotRecord

LEMMA TakenIs ==
  ASSUME NEW sl \in SlotRecord, NEW q \in Shapes, NEW r, r = Taken(sl, q)
  PROVE  /\ r \in SlotRecord
         /\ r.task = q.task /\ r.media = FALSE /\ r.load = sl.load
BY ShapeIs DEF Taken, SlotRecord

LEMMA PromptedIs ==
  ASSUME NEW sl \in SlotRecord, NEW docs \in Seq(Texts), docs # <<>>, Head(docs) # <<>>,
         NEW past \in Nat, NEW r, r = Prompted(sl, docs, past)
  PROVE  /\ r \in SlotRecord
         /\ r.state = "PROCESSING_PROMPT" /\ r.docs = docs /\ r.cache_tokens = Head(docs)
         /\ r.n_past = past /\ r.task = sl.task /\ r.media = sl.media /\ r.load = sl.load
         /\ r.checkpoint \in Nat /\ r.checkpoint <= Len(Head(docs))
         /\ r.checkpoint > 0 => past <= r.checkpoint
<1>1. Head(docs) \in Texts /\ sl.save_prompt \in BOOLEAN
  BY DocsAre DEF SlotRecord
<1> DEFINE target == CheckpointTarget(sl.save_prompt, Head(docs), past)
<1>2. target \in Nat /\ target <= Len(Head(docs)) /\ (target > 0 => past <= target)
  <2>1. Len(Head(docs)) \in Nat
    BY <1>1, TextLength
  <2>2. target \in 0 .. Len(Head(docs)) /\ (target > 0 => past <= target)
    BY <1>1, TargetIs
  <2> HIDE DEF target
  <2> QED BY <2>1, <2>2
<1>3. r = [sl EXCEPT !.state = "PROCESSING_PROMPT", !.docs = docs, !.cache_tokens = Head(docs),
                     !.n_past = past, !.i_batch = -1, !.checkpoint = target]
  BY DEF Prompted
<1> HIDE DEF target
<1>4. r \in SlotRecord
  BY <1>1, <1>2, <1>3 DEF SlotRecord, Busy
<1>5. /\ r.state = "PROCESSING_PROMPT" /\ r.docs = docs /\ r.cache_tokens = Head(docs)
      /\ r.n_past = past /\ r.task = sl.task /\ r.media = sl.media /\ r.load = sl.load
      /\ r.checkpoint = target
  BY <1>3 DEF SlotRecord
<1> QED BY <1>2, <1>4, <1>5

(* A slot whose prompt was loaded is ready for the batches.                *)
LEMMA Starting ==
  ASSUME NEW sl \in SlotRecord, NEW docs \in Seq(Texts), docs # <<>>, Head(docs) # <<>>,
         NEW past \in Nat, past < Len(Head(docs)), NEW rec, NEW m, NEW dist,
         Head(docs)[Len(Head(docs))] # Null,
         NoNull(Head(docs)) \/ (sl.media /\ (past > 0 => ~rec)),
         sl.task = "rerank" => \A i \in DOMAIN docs : docs[i] # <<>> /\ NoNull(docs[i]),
         NEW r, r = Prompted(sl, docs, past),
         ~dist => Held(rec, Fits(rec, r), Head(docs), m, past)
  PROVE  Sane(rec, r, m, Empty, dist, "prompt")
<1>1. /\ r.docs = docs /\ r.cache_tokens = Head(docs)
      /\ r.n_past = past /\ r.task = sl.task /\ r.media = sl.media
      /\ r.checkpoint <= Len(Head(docs))
  <2>1. /\ r.docs = docs /\ r.cache_tokens = Head(docs)
        /\ r.n_past = past /\ r.task = sl.task /\ r.media = sl.media
    BY DEF Prompted, SlotRecord
  <2>2. \A t : t = Prompted(sl, docs, past) => t.checkpoint <= Len(Head(docs))
    BY PromptedIs
  <2> QED BY <2>1, <2>2
<1>2. Head(docs) \in Texts /\ Len(Head(docs)) \in Nat
  BY DocsAre, TextLength
<1>3. Prefilling(rec, r)
  BY <1>1 DEF Prefilling
<1>4. InUse(r)
  BY <1>1, <1>2 DEF InUse
<1>5. ~dist => Kept(rec, r, m, Empty)
  BY <1>1 DEF Kept
<1> QED BY <1>3, <1>4, <1>5 DEF Sane

(* The invariant of a slot reads only these fields, and asks less of a     *)
(* slot that is out of the round.                                          *)
SameFields(new, old) ==
  /\ new.docs = old.docs /\ new.cache_tokens = old.cache_tokens /\ new.n_past = old.n_past
  /\ new.checkpoint \in {old.checkpoint, 0} /\ new.media = old.media /\ new.load = old.load
  /\ new.task = old.task /\ new.generated = old.generated

LEMMA SaneStays ==
  ASSUME NEW rec, NEW new, NEW old, NEW m, NEW b, NEW dist, NEW stage, NEW after,
         Sane(rec, old, m, b, dist, stage), SameFields(new, old), after \in {stage, "other"},
         old.cache_tokens \in Texts
  PROVE  Sane(rec, new, m, b, dist, after)
<1>0. Len(old.cache_tokens) \in Nat
  BY TextLength
<1>1. Fits(rec, new) = Fits(rec, old) /\ (Due(new) => Due(old))
  BY DEF SameFields, Fits, Due
<1>2. /\ Kept(rec, old, m, b) => Kept(rec, new, m, b)
      /\ Covered(old, m) => Covered(new, m)
  BY <1>1 DEF SameFields, Kept, Coming, Covered
<1>3. (Prefilling(rec, old) => Prefilling(rec, new)) /\ (InUse(old) => InUse(new))
  BY <1>0 DEF SameFields, Prefilling, InUse
<1>4. CASE after = "other"
  BY <1>1, <1>2, <1>4 DEF Sane, SameFields
<1>5. CASE after = stage
  BY <1>1, <1>2, <1>3, <1>5 DEF Sane, SameFields
<1> QED BY <1>4, <1>5

-----------------------------------------------------------------------------
(* Steps                                                                   *)

LEMMA Facts ==
  ASSUME Inv
  PROVE  /\ recurrent \in BOOLEAN /\ slot \in [Slots -> SlotRecord]
         /\ file.toks \in Texts /\ file.tainted \in BOOLEAN /\ IsMemory(file.mem)
         /\ \A s \in Slots :
              /\ slot[s] \in SlotRecord /\ slot[s].cache_tokens \in Texts
              /\ slot[s].n_past \in Nat /\ slot[s].checkpoint \in Nat
              /\ slot[s].docs \in Seq(Texts) /\ slot[s].load \in BOOLEAN
              /\ slot[s].task \in Tasks /\ slot[s].media \in BOOLEAN
              /\ IsMemory(mem[s]) /\ IsMemory(batch[s]) /\ disturbed[s] \in BOOLEAN
              /\ SlotInv(s) /\ PlaceInv(s)
<1>1. slot \in [Slots -> SlotRecord]
  BY DEF Inv, Types, TypeOK
<1>2. \A s \in Slots : slot[s] \in SlotRecord
  BY <1>1
<1>3. \A s \in Slots : disturbed[s] \in BOOLEAN
  BY DEF Inv, Types, TypeOK
<1> QED BY <1>1, <1>2, <1>3 DEF Inv, Types, TypeOK, SlotRecord

(* A change of one slot's memory, or of its part of the batch.             *)
LEMMA MemoryOfOne ==
  ASSUME Inv, NEW s \in Slots, IsMemory(mem'[s]), \A t \in Slots \ {s} : mem'[t] = mem[t]
  PROVE  \A t \in Slots : IsMemory(mem'[t]) /\ DOMAIN mem'[t] \subseteq Nat
<1>1. ASSUME NEW t \in Slots PROVE IsMemory(mem'[t])
  BY Facts
<1>2. \A m : IsMemory(m) => DOMAIN m \subseteq Nat
  BY DEF IsMemory
<1> QED BY <1>1, <1>2

LEMMA BatchOfOne ==
  ASSUME Inv, NEW s \in Slots, IsMemory(batch'[s]), \A t \in Slots \ {s} : batch'[t] = batch[t]
  PROVE  \A t \in Slots : IsMemory(batch'[t]) /\ DOMAIN batch'[t] \subseteq Nat
<1>1. ASSUME NEW t \in Slots PROVE IsMemory(batch'[t])
  BY Facts
<1>2. \A m : IsMemory(m) => DOMAIN m \subseteq Nat
  BY DEF IsMemory
<1> QED BY <1>1, <1>2

LEMMA SlotNumbers ==
  /\ NSlots \in Nat /\ NSlots > 0 /\ Slots = 1 .. NSlots
  /\ \A s \in Slots : s \in Int /\ 1 <= s /\ s <= NSlots
BY SlotCacheAssumption DEF SlotCacheAssumption, Slots

LEMMA Changed ==
  ASSUME slot \in [Slots -> SlotRecord], NEW s \in Slots, NEW r \in SlotRecord,
         slot' = [slot EXCEPT ![s] = r]
  PROVE  /\ slot' \in [Slots -> SlotRecord] /\ slot'[s] = r
         /\ \A t \in Slots \ {s} : slot'[t] = slot[t]
OBVIOUS

(* A step that changes no slot, only where the thread is.                  *)
LEMMA NoSlotChanges ==
  ASSUME Inv, recurrent' = recurrent, slot' = slot, mem' = mem, disturbed' = disturbed,
         \A t \in Slots : Pending(t)' = Pending(t) /\ Stage(t)' = Stage(t)
  PROVE  \A t \in Slots : SlotInv(t)'
BY DEF Inv, SlotInv

(* A step of one slot.                                                     *)
LEMMA OneSlot ==
  ASSUME Inv, recurrent' = recurrent, NEW s \in Slots,
         \A t \in Slots \ {s} :
           /\ slot'[t] = slot[t] /\ mem'[t] = mem[t] /\ disturbed'[t] = disturbed[t]
           /\ Pending(t)' = Pending(t) /\ Stage(t)' = Stage(t),
         Sane(recurrent, slot'[s], mem'[s], Pending(s)', disturbed'[s], Stage(s)')
  PROVE  \A t \in Slots : SlotInv(t)'
<1> SUFFICES ASSUME NEW t \in Slots PROVE SlotInv(t)'
  OBVIOUS
<1>1. CASE t = s
  BY <1>1 DEF SlotInv
<1>2. CASE t # s
  BY <1>2 DEF Inv, SlotInv
<1> QED BY <1>1, <1>2

(* One that only changes the state of slot s, which leaves the round or    *)
(* stays where it is.                                                      *)
LEMMA StateChanges ==
  ASSUME Inv, recurrent' = recurrent, NEW s \in Slots,
         \A t \in Slots \ {s} : slot'[t] = slot[t] /\ Stage(t)' = Stage(t),
         mem' = mem, disturbed' = disturbed, \A t \in Slots : Pending(t)' = Pending(t),
         SameFields(slot'[s], slot[s]), Stage(s)' \in {Stage(s), "other"}
  PROVE  \A t \in Slots : SlotInv(t)'
<1>1. Sane(recurrent, slot[s], mem[s], Pending(s), disturbed[s], Stage(s))
  BY DEF Inv, SlotInv
<1>2. Sane(recurrent, slot'[s], mem[s], Pending(s), disturbed[s], Stage(s)')
  BY <1>1, Facts, SaneStays
<1> QED BY <1>2, OneSlot

LEMMA StepPendingDone == ASSUME Inv, PendingDone PROVE Inv'
<1>1. Types'
  BY DEF Inv, Types, TypeOK, outputs, PendingDone
<1>2. \A t \in Slots : Pending(t)' = Pending(t) /\ Stage(t)' = Stage(t)
  BY DEF Inv, PlaceInv, PendingDone, Pending, Stage, Unsampled
<1>3. \A t \in Slots : SlotInv(t)'
  BY <1>2, NoSlotChanges DEF PendingDone
<1>4. \A t \in Slots : PlaceInv(t)'
  BY DEF PendingDone, PlaceInv
<1> QED BY <1>1, <1>3, <1>4 DEF Inv, Usable, PendingDone

LEMMA StepPromptSlot == ASSUME Inv, NEW s \in Slots, PromptSlot(s) PROVE Inv'
<1>1. Types'
  BY SlotNumbers DEF Inv, Types, TypeOK, outputs, PromptSlot
<1>2. \A t \in Slots : Pending(t)' = Pending(t) /\ Stage(t)' = Stage(t)
  BY SlotNumbers DEF Inv, Types, TypeOK, PromptSlot, Next_slot, Pending, Stage, Unsampled
<1>3. \A t \in Slots : SlotInv(t)'
  BY <1>2, NoSlotChanges DEF PromptSlot
<1>4. \A t \in Slots : PlaceInv(t)'
  BY DEF PromptSlot, PlaceInv, Next_slot
<1> QED BY <1>1, <1>3, <1>4 DEF Inv, Usable, PromptSlot

LEMMA StepPromptDone == ASSUME Inv, PromptDone PROVE Inv'
<1>1. Types'
  BY DEF Inv, Types, TypeOK, outputs, PromptDone
<1>2. \A t \in Slots : Pending(t)' = Pending(t) /\ Stage(t)' = Stage(t)
  BY DEF Inv, Types, TypeOK, PromptDone, None_left, Pending, Stage, Unsampled
<1>3. \A t \in Slots : SlotInv(t)'
  BY <1>2, NoSlotChanges DEF PromptDone
<1>4. \A t \in Slots : PlaceInv(t)'
  BY DEF PromptDone, PlaceInv
<1> QED BY <1>1, <1>3, <1>4 DEF Inv, Usable, PromptDone

LEMMA StepCheckpointDone == ASSUME Inv, CheckpointDone PROVE Inv'
<1>1. Types'
  BY SlotNumbers DEF Inv, Types, TypeOK, outputs, CheckpointDone
<1>2. \A t \in Slots : Pending(t)' = Pending(t) /\ Stage(t)' = Stage(t)
  BY SlotNumbers DEF CheckpointDone, Pending, Stage, Unsampled
<1>3. \A t \in Slots : SlotInv(t)'
  BY <1>2, NoSlotChanges DEF CheckpointDone
<1>4. \A t \in Slots : PlaceInv(t)'
  BY DEF CheckpointDone, CheckpointDue, Due, PlaceInv
<1> QED BY <1>1, <1>3, <1>4 DEF Inv, Usable, CheckpointDone

LEMMA StepSampleSlot == ASSUME Inv, NEW s \in Slots, SampleSlot(s) PROVE Inv'
<1>1. Types'
  BY SlotNumbers DEF Inv, Types, TypeOK, outputs, SampleSlot
<1>2. \A t \in Slots : Pending(t)' = Pending(t) /\ Stage(t)' = Stage(t)
  BY SlotNumbers DEF Inv, Types, TypeOK, SampleSlot, Next_slot, Pending, Stage, Unsampled
<1>3. \A t \in Slots : SlotInv(t)'
  BY <1>2, NoSlotChanges DEF SampleSlot
<1>4. \A t \in Slots : PlaceInv(t)'
  BY DEF Inv, SampleSlot, Next_slot, PlaceInv
<1> QED BY <1>1, <1>3, <1>4 DEF Inv, Usable, SampleSlot

LEMMA StepSampleDone == ASSUME Inv, SampleDone PROVE Inv'
<1>1. Types'
  BY SlotNumbers DEF Inv, Types, TypeOK, outputs, SampleDone
<1>2. \A t \in Slots : Pending(t)' = Pending(t) /\ Stage(t)' = Stage(t)
  BY DEF SampleDone, None_left, Pending, Stage, Unsampled
<1>3. \A t \in Slots : SlotInv(t)'
  BY <1>2, NoSlotChanges DEF SampleDone
<1>4. \A t \in Slots : PlaceInv(t)'
  BY DEF SampleDone, PlaceInv
<1> QED BY <1>1, <1>3, <1>4 DEF Inv, Usable, SampleDone

LEMMA StepReleaseDone == ASSUME Inv, ReleaseDone PROVE Inv'
<1>1. Types'
  BY DEF Inv, Types, TypeOK, outputs, ReleaseDone
<1>2. \A t \in Slots : Pending(t)' = Pending(t) /\ Stage(t)' = Stage(t)
  BY DEF ReleaseDone, Pending, Stage, Unsampled
<1>3. \A t \in Slots : SlotInv(t)'
  BY <1>2, NoSlotChanges DEF ReleaseDone
<1>4. \A t \in Slots : PlaceInv(t)'
  BY DEF ReleaseDone, PlaceInv
<1> QED BY <1>1, <1>3, <1>4 DEF Inv, Usable, ReleaseDone

LEMMA StepNothing == ASSUME Inv, UNCHANGED vars PROVE Inv'
<1>1. Types'
  BY DEF Inv, Types, TypeOK, vars, outputs, loop
<1>2. \A t \in Slots : Pending(t)' = Pending(t) /\ Stage(t)' = Stage(t)
  BY DEF vars, loop, Pending, Stage, Unsampled
<1>3. \A t \in Slots : SlotInv(t)'
  BY <1>2, NoSlotChanges DEF vars
<1>4. \A t \in Slots : PlaceInv(t)'
  BY DEF Inv, PlaceInv, vars, loop
<1> QED BY <1>1, <1>3, <1>4 DEF Inv, Usable, vars

-----------------------------------------------------------------------------
(* Cancellation and the end of a round                                     *)

LEMMA StepCancel == ASSUME Inv, NEW s \in Slots, Cancel(s) PROVE Inv'
<1> DEFINE r == [slot[s] EXCEPT !.state = "DONE", !.is_interrupted = TRUE]
<1>1. slot' = [slot EXCEPT ![s] = r]
  BY DEF Cancel
<1>2. r \in SlotRecord /\ r.state = "DONE" /\ SameFields(r, slot[s]) /\ (Due(r) <=> Due(slot[s]))
  BY Facts DEF SlotRecord, SameFields, Due
<1> HIDE DEF r
<1>3. /\ slot' \in [Slots -> SlotRecord] /\ slot'[s] = r
      /\ \A t \in Slots \ {s} : slot'[t] = slot[t]
  BY <1>1, <1>2, Facts
<1>4. Types'
  BY <1>3 DEF Inv, Types, TypeOK, Cancel, outputs, loop
<1>5. /\ \A t \in Slots \ {s} : Stage(t)' = Stage(t)
      /\ \A t \in Slots : Pending(t)' = Pending(t)
      /\ Stage(s)' \in {Stage(s), "other"}
  BY <1>2, <1>3 DEF Cancel, loop, Stage, Unsampled, Pending
<1>6. \A t \in Slots : SlotInv(t)'
  BY <1>2, <1>3, <1>5, StateChanges DEF Cancel
<1>7. \A t \in Slots : PlaceInv(t)'
  BY <1>2, <1>3 DEF Inv, PlaceInv, Cancel, loop
<1> QED BY <1>4, <1>6, <1>7 DEF Inv, Usable, Cancel

LEMMA StepSampleSkip == ASSUME Inv, NEW s \in Slots, SampleSkip(s) PROVE Inv'
<1> DEFINE r == [slot[s] EXCEPT !.state = "DONE"]
<1>1. slot' = [slot EXCEPT ![s] = r]
  BY DEF SampleSkip
<1>2. r \in SlotRecord /\ r.state = "DONE" /\ SameFields(r, slot[s]) /\ (Due(r) <=> Due(slot[s]))
  BY Facts DEF SlotRecord, SameFields, Due
<1> HIDE DEF r
<1>3. /\ slot' \in [Slots -> SlotRecord] /\ slot'[s] = r
      /\ \A t \in Slots \ {s} : slot'[t] = slot[t]
  BY <1>1, <1>2, Facts
<1>4. Types'
  BY <1>3, SlotNumbers DEF Inv, Types, TypeOK, SampleSkip, outputs, loop
<1>5. /\ \A t \in Slots \ {s} : Stage(t)' = Stage(t)
      /\ \A t \in Slots : Pending(t)' = Pending(t)
      /\ Stage(s)' \in {Stage(s), "other"}
  BY <1>2, <1>3, SlotNumbers
  DEF Inv, Types, TypeOK, SampleSkip, Next_slot, Stage, Unsampled, Pending
<1>6. \A t \in Slots : SlotInv(t)'
  BY <1>2, <1>3, <1>5, StateChanges DEF SampleSkip
<1>7. \A t \in Slots : PlaceInv(t)'
  BY <1>2, <1>3 DEF Inv, PlaceInv, SampleSkip
<1> QED BY <1>4, <1>6, <1>7 DEF Inv, Usable, SampleSkip

(* After a reset the slot has its tokens, and no request.                  *)
LEMMA FreshIs ==
  ASSUME NEW cache \in Texts
  PROVE  /\ Fresh(cache) \in SlotRecord /\ Fresh(cache).state = "IDLE"
         /\ Fresh(cache).checkpoint = 0
BY EmptySeq DEF Fresh, SlotRecord, Busy, Tasks

LEMMA FreshSane ==
  ASSUME NEW cache \in Texts, NEW rec, NEW m, NEW dist
  PROVE  Sane(rec, Fresh(cache), m, Empty, dist, "other") /\ ~Due(Fresh(cache))
BY FreshIs DEF Sane, Due

LEMMA StepRelease == ASSUME Inv, NEW s \in Slots, Release(s) PROVE Inv'
<1> DEFINE r == Fresh(slot[s].cache_tokens)
<1>1. slot' = [slot EXCEPT ![s] = r]
  BY DEF Release
<1>2. /\ r \in SlotRecord /\ r.state = "IDLE" /\ ~Due(r)
      /\ Sane(recurrent, r, mem[s], Empty, disturbed[s], "other")
  BY Facts, FreshIs, FreshSane
<1> HIDE DEF r
<1>3. /\ slot' \in [Slots -> SlotRecord] /\ slot'[s] = r
      /\ \A t \in Slots \ {s} : slot'[t] = slot[t]
  BY <1>1, <1>2, Facts
<1>4. t_last_used' \in [Slots -> Int]
  BY SlotNumbers DEF Inv, Types, TypeOK, Release
<1>5. Types'
  BY <1>3, <1>4, SlotNumbers DEF Inv, Types, TypeOK, Release, outputs
<1>6. /\ \A t \in Slots \ {s} : Stage(t)' = Stage(t)
      /\ \A t \in Slots : Pending(t)' = Empty /\ Pending(t) = Empty
      /\ Stage(s)' = "other"
  BY <1>2, <1>3 DEF Release, Stage, Unsampled, Pending
<1>7. \A t \in Slots : SlotInv(t)'
  <2>1. /\ mem' = mem /\ disturbed' = disturbed /\ recurrent' = recurrent
        /\ \A t \in Slots \ {s} : Stage(t)' = Stage(t) /\ Pending(t)' = Pending(t)
        /\ Sane(recurrent, slot'[s], mem'[s], Pending(s)', disturbed'[s], Stage(s)')
    BY <1>2, <1>3, <1>6 DEF Release
  <2> QED BY <1>3, <2>1, OneSlot
<1>8. \A t \in Slots : PlaceInv(t)'
  BY <1>2, <1>3 DEF Inv, PlaceInv, Release
<1> QED BY <1>5, <1>7, <1>8 DEF Inv, Usable, Release

-----------------------------------------------------------------------------
(* The batch                                                               *)

(* What the invariant says of the slot the loop has come to.               *)
LEMMA AtFill ==
  ASSUME Inv, NEW s \in Slots, pc = "fill", s = scan
  PROVE  /\ Stage(s) = "waiting" /\ batch[s] = Empty /\ Prompt(s) = slot[s].cache_tokens
         /\ Prefilling(recurrent, slot[s]) /\ InUse(slot[s])
         /\ slot[s].state # "GENERATING"
         /\ ~disturbed[s] => Held(recurrent, Fits(recurrent, slot[s]), slot[s].cache_tokens,
                                  mem[s], slot[s].n_past)
<1>1. Stage(s) = "waiting" /\ Pending(s) = batch[s]
  BY DEF Stage, Pending
<1>2. Sane(recurrent, slot[s], mem[s], batch[s], disturbed[s], "waiting")
  BY <1>1, Facts DEF SlotInv
<1>3. slot[s].state # "GENERATING"
  BY Facts DEF PlaceInv
<1> QED BY <1>1, <1>2, <1>3 DEF Sane, Prefilling, Prompt, Kept

LEMMA StepFillMedia == ASSUME Inv, NEW s \in Slots, FillMedia(s) PROVE Inv'
<1> DEFINE cache == slot[s].cache_tokens
           n == Len(cache)
           r == [slot[s] EXCEPT !.media = FALSE, !.n_past = n,
                                !.state = "GENERATING", !.i_batch = -1]
<1>0. cache \in Texts /\ n \in Nat /\ n > 0 /\ slot[s] \in SlotRecord
  BY Facts, AtFill, TextLength, TextEmpty DEF FillMedia, InUse
<1>1. slot' = [slot EXCEPT ![s] = r] /\ mem' = [mem EXCEPT ![s] = Placed(cache, n)]
      /\ batch[s] = Empty /\ InUse(slot[s]) /\ recurrent' = recurrent
      /\ pc' = "prompt" /\ scan' = s + 1 /\ pc = "fill" /\ scan = s
      /\ batch' = batch /\ disturbed' = disturbed
  BY AtFill DEF FillMedia
<1>2. /\ r \in SlotRecord /\ r.state = "GENERATING" /\ r.n_past = n /\ r.cache_tokens = cache
      /\ r.docs = slot[s].docs /\ r.checkpoint = slot[s].checkpoint /\ r.task = slot[s].task
  BY <1>0 DEF SlotRecord, Busy
<1> HIDE DEF r, n, cache
<1>3. /\ slot' \in [Slots -> SlotRecord] /\ slot'[s] = r
      /\ \A t \in Slots \ {s} : slot'[t] = slot[t]
  BY <1>1, <1>2, Facts
<1>4. /\ mem'[s] = Placed(cache, n) /\ DOMAIN mem' = Slots
      /\ \A t \in Slots \ {s} : mem'[t] = mem[t]
  BY <1>1 DEF Inv, Types
<1>5. IsMemory(Placed(cache, n)) /\ Exact(Placed(cache, n), cache, n)
  BY <1>0, PlacedMemory
<1>6. Types'
  <2>1. \A t \in Slots : IsMemory(mem'[t]) /\ DOMAIN mem'[t] \subseteq Nat
    BY <1>4, <1>5, MemoryOfOne
  <2>2. /\ logits' \in Slots
        /\ UNCHANGED <<recurrent, t_last_used, file, batch, rows, served, disturbed>>
    BY DEF FillMedia
  <2>3. pc' = "prompt" /\ scan' \in 1 .. NSlots + 1
    BY <1>1, SlotNumbers
  <2> QED BY <1>3, <1>4, <2>1, <2>2, <2>3 DEF Inv, Types, TypeOK
<1>7. /\ \A t \in Slots \ {s} : Stage(t)' = Stage(t) /\ Pending(t)' = Pending(t)
      /\ Stage(s)' = "sampling" /\ Pending(s)' = Empty
  BY <1>1, <1>2, <1>3, SlotNumbers DEF Stage, Unsampled, Pending
<1>8. Sane(recurrent, r, Placed(cache, n), Empty, disturbed[s], "sampling")
  <2>1. InUse(r)
    <3>1. slot[s].checkpoint <= n /\ cache # <<>>
      BY <1>1 DEF InUse, n, cache
    <3> QED BY <1>0, <1>1, <1>2, <3>1 DEF InUse, n
  <2>2. Kept(recurrent, r, Placed(cache, n), Empty)
    BY <1>0, <1>2, <1>5, ExactHeld DEF Kept
  <2>3. r.n_past = Len(r.cache_tokens)
    BY <1>2 DEF n
  <2> QED BY <1>2, <1>5, <2>1, <2>2, <2>3 DEF Sane
<1>9. \A t \in Slots : SlotInv(t)'
  <2>1. Sane(recurrent, slot'[s], mem'[s], Pending(s)', disturbed'[s], Stage(s)')
    BY <1>1, <1>3, <1>4, <1>7, <1>8
  <2> QED BY <1>1, <1>3, <1>4, <1>7, <2>1, OneSlot
<1>10. \A t \in Slots : PlaceInv(t)'
  BY <1>1 DEF PlaceInv
<1> QED BY <1>6, <1>9, <1>10 DEF Inv, Usable, FillMedia

LEMMA StepFailMedia == ASSUME Inv, NEW s \in Slots, FailMedia(s) PROVE Inv'
<1>n. PICK n \in 0 .. Len(Prompt(s)) :
        /\ mem' = [mem EXCEPT ![s] = Placed(Prompt(s), n)]
        /\ \E past \in 0 .. n :
             slot' = [slot EXCEPT ![s].state = "DONE", ![s].n_past = past]
  BY DEF FailMedia
<1>0. PICK past \in 0 .. n : slot' = [slot EXCEPT ![s].state = "DONE", ![s].n_past = past]
  BY <1>n
<1>a. /\ n \in Nat /\ past \in Nat /\ past <= n /\ Prompt(s) = slot[s].cache_tokens
      /\ n <= Len(slot[s].cache_tokens) /\ slot[s].cache_tokens \in Texts
  <2>1. slot[s].cache_tokens \in Texts /\ Len(Prompt(s)) \in Nat
    BY Facts, AtFill, TextLength DEF FailMedia
  <2>2. Prompt(s) = slot[s].cache_tokens
    BY AtFill DEF FailMedia, Prefilling, Prompt
  <2> QED BY <2>1, <2>2
<1> DEFINE r == [slot[s] EXCEPT !.state = "DONE", !.n_past = past]
<1>1. /\ slot' = [slot EXCEPT ![s] = r]
      /\ batch[s] = Empty /\ recurrent' = recurrent
      /\ pc' = "prompt" /\ scan' = s + 1 /\ pc = "fill" /\ scan = s
      /\ batch' = batch /\ disturbed' = disturbed
  <2>1. slot' = [slot EXCEPT ![s] = r]
    BY <1>0, Facts
  <2> QED BY <2>1, AtFill DEF FailMedia
<1>2. /\ r \in SlotRecord /\ r.state = "DONE" /\ r.n_past = past
      /\ r.cache_tokens = slot[s].cache_tokens
  BY <1>a, Facts DEF SlotRecord
<1> HIDE DEF r
<1>3. /\ slot' \in [Slots -> SlotRecord] /\ slot'[s] = r
      /\ \A t \in Slots \ {s} : slot'[t] = slot[t]
  BY <1>1, <1>2, Facts
<1>4. /\ IsMemory(mem'[s]) /\ DOMAIN mem' = Slots
      /\ \A t \in Slots \ {s} : mem'[t] = mem[t]
  <2>2. IsMemory(Placed(Prompt(s), n))
    BY <1>a, PlacedMemory
  <2> QED BY <1>n, <2>2 DEF Inv, Types
<1>5. Types'
  <2>1. \A t \in Slots : IsMemory(mem'[t]) /\ DOMAIN mem'[t] \subseteq Nat
    BY <1>4, MemoryOfOne
  <2>2. /\ logits' \in {logits, s}
        /\ UNCHANGED <<recurrent, t_last_used, file, batch, rows, served, disturbed>>
    BY DEF FailMedia
  <2>3. logits' \in Slots \cup {0} /\ scan' \in 1 .. NSlots + 1 /\ scan' = s + 1
    BY <1>1, <2>2, SlotNumbers DEF Inv, Types, TypeOK
  <2>4. TypeOK'
    BY <1>1, <1>3, <2>1, <2>2, <2>3 DEF Inv, Types, TypeOK
  <2> QED BY <1>1, <1>4, <2>1, <2>2, <2>4 DEF Inv, Types
<1>6. /\ \A t \in Slots \ {s} : Stage(t)' = Stage(t) /\ Pending(t)' = Pending(t)
      /\ Stage(s)' = "other" /\ Pending(s)' = Empty
  BY <1>1, <1>2, <1>3, SlotNumbers DEF Stage, Unsampled, Pending
<1>7. \A t \in Slots : SlotInv(t)'
  <2>1. Covered(r, mem'[s])
    <3>1. mem'[s] = Placed(slot[s].cache_tokens, n)
      BY <1>n, <1>a DEF Inv, Types
    <3> QED BY <1>a, <1>2, <3>1 DEF Covered, Placed
  <2>2. Sane(recurrent, slot'[s], mem'[s], Pending(s)', disturbed'[s], Stage(s)')
    BY <1>3, <1>6, <2>1 DEF Sane
  <2> QED BY <1>1, <1>3, <1>4, <1>6, <2>2, OneSlot
<1>8. \A t \in Slots : PlaceInv(t)'
  BY <1>1 DEF PlaceInv
<1> QED BY <1>5, <1>7, <1>8 DEF Inv, Usable, FailMedia

LEMMA StepFillText == ASSUME Inv, NEW s \in Slots, FillText(s) PROVE Inv'
<1> DEFINE cache == slot[s].cache_tokens
           n == slot[s].n_past
<1>1. PICK end \in FillEnds(s) :
        LET added == TextAt(s, n, end)
        IN /\ batch' = [batch EXCEPT ![s] = [p \in added |-> Prompt(s)[p + 1]]]
           /\ slot' = [slot EXCEPT ![s].n_past = end,
                         ![s].i_batch = IF added = {} THEN @ ELSE 0,
                         ![s].state = IF end >= Len(Prompt(s)) THEN "GENERATING" ELSE @]
           /\ rows' = IF AsksLogits(s, added) THEN s ELSE rows
  BY DEF FillText
<1> DEFINE added == {p \in n .. end - 1 : cache[p + 1] # Null}
           b == [p \in added |-> cache[p + 1]]
           r == [slot[s] EXCEPT !.n_past = end, !.i_batch = IF added = {} THEN @ ELSE 0,
                                !.state = IF end >= Len(cache) THEN "GENERATING" ELSE @]
<1>2. /\ Prompt(s) = cache /\ batch[s] = Empty
      /\ Prefilling(recurrent, slot[s]) /\ InUse(slot[s]) /\ slot[s].state # "GENERATING"
      /\ ~disturbed[s] => Held(recurrent, Fits(recurrent, slot[s]), cache, mem[s], n)
      /\ recurrent' = recurrent /\ mem' = mem /\ disturbed' = disturbed
      /\ pc' = "prompt" /\ scan' = s + 1 /\ pc = "fill" /\ scan = s
  BY AtFill DEF FillText
<1>3. slot[s] \in SlotRecord /\ cache \in Texts /\ n \in Nat /\ Len(cache) \in Nat
      /\ slot[s].checkpoint \in Nat
  BY Facts, TextLength
<1>4. end \in n .. Len(cache)
  <2>1. end \in n .. PromptEnd(s)
    BY DEF FillEnds
  <2>2. slot[s].checkpoint <= Len(cache)
    BY <1>2 DEF InUse
  <2>3. PromptEnd(s) \in Nat /\ PromptEnd(s) <= Len(cache)
    BY <1>2, <1>3, <2>2 DEF PromptEnd
  <2> HIDE DEF n, cache
  <2> QED BY <1>3, <2>1, <2>3
<1>5. TextAt(s, n, end) = added
  BY <1>2 DEF TextAt
<1>6. /\ batch' = [batch EXCEPT ![s] = b] /\ slot' = [slot EXCEPT ![s] = r]
      /\ rows' \in {s, rows}
  BY <1>1, <1>2, <1>5
<1>7. /\ r \in SlotRecord /\ r.n_past = end /\ r.cache_tokens = cache
      /\ r.docs = slot[s].docs /\ r.checkpoint = slot[s].checkpoint /\ r.task = slot[s].task
      /\ r.media = slot[s].media /\ r.load = slot[s].load
      /\ r.state = IF end >= Len(cache) THEN "GENERATING" ELSE slot[s].state
  <2>1. end \in Nat
    BY <1>3, <1>4
  <2> HIDE DEF added
  <2> QED BY <1>3, <2>1 DEF SlotRecord, Busy
<1>8. IsMemory(b)
  BY <1>3 DEF IsMemory
<1>9. ~disturbed[s] => Kept(recurrent, r, mem[s], b)
  <2>1. NoNull(cache) \/ (slot[s].media /\ n > 0 /\ ~recurrent)
    <3>1. NoNull(cache) \/ (slot[s].media /\ (n > 0 => ~recurrent))
      BY <1>2 DEF Prefilling
    <3>2. slot[s].media => n # 0
      BY DEF FillText, HasMedia
    <3> QED BY <1>3, <3>1, <3>2
  <2> SUFFICES ASSUME ~disturbed[s] PROVE Kept(recurrent, r, mem[s], b)
    OBVIOUS
  <2>2. TextOf(b, cache, n, end)
    BY DEF TextOf
  <2> HIDE DEF r, added, b
  <2> QED BY <1>2, <1>3, <1>4, <1>7, <1>8, <2>1, <2>2, FilledKept
<1>10. end >= Len(cache) => end = Len(cache) /\ b # Empty /\ cache[end] # Null
  <2> SUFFICES ASSUME end >= Len(cache)
               PROVE  end = Len(cache) /\ b # Empty /\ cache[end] # Null
    OBVIOUS
  <2>1. end = Len(cache) /\ n < end /\ cache[end] # Null
    BY <1>2, <1>3, <1>4 DEF Prefilling
  <2>2. end - 1 \in n .. end - 1 /\ end - 1 + 1 = end
    BY <1>3, <2>1
  <2>3. end - 1 \in DOMAIN b
    BY <2>1, <2>2
  <2>4. b # Empty
    <3> HIDE DEF b
    <3> QED BY <2>3 DEF Empty
  <2> QED BY <2>1, <2>4
<1>11. InUse(r)
  BY <1>2, <1>3, <1>4, <1>7 DEF InUse
<1>12. end < Len(cache) => Prefilling(recurrent, r)
  <2> SUFFICES ASSUME end < Len(cache) PROVE Prefilling(recurrent, r)
    OBVIOUS
  <2>1. NoNull(cache) \/ (slot[s].media /\ ~recurrent)
    <3>1. NoNull(cache) \/ (slot[s].media /\ (n > 0 => ~recurrent))
      BY <1>2 DEF Prefilling
    <3>2. slot[s].media => n # 0
      BY DEF FillText, HasMedia
    <3> QED BY <1>3, <3>1, <3>2
  <2> HIDE DEF r
  <2> QED BY <1>2, <1>7, <2>1 DEF Prefilling
<1> HIDE DEF r, b, added, n, cache
<1>13. /\ slot' \in [Slots -> SlotRecord] /\ slot'[s] = r
       /\ \A t \in Slots \ {s} : slot'[t] = slot[t]
  BY <1>6, <1>7, Facts
<1>14. /\ batch'[s] = b /\ DOMAIN batch' = Slots
       /\ \A t \in Slots \ {s} : batch'[t] = batch[t]
  BY <1>6 DEF Inv, Types
<1>15. Types'
  <2>1. \A t \in Slots : IsMemory(batch'[t]) /\ DOMAIN batch'[t] \subseteq Nat
    BY <1>8, <1>14, BatchOfOne
  <2>2. rows' \in Slots \cup {0}
    BY <1>6 DEF Inv, Types, TypeOK
  <2>3. UNCHANGED <<recurrent, t_last_used, mem, file, logits, served, disturbed>>
    BY DEF FillText
  <2> QED BY <1>2, <1>13, <1>14, <2>1, <2>2, <2>3, SlotNumbers DEF Inv, Types, TypeOK
<1>16. /\ \A t \in Slots \ {s} : Stage(t)' = Stage(t) /\ Pending(t)' = Pending(t)
       /\ Stage(s)' = IF end >= Len(cache) THEN "sampling"
                      ELSE IF slot[s].state = "PROCESSING_PROMPT" THEN "prompt" ELSE "other"
       /\ Pending(s)' = b
  BY <1>2, <1>7, <1>13, <1>14, SlotNumbers DEF Stage, Unsampled, Pending
<1>17. Sane(recurrent, r, mem[s], b, disturbed[s], Stage(s)')
  <2>1. CASE end >= Len(cache)
    BY <1>7, <1>9, <1>10, <1>11, <1>16, <2>1 DEF Sane
  <2>2. CASE ~(end >= Len(cache))
    <3>1. end < Len(cache)
      BY <1>3, <1>4, <2>2
    <3> QED BY <1>7, <1>9, <1>11, <1>12, <1>16, <2>2, <3>1 DEF Sane
  <2> QED BY <2>1, <2>2
<1>18. \A t \in Slots : SlotInv(t)'
  <2>1. Sane(recurrent, slot'[s], mem'[s], Pending(s)', disturbed'[s], Stage(s)')
    BY <1>2, <1>13, <1>16, <1>17
  <2> QED BY <1>2, <1>13, <1>16, <2>1, OneSlot
<1>19. \A t \in Slots : PlaceInv(t)'
  BY <1>2 DEF PlaceInv
<1> QED BY <1>15, <1>18, <1>19 DEF Inv, Usable, FillText

LEMMA StepBuildGenerating == ASSUME Inv, BuildGenerating PROVE Inv'
<1> DEFINE more(t) == [slot[t] EXCEPT !.n_past = @ + 1, !.i_batch = 0]
           last(t) == [p \in {slot[t].n_past} |-> slot[t].generated]
<1>1. /\ batch' = [t \in Slots |-> IF t \in Continuing THEN last(t) ELSE Empty]
      /\ slot' = [t \in Slots |-> IF t \in Continuing THEN more(t) ELSE slot[t]]
      /\ pc = "build" /\ pc' = "prompt" /\ scan' = 1
      /\ UNCHANGED <<recurrent, t_last_used, mem, file, logits, served, disturbed>>
  BY DEF BuildGenerating
<1>2. \A t \in Slots :
        /\ more(t) \in SlotRecord /\ more(t).state = slot[t].state
        /\ more(t).n_past = slot[t].n_past + 1 /\ more(t).cache_tokens = slot[t].cache_tokens
        /\ more(t).docs = slot[t].docs /\ more(t).checkpoint = slot[t].checkpoint
        /\ more(t).task = slot[t].task /\ more(t).media = slot[t].media
        /\ more(t).load = slot[t].load
  <2> TAKE t \in Slots
  <2>1. slot[t] \in SlotRecord /\ slot[t].n_past + 1 \in Nat
    BY Facts
  <2> QED BY <2>1 DEF SlotRecord
<1>3. \A t \in Slots :
        /\ DOMAIN last(t) = {slot[t].n_past} /\ last(t)[slot[t].n_past] = slot[t].generated
        /\ IsMemory(last(t))
  BY Facts DEF IsMemory
<1> HIDE DEF more, last
<1>4. Types'
  <2>1. slot' \in [Slots -> SlotRecord]
    BY <1>1, <1>2, Facts
  <2>2. /\ DOMAIN batch' = Slots
        /\ \A t \in Slots : IsMemory(batch'[t]) /\ DOMAIN batch'[t] \subseteq Nat
    BY <1>1, <1>3, EmptyMemory DEF IsMemory
  <2>3. rows' \in Slots \cup {0}
    <3>1. CASE Continuing = {}
      BY <3>1 DEF BuildGenerating
    <3>2. CASE Continuing # {}
      <4>1. \E x \in Continuing : \A t \in Continuing : t <= x
        BY <3>2, LastExists DEF Continuing
      <4>2. rows' \in Continuing
        BY <3>2, <4>1 DEF BuildGenerating
      <4> QED BY <4>2 DEF Continuing
    <3> QED BY <3>1, <3>2
  <2>4. pc' = "prompt" /\ scan' \in 1 .. NSlots + 1
    BY <1>1, SlotNumbers
  <2> QED BY <1>1, <2>1, <2>2, <2>3, <2>4 DEF Inv, Types, TypeOK
<1>5. ASSUME NEW t \in Slots PROVE SlotInv(t)'
  <2>1. /\ Sane(recurrent, slot[t], mem[t], Empty, disturbed[t], Stage(t))
        /\ Stage(t) = IF slot[t].state = "PROCESSING_PROMPT" THEN "prompt"
                      ELSE IF slot[t].state = "GENERATING" THEN "generating" ELSE "other"
    <3>1. Pending(t) = Empty
      BY <1>1 DEF Pending
    <3>2. Stage(t) = IF slot[t].state = "PROCESSING_PROMPT" THEN "prompt"
                     ELSE IF slot[t].state = "GENERATING" THEN "generating" ELSE "other"
      BY <1>1 DEF Stage, Unsampled
    <3> QED BY <3>1, <3>2, Facts DEF SlotInv
  <2>2. CASE slot[t].state = "GENERATING"
    <3>1. /\ InUse(slot[t]) /\ slot[t].n_past = Len(slot[t].cache_tokens) - 1
          /\ slot[t].generated = slot[t].cache_tokens[slot[t].n_past + 1]
          /\ slot[t].generated # Null
          /\ ~disturbed[t] => Kept(recurrent, slot[t], mem[t], Empty)
      BY <2>1, <2>2 DEF Sane
    <3>2. /\ slot'[t] = more(t) /\ batch'[t] = last(t)
      BY <1>1, <2>2, <3>1 DEF Continuing
    <3>3. Stage(t)' = "sampling" /\ Pending(t)' = last(t)
      BY <1>1, <1>2, <2>2, <3>2 DEF Stage, Unsampled, Pending
    <3>4. slot[t].n_past \in Nat /\ Len(slot[t].cache_tokens) \in Nat
      BY Facts, TextLength
    <3>5. last(t) # Empty
      BY <1>3 DEF Empty
    <3>6. InUse(more(t))
      BY <1>2, <3>1, <3>4 DEF InUse
    <3>7. ~disturbed[t] => Coming(recurrent, more(t), mem[t], last(t))
      <4> SUFFICES ASSUME ~disturbed[t] PROVE Coming(recurrent, more(t), mem[t], last(t))
        OBVIOUS
      <4> DEFINE n == slot[t].n_past
                 cache == slot[t].cache_tokens
      <4>1. n \in Nat /\ n \in 0 .. n + 1 - 1 /\ n .. n + 1 - 1 = {n}
        BY <3>4
      <4>2. Fits(recurrent, more(t)) = Fits(recurrent, slot[t])
        BY <1>2 DEF Fits
      <4>3. Held(recurrent, Fits(recurrent, more(t)), cache, mem[t], n)
        BY <3>1, <4>2 DEF Kept
      <4>4. TextOf(last(t), cache, n, n + 1) /\ \A p \in n .. n + 1 - 1 : cache[p + 1] # Null
        <5>1. /\ DOMAIN last(t) = {n} /\ last(t)[n] = slot[t].generated
              /\ cache[n + 1] = slot[t].generated /\ cache[n + 1] # Null
          BY <1>3, <3>1
        <5> HIDE DEF n, cache
        <5>2. {p \in n .. n + 1 - 1 : cache[p + 1] # Null} = {n}
          BY <4>1, <5>1
        <5> QED BY <4>1, <5>1, <5>2 DEF TextOf
      <4> HIDE DEF n, cache
      <4>5. more(t).n_past = n + 1 /\ more(t).cache_tokens = cache
        BY <1>2 DEF n, cache
      <4> QED BY <4>1, <4>3, <4>4, <4>5 DEF Coming
    <3>8. more(t).n_past = Len(more(t).cache_tokens) /\ more(t).cache_tokens[more(t).n_past] # Null
      BY <1>2, <3>1, <3>4
    <3>9. Sane(recurrent, more(t), mem[t], last(t), disturbed[t], "sampling")
      BY <3>5, <3>6, <3>7, <3>8 DEF Sane, Kept
    <3> QED BY <1>1, <3>2, <3>3, <3>9 DEF SlotInv
  <2>3. CASE slot[t].state # "GENERATING"
    <3>1. slot'[t] = slot[t] /\ batch'[t] = Empty
      BY <1>1, <2>3 DEF Continuing
    <3>2. /\ Pending(t)' = Empty
          /\ Stage(t)' = IF Stage(t) = "prompt" THEN "waiting" ELSE "other"
      BY <1>1, <2>1, <2>3, <3>1, SlotNumbers DEF Stage, Pending
    <3>3. Sane(recurrent, slot[t], mem[t], Empty, disturbed[t], Stage(t)')
      BY <2>1, <3>2 DEF Sane
    <3> QED BY <1>1, <3>1, <3>2, <3>3 DEF SlotInv
  <2> QED BY <2>2, <2>3
<1>6. \A t \in Slots : PlaceInv(t)'
  BY <1>1 DEF PlaceInv
<1> QED BY <1>1, <1>4, <1>5, <1>6 DEF Inv, Usable

-----------------------------------------------------------------------------
(* The decode                                                              *)

LEMMA DecodedSane ==
  ASSUME NEW rec, NEW sl, sl.n_past \in Nat, NEW m, IsMemory(m), NEW b, IsMemory(b),
         NEW dist, NEW stage, stage # "generating", Sane(rec, sl, m, b, dist, stage), Follows(m, b)
  PROVE  Sane(rec, sl, Joined(m, b), Empty, dist, stage)
<1>1. CASE b = Empty
  BY <1>1, JoinedMemory
<1>2. CASE b # Empty
  <2>1. ~dist => Coming(rec, sl, m, b)
    BY <1>2 DEF Sane, Kept
  <2>2. ~dist =>
          /\ Held(rec, Fits(rec, sl), sl.cache_tokens, Joined(m, b), sl.n_past)
          /\ sl.cache_tokens[sl.n_past] # Null => Exact(Joined(m, b), sl.cache_tokens, sl.n_past)
    BY <1>2, <2>1, AcceptedKept
  <2> QED BY <1>2, <2>2 DEF Sane, Kept
<1> QED BY <1>1, <1>2

LEMMA StepDecode == ASSUME Inv, Decode PROVE Inv'
<1>1. /\ pc = "decode" /\ pc' = "checkpoint" /\ logits' = rows
      /\ mem' = [t \in Slots |-> Joined(mem[t], batch[t])]
      /\ \A t \in Slots : Follows(mem[t], batch[t])
      /\ UNCHANGED <<recurrent, t_last_used, slot, file, batch, rows, scan, served, disturbed>>
  BY DEF Decode, Accepted
<1>2. Types'
  <2>1. /\ DOMAIN mem' = Slots
        /\ \A t \in Slots : IsMemory(mem'[t]) /\ DOMAIN mem'[t] \subseteq Nat
    <3>1. DOMAIN mem' = Slots /\ \A t \in Slots : mem'[t] = Joined(mem[t], batch[t])
      BY <1>1
    <3>2. \A t \in Slots : IsMemory(Joined(mem[t], batch[t]))
      BY Facts, JoinedMemory
    <3>3. \A m : IsMemory(m) => DOMAIN m \subseteq Nat
      BY DEF IsMemory
    <3> QED BY <3>1, <3>2, <3>3
  <2> QED BY <1>1, <2>1 DEF Inv, Types, TypeOK
<1>3. ASSUME NEW t \in Slots PROVE SlotInv(t)'
  <2>1. /\ Pending(t) = batch[t] /\ Pending(t)' = Empty
        /\ Stage(t)' = Stage(t) /\ Stage(t) # "generating"
    BY <1>1 DEF Pending, Stage, Unsampled
  <2>2. Sane(recurrent, slot[t], mem[t], batch[t], disturbed[t], Stage(t))
    BY <2>1, Facts DEF SlotInv
  <2>3. Sane(recurrent, slot[t], Joined(mem[t], batch[t]), Empty, disturbed[t], Stage(t))
    BY <1>1, <2>1, <2>2, Facts, DecodedSane
  <2> QED BY <1>1, <2>1, <2>3 DEF SlotInv
<1>4. \A t \in Slots : PlaceInv(t)'
  BY <1>1 DEF PlaceInv
<1> QED BY <1>1, <1>2, <1>3, <1>4 DEF Inv, Usable

LEMMA StepDecodeFails == ASSUME Inv, DecodeFails PROVE Inv'
<1> DEFINE done(t) == [slot[t] EXCEPT !.state = "DONE"]
<1>1. /\ pc = "decode" /\ pc' = "pending"
      /\ slot' = [t \in Slots |-> IF slot[t].state \in Busy THEN done(t) ELSE slot[t]]
      /\ disturbed' = [t \in Slots |-> disturbed[t] \/ batch[t] # Empty]
      /\ UNCHANGED <<recurrent, t_last_used, mem, file, batch, rows, logits, scan, served>>
  BY DEF DecodeFails, outputs
<1>2. \A t \in Slots :
        done(t) \in SlotRecord /\ done(t).state = "DONE" /\ SameFields(done(t), slot[t])
  BY Facts, ZenonT(60) DEF SlotRecord, SameFields
<1> HIDE DEF done
<1>3. Types'
  <2>1. slot' \in [Slots -> SlotRecord]
    BY <1>1, <1>2, Facts
  <2>2. disturbed' \in [Slots -> BOOLEAN]
    BY <1>1
  <2> QED BY <1>1, <2>1, <2>2 DEF Inv, Types, TypeOK
<1>4. ASSUME NEW t \in Slots PROVE SlotInv(t)'
  <2>1. slot'[t].state \notin Busy /\ SameFields(slot'[t], slot[t])
    BY <1>1, <1>2 DEF Busy, SameFields
  <2>2. Pending(t) = batch[t] /\ Pending(t)' = Empty /\ Stage(t)' = "other"
    BY <1>1, <2>1 DEF Pending, Stage, Busy
  <2>3. Sane(recurrent, slot'[t], mem[t], batch[t], disturbed[t], "other")
    <3>1. Sane(recurrent, slot[t], mem[t], batch[t], disturbed[t], Stage(t))
      BY <2>2, Facts DEF SlotInv
    <3> QED BY <2>1, <3>1, Facts, SaneStays
  <2>4. disturbed'[t] <=> (disturbed[t] \/ batch[t] # Empty)
    BY <1>1
  <2>5. Sane(recurrent, slot'[t], mem[t], Empty, disturbed'[t], "other")
    BY <2>3, <2>4 DEF Sane
  <2> QED BY <1>1, <2>2, <2>5 DEF SlotInv
<1>5. \A t \in Slots : PlaceInv(t)'
  BY <1>1 DEF PlaceInv
<1> QED BY <1>1, <1>3, <1>4, <1>5 DEF Inv, Usable

-----------------------------------------------------------------------------
(* State files                                                             *)

LEMMA WrittenUsable ==
  ASSUME NEW rec, NEW toks \in Texts, toks # <<>>, NoNull(toks), NEW m, NEW tainted, NEW k \in Nat,
         ~tainted => /\ k > 0 /\ DOMAIN m = 0 .. k - 1
                     /\ \A p \in 0 .. k - 1 : p < Len(toks) => m[p] = toks[p + 1]
                     /\ ~rec => Len(toks) <= k
  PROVE  Usable(rec, [toks |-> toks, mem |-> m, tainted |-> tainted])
<1> DEFINE f == [toks |-> toks, mem |-> m, tainted |-> tainted]
<1>1. f.toks = toks /\ f.mem = m /\ f.tainted = tainted
  OBVIOUS
<1> HIDE DEF f
<1>2. ~tainted => k \in Nat \ {0}
  OBVIOUS
<1>3. ~tainted => \E i \in Nat \ {0} :
        /\ DOMAIN m = 0 .. i - 1
        /\ \A p \in 0 .. i - 1 : p < Len(toks) => m[p] = toks[p + 1]
        /\ ~rec => Len(toks) <= i
  BY <1>2
<1>4. Usable(rec, f)
  BY <1>1, <1>3 DEF Usable
<1> QED BY <1>4 DEF f

(* The checkpoint of the prompt: its tokens are in the memory.             *)
LEMMA CheckpointUsable ==
  ASSUME Inv, NEW s \in Slots, pc = "checkpoint", CheckpointDue(s), CheckpointTokens(s) # <<>>
  PROVE  /\ CheckpointTokens(s) \in Texts
         /\ Usable(recurrent, Written(s, CheckpointTokens(s)))
<1> DEFINE cache == slot[s].cache_tokens
           n == Smaller(slot[s].checkpoint, Len(cache))
           part == SubSeq(cache, 1, n)
           toks == UntilNull(part)
<1>1. /\ cache \in Texts /\ Len(cache) \in Nat
      /\ slot[s].checkpoint \in Nat /\ slot[s].n_past \in Nat
  BY Facts, TextLength
<1>2. CheckpointTokens(s) = toks
  BY DEF CheckpointTokens
<1>3. n \in 0 .. Len(cache) /\ n <= slot[s].n_past
  BY <1>1 DEF Smaller, CheckpointDue
<1> HIDE DEF n
<1>4. part \in Texts /\ Len(part) = n /\ \A i \in 1 .. n : part[i] = cache[i]
  BY <1>1, <1>3, Prefix
<1> HIDE DEF part
<1>5. /\ toks \in Texts /\ NoNull(toks) /\ Len(toks) <= n /\ Len(toks) \in Nat
      /\ \A i \in 1 .. Len(toks) : toks[i] = part[i] /\ part[i] # Null
  BY <1>4, BeforeNull, TextLength
<1>6. Len(toks) > 0
  BY <1>2, <1>5, TextEmpty
<1> HIDE DEF toks
<1>7. \A i \in 1 .. Len(toks) : toks[i] = cache[i] /\ cache[i] # Null
  BY <1>3, <1>4, <1>5
<1>8. cache # <<>> /\ Due(slot[s]) /\ slot[s].n_past > 0
  BY <1>1, <1>3, <1>5, <1>6, TextEmpty DEF Due, CheckpointDue
<1>9. ~disturbed[s] => \/ Held(recurrent, Fits(recurrent, slot[s]), cache, mem[s], slot[s].n_past)
                       \/ Covered(slot[s], mem[s])
  <2>1. Pending(s) = Empty
    BY DEF Pending
  <2>2. Sane(recurrent, slot[s], mem[s], Empty, disturbed[s], Stage(s))
    BY <2>1, Facts DEF SlotInv
  <2> QED BY <1>8, <2>2 DEF Sane, Kept
<1> DEFINE past == slot[s].n_past
<1>10. \E k \in Nat : ~disturbed[s] =>
         /\ k > 0 /\ DOMAIN mem[s] = 0 .. k - 1
         /\ \A p \in 0 .. k - 1 : p < Len(toks) => mem[s][p] = toks[p + 1]
         /\ ~recurrent => Len(toks) <= k
  <2>1. CASE disturbed[s]
    BY <2>1
  <2>2. CASE ~disturbed[s]
    <3>1. PICK k \in Nat :
            /\ DOMAIN mem[s] = 0 .. k - 1
            /\ \A p \in 0 .. k - 1 : p < past => mem[s][p] = cache[p + 1]
            /\ past > 0 => k > 0
            /\ ~recurrent => (k < past => cache[k + 1] = Null)
      <4>1. CASE Held(recurrent, Fits(recurrent, slot[s]), cache, mem[s], past)
        <5> HIDE DEF cache
        <5> QED BY <4>1 DEF Held
      <4>2. CASE Covered(slot[s], mem[s])
        BY <1>1, <4>2 DEF Covered
      <4> QED BY <1>9, <2>2, <4>1, <4>2
    <3> HIDE DEF cache
    <3>2. ~recurrent => Len(toks) <= k
      <4> SUFFICES ASSUME ~recurrent, k < Len(toks) PROVE FALSE
        BY <1>5
      <4>1. k + 1 \in 1 .. Len(toks) /\ k < past
        BY <1>3, <1>5, <1>1
      <4> QED BY <1>7, <3>1, <4>1
    <3>3. \A p \in 0 .. k - 1 : p < Len(toks) => mem[s][p] = toks[p + 1]
      <4> SUFFICES ASSUME NEW p \in 0 .. k - 1, p < Len(toks) PROVE mem[s][p] = toks[p + 1]
        OBVIOUS
      <4>1. p < past /\ p + 1 \in 1 .. Len(toks)
        BY <1>1, <1>3, <1>5
      <4> QED BY <1>7, <3>1, <4>1
    <3> QED BY <1>8, <3>1, <3>2, <3>3
  <2> QED BY <2>1, <2>2
<1>11. Usable(recurrent, Written(s, toks))
  BY <1>2, <1>5, <1>10, WrittenUsable DEF Written
<1> QED BY <1>2, <1>5, <1>11

LEMMA SavedSizeIs ==
  ASSUME NEW s \in Slots, NEW n \in Nat, n > 0, slot[s].save_size \in Nat
  PROVE  /\ SavedSize(s, n) \in 1 .. n
         /\ ~recurrent /\ n > 1 => SavedSize(s, n) <= n - 1
BY DEF SavedSize

(* The state saved when a completion ends: one token of those of a model   *)
(* that can drop a part is left out, the last, which no batch had.         *)
LEMMA StateSaved ==
  ASSUME Inv, NEW s \in Slots, NEW cache \in Texts,
         slot[s].n_past = Len(slot[s].cache_tokens), slot[s].cache_tokens # <<>>,
         ~disturbed[s] => Exact(mem[s], slot[s].cache_tokens, slot[s].n_past),
         Len(cache) <= slot[s].n_past + 1,
         \A i \in 1 .. slot[s].n_past : cache[i] = slot[s].cache_tokens[i],
         SaveState(s, cache)
  PROVE  file'.toks \in Texts /\ file'.tainted \in BOOLEAN /\ IsMemory(file'.mem)
         /\ Usable(recurrent, file')
<1> DEFINE n == slot[s].n_past
           text == UntilNull(cache)
           size == SavedSize(s, Len(text))
           toks == SubSeq(text, 1, size)
<1>1. CASE ~(slot[s].save /\ text # <<>>)
  <2>1. file' = file
    BY <1>1 DEF SaveState
  <2> QED BY <2>1, Facts DEF Inv
<1>2. CASE slot[s].save /\ text # <<>>
  <2>1. file' = Written(s, toks)
    BY <1>2 DEF SaveState
  <2>2. n \in Nat /\ n > 0 /\ Len(cache) \in Nat /\ slot[s].save_size \in Nat
    <3>1. slot[s] \in SlotRecord /\ slot[s].cache_tokens \in Texts
      BY Facts
    <3> QED BY <3>1, TextLength, TextEmpty DEF SlotRecord
  <2>3. /\ text \in Texts /\ NoNull(text) /\ Len(text) <= Len(cache) /\ Len(text) \in Nat
        /\ Len(text) > 0
        /\ \A i \in 1 .. Len(text) : text[i] = cache[i] /\ text[i] # Null
    BY <1>2, BeforeNull, TextLength, TextEmpty
  <2> HIDE DEF text
  <2>4. size \in 1 .. Len(text) /\ (~recurrent /\ Len(text) > 1 => size <= Len(text) - 1)
    BY <2>2, <2>3, SavedSizeIs
  <2> HIDE DEF size, n
  <2>5. toks \in Texts /\ Len(toks) = size /\ \A i \in 1 .. size : toks[i] = text[i]
    BY <2>3, <2>4, Prefix
  <2> HIDE DEF toks
  <2>6. NoNull(toks) /\ toks # <<>>
    BY <2>3, <2>4, <2>5, TextLength, TextEmpty DEF NoNull
  <2>7. ~recurrent => size <= n
    BY <2>2, <2>3, <2>4 DEF n
  <2>8. ~disturbed[s] => /\ n > 0 /\ DOMAIN mem[s] = 0 .. n - 1
                         /\ \A p \in 0 .. n - 1 : p < Len(toks) => mem[s][p] = toks[p + 1]
                         /\ ~recurrent => Len(toks) <= n
    <3> SUFFICES ASSUME ~disturbed[s]
                 PROVE  /\ DOMAIN mem[s] = 0 .. n - 1
                        /\ \A p \in 0 .. n - 1 : p < Len(toks) => mem[s][p] = toks[p + 1]
      BY <2>2, <2>5, <2>7
    <3>1. /\ DOMAIN mem[s] = 0 .. n - 1
          /\ \A p \in 0 .. n - 1 : mem[s][p] = slot[s].cache_tokens[p + 1]
      BY DEF Exact, n
    <3>2. ASSUME NEW p \in 0 .. n - 1, p < Len(toks) PROVE mem[s][p] = toks[p + 1]
      <4>1. p + 1 \in 1 .. size /\ p + 1 \in 1 .. Len(text) /\ p + 1 \in 1 .. n
        BY <2>2, <2>3, <2>4, <2>5, <3>2
      <4>2. cache[p + 1] = slot[s].cache_tokens[p + 1]
        BY <4>1 DEF n
      <4> QED BY <2>3, <2>5, <3>1, <4>1, <4>2
    <3> QED BY <3>1, <3>2
  <2>9. Usable(recurrent, Written(s, toks))
    BY <2>2, <2>5, <2>6, <2>8, WrittenUsable DEF Written
  <2> QED BY <2>1, <2>5, <2>9, Facts DEF Written
<1> QED BY <1>1, <1>2

LEMMA StepSaveCheckpoint == ASSUME Inv, NEW s \in Slots, SaveCheckpoint(s) PROVE Inv'
<1> DEFINE r == [slot[s] EXCEPT !.checkpoint = 0]
<1>1. /\ slot' = [slot EXCEPT ![s] = r] /\ pc = "checkpoint" /\ CheckpointDue(s)
      /\ UNCHANGED <<recurrent, t_last_used, mem, batch, rows, logits, pc, scan, served, disturbed>>
  BY DEF SaveCheckpoint, outputs, loop
<1>2. r \in SlotRecord /\ SameFields(r, slot[s]) /\ r.state = slot[s].state
  BY Facts DEF SlotRecord, SameFields
<1> HIDE DEF r
<1>3. /\ slot' \in [Slots -> SlotRecord] /\ slot'[s] = r
      /\ \A t \in Slots \ {s} : slot'[t] = slot[t]
  BY <1>1, <1>2, Facts
<1>4. /\ file'.toks \in Texts /\ file'.tainted \in BOOLEAN /\ IsMemory(file'.mem)
      /\ Usable(recurrent, file')
  <2>1. CASE CheckpointTokens(s) = <<>>
    <3>1. file' = file
      BY <2>1 DEF SaveCheckpoint
    <3> QED BY <3>1, Facts DEF Inv
  <2>2. CASE CheckpointTokens(s) # <<>>
    <3>1. file' = Written(s, CheckpointTokens(s))
      BY <2>2 DEF SaveCheckpoint
    <3>2. CheckpointTokens(s) \in Texts /\ Usable(recurrent, Written(s, CheckpointTokens(s)))
      BY <1>1, <2>2, CheckpointUsable
    <3> QED BY <3>1, <3>2, Facts DEF Written
  <2> QED BY <2>1, <2>2
<1>5. Types'
  BY <1>1, <1>3, <1>4 DEF Inv, Types, TypeOK
<1>6. \A t \in Slots : Stage(t)' = Stage(t) /\ Pending(t)' = Pending(t)
  BY <1>1, <1>2, <1>3 DEF Stage, Unsampled, Pending
<1>7. \A t \in Slots : SlotInv(t)'
  BY <1>1, <1>2, <1>3, <1>6, StateChanges
<1>8. \A t \in Slots : PlaceInv(t)'
  BY <1>1 DEF PlaceInv
<1> QED BY <1>1, <1>4, <1>5, <1>7, <1>8 DEF Inv

-----------------------------------------------------------------------------
(* Tokens, embeddings and scores                                           *)

LEMMA AtEmit ==
  ASSUME Inv, NEW s \in Slots, NEW task, Emitting(s, task)
  PROVE  /\ pc = "emit" /\ scan = s /\ pc' = "sample" /\ scan' = s + 1 /\ slot[s].task = task
         /\ UNCHANGED <<recurrent, t_last_used, batch, rows, logits, served>>
         /\ slot[s].state # "PROCESSING_PROMPT" /\ (~disturbed[s] => ~Due(slot[s]))
         /\ InUse(slot[s]) /\ slot[s].n_past = Len(slot[s].cache_tokens)
         /\ ~disturbed[s] => Exact(mem[s], slot[s].cache_tokens, slot[s].n_past)
         /\ scan' \in 1 .. NSlots + 1
<1>1. /\ pc = "emit" /\ scan = s /\ pc' = "sample" /\ scan' = s + 1 /\ slot[s].task = task
      /\ UNCHANGED <<recurrent, t_last_used, batch, rows, logits, served>>
  BY DEF Emitting, outputs
<1>2. Stage(s) = "sampling" /\ Pending(s) = Empty
  BY <1>1 DEF Stage, Pending
<1>3. Sane(recurrent, slot[s], mem[s], Empty, disturbed[s], "sampling")
  BY <1>2, Facts DEF SlotInv
<1>4. slot[s].state # "PROCESSING_PROMPT" /\ (~disturbed[s] => ~Due(slot[s]))
  BY <1>1, Facts DEF PlaceInv
<1>5. scan' \in 1 .. NSlots + 1
  BY <1>1, SlotNumbers
<1> QED BY <1>1, <1>3, <1>4, <1>5 DEF Sane

(* The stages after the slot at scan is done with.                         *)
LEMMA EmitStages ==
  ASSUME NEW s \in Slots, pc = "emit", scan = s, pc' = "sample", scan' = s + 1,
         \A t \in Slots \ {s} : slot'[t] = slot[t]
  PROVE  /\ \A t \in Slots \ {s} : Stage(t)' = Stage(t)
         /\ \A t \in Slots : Pending(t) = Empty /\ Pending(t)' = Empty
         /\ Stage(s)' = IF slot'[s].state = "PROCESSING_PROMPT" THEN "prompt"
                        ELSE IF slot'[s].state = "GENERATING" THEN "generating" ELSE "other"
BY SlotNumbers DEF Stage, Unsampled, Pending

LEMMA OutOfRound ==
  ASSUME NEW rec, NEW sl, NEW m, NEW dist, ~dist => ~Due(sl)
  PROVE  Sane(rec, sl, m, Empty, dist, "other")
BY DEF Sane

(* Nothing is asked of a slot that lost its memory.                        *)
LEMMA LostSane ==
  ASSUME NEW rec, NEW sl, NEW m, NEW n, NEW b, NEW dist, NEW stage, Sane(rec, sl, m, b, dist, stage)
  PROVE  Sane(rec, sl, n, b, TRUE, stage)
BY DEF Sane

(* A rerank clears the memory under the other slots.                       *)
LEMMA ClearedSlots ==
  ASSUME Inv, recurrent' = recurrent, NEW s \in Slots, NEW reuse \in BOOLEAN, ClearMemory(s, reuse),
         \A t \in Slots \ {s} :
           slot'[t] = slot[t] /\ Pending(t)' = Pending(t) /\ Stage(t)' = Stage(t),
         Sane(recurrent, slot'[s], Empty, Pending(s)', reuse, Stage(s)')
  PROVE  /\ DOMAIN mem' = Slots /\ disturbed' \in [Slots -> BOOLEAN]
         /\ \A t \in Slots : IsMemory(mem'[t]) /\ DOMAIN mem'[t] \subseteq Nat
         /\ disturbed'[s] = reuse /\ \A t \in Slots \ {s} : disturbed[t] => disturbed'[t]
         /\ \A t \in Slots : SlotInv(t)'
<1>1. /\ mem' = [t \in Slots |-> Empty]
      /\ disturbed' = [t \in Slots |-> IF t = s THEN reuse ELSE disturbed[t] \/ mem[t] # Empty]
  BY DEF ClearMemory
<1>2. \A t \in Slots : mem'[t] = Empty
  BY <1>1
<1>3. /\ disturbed'[s] = reuse
      /\ \A t \in Slots \ {s} : disturbed'[t] = (disturbed[t] \/ mem[t] # Empty)
  BY <1>1
<1>4. DOMAIN mem' = Slots /\ disturbed' \in [Slots -> BOOLEAN]
  BY <1>1, Facts
<1>5. \A t \in Slots : IsMemory(mem'[t]) /\ DOMAIN mem'[t] \subseteq Nat
  BY <1>2, EmptyMemory DEF IsMemory
<1>6. ASSUME NEW t \in Slots PROVE SlotInv(t)'
  <2>1. CASE t = s
    BY <1>2, <1>3, <2>1 DEF SlotInv
  <2>2. CASE t # s
    <3>1. Sane(recurrent, slot[t], mem[t], Pending(t), disturbed[t], Stage(t))
      BY Facts DEF SlotInv
    <3>2. CASE mem[t] = Empty
      <4>1. disturbed'[t] = disturbed[t]
        BY <1>3, <2>2, <3>2, Facts
      <4> QED BY <1>2, <2>2, <3>1, <3>2, <4>1 DEF SlotInv
    <3>3. CASE mem[t] # Empty
      <4>1. disturbed'[t] = TRUE
        BY <1>3, <2>2, <3>3
      <4>2. Sane(recurrent, slot[t], Empty, Pending(t), TRUE, Stage(t))
        BY <3>1, LostSane
      <4> QED BY <1>2, <2>2, <4>1, <4>2 DEF SlotInv
    <3> QED BY <3>2, <3>3
  <2> QED BY <2>1, <2>2
<1> QED BY <1>3, <1>4, <1>5, <1>6

LEMMA StepEmitEog == ASSUME Inv, NEW s \in Slots, EmitEog(s) PROVE Inv'
<1> DEFINE r == [slot[s] EXCEPT !.state = "DONE"]
<1>1. /\ slot' = [slot EXCEPT ![s] = r] /\ SaveState(s, slot[s].cache_tokens)
      /\ UNCHANGED <<mem, disturbed>> /\ Emitting(s, "completion")
  BY DEF EmitEog
<1>2. /\ r \in SlotRecord /\ r.state = "DONE" /\ (Due(r) <=> Due(slot[s]))
  BY Facts DEF SlotRecord, Due
<1> HIDE DEF r
<1>3. /\ slot' \in [Slots -> SlotRecord] /\ slot'[s] = r
      /\ \A t \in Slots \ {s} : slot'[t] = slot[t]
  BY <1>1, <1>2, Facts
<1>4. /\ pc = "emit" /\ scan = s /\ pc' = "sample" /\ scan' = s + 1 /\ scan' \in 1 .. NSlots + 1
      /\ UNCHANGED <<recurrent, t_last_used, batch, rows, logits, served>>
      /\ InUse(slot[s]) /\ slot[s].n_past = Len(slot[s].cache_tokens)
      /\ ~disturbed[s] => Exact(mem[s], slot[s].cache_tokens, slot[s].n_past)
      /\ ~disturbed[s] => ~Due(slot[s])
  BY <1>1, AtEmit
<1>5. /\ file'.toks \in Texts /\ file'.tainted \in BOOLEAN /\ IsMemory(file'.mem)
      /\ Usable(recurrent, file')
  <2>1. slot[s].cache_tokens \in Texts /\ Len(slot[s].cache_tokens) \in Nat
    BY Facts, TextLength
  <2>2. slot[s].cache_tokens # <<>> /\ Len(slot[s].cache_tokens) <= slot[s].n_past + 1
    BY <1>4, <2>1 DEF InUse
  <2> QED BY <1>1, <1>4, <2>1, <2>2, StateSaved
<1>6. Types'
  BY <1>1, <1>3, <1>4, <1>5 DEF Inv, Types, TypeOK
<1>7. /\ \A t \in Slots \ {s} : Stage(t)' = Stage(t)
      /\ \A t \in Slots : Pending(t) = Empty /\ Pending(t)' = Empty
      /\ Stage(s)' = "other"
  BY <1>2, <1>3, <1>4, EmitStages
<1>8. \A t \in Slots : SlotInv(t)'
  <2>1. Sane(recurrent, slot'[s], mem'[s], Pending(s)', disturbed'[s], Stage(s)')
    BY <1>1, <1>2, <1>3, <1>4, <1>7, OutOfRound
  <2> QED BY <1>1, <1>3, <1>4, <1>7, <2>1, OneSlot
<1>9. \A t \in Slots : PlaceInv(t)'
  BY <1>1, <1>2, <1>3, <1>4 DEF Inv, PlaceInv
<1> QED BY <1>4, <1>5, <1>6, <1>8, <1>9 DEF Inv

LEMMA SampledIs ==
  ASSUME Inv, NEW s \in Slots, NEW t \in Tokens, NEW r, r = Sampled(s, t)
  PROVE  /\ r \in SlotRecord /\ r.state = slot[s].state /\ r.generated = t
         /\ r.cache_tokens = Append(slot[s].cache_tokens, t)
         /\ r.n_past = slot[s].n_past /\ r.checkpoint = slot[s].checkpoint
         /\ r.docs = slot[s].docs /\ r.task = slot[s].task
         /\ r.media = slot[s].media /\ r.load = slot[s].load
<1>1. slot[s] \in SlotRecord /\ Append(slot[s].cache_tokens, t) \in Texts
  BY Facts, OneMore
<1> QED BY <1>1 DEF Sampled, SlotRecord

LEMMA StepEmitLast == ASSUME Inv, NEW s \in Slots, NEW t \in Tokens, EmitLast(s, t) PROVE Inv'
<1> DEFINE cache == Append(slot[s].cache_tokens, t)
           r == [Sampled(s, t) EXCEPT !.state = "DONE"]
<1>1. /\ slot' = [slot EXCEPT ![s] = r] /\ SaveState(s, cache)
      /\ UNCHANGED <<mem, disturbed>> /\ Emitting(s, "completion")
  BY DEF EmitLast
<1>2. /\ r \in SlotRecord /\ r.state = "DONE" /\ (Due(r) <=> Due(slot[s]))
  <2>1. /\ Sampled(s, t) \in SlotRecord /\ Sampled(s, t).n_past = slot[s].n_past
        /\ Sampled(s, t).checkpoint = slot[s].checkpoint
    BY SampledIs
  <2> QED BY <2>1 DEF SlotRecord, Due
<1> HIDE DEF r
<1>3. /\ slot' \in [Slots -> SlotRecord] /\ slot'[s] = r
      /\ \A i \in Slots \ {s} : slot'[i] = slot[i]
  BY <1>1, <1>2, Facts
<1>4. /\ pc = "emit" /\ scan = s /\ pc' = "sample" /\ scan' = s + 1 /\ scan' \in 1 .. NSlots + 1
      /\ UNCHANGED <<recurrent, t_last_used, batch, rows, logits, served>>
      /\ InUse(slot[s]) /\ slot[s].n_past = Len(slot[s].cache_tokens)
      /\ ~disturbed[s] => Exact(mem[s], slot[s].cache_tokens, slot[s].n_past)
      /\ ~disturbed[s] => ~Due(slot[s])
  BY <1>1, AtEmit
<1>5. /\ file'.toks \in Texts /\ file'.tainted \in BOOLEAN /\ IsMemory(file'.mem)
      /\ Usable(recurrent, file')
  <2>1. slot[s].cache_tokens \in Texts /\ Len(slot[s].cache_tokens) \in Nat
    BY Facts, TextLength
  <2>2. /\ cache \in Texts /\ Len(cache) = Len(slot[s].cache_tokens) + 1
        /\ \A i \in 1 .. Len(slot[s].cache_tokens) : cache[i] = slot[s].cache_tokens[i]
    BY <2>1, OneMore
  <2> HIDE DEF cache
  <2>3. slot[s].cache_tokens # <<>> /\ Len(cache) <= slot[s].n_past + 1
    BY <1>4, <2>1, <2>2 DEF InUse
  <2> QED BY <1>1, <1>4, <2>1, <2>2, <2>3, StateSaved
<1>6. Types'
  BY <1>1, <1>3, <1>4, <1>5 DEF Inv, Types, TypeOK
<1>7. /\ \A i \in Slots \ {s} : Stage(i)' = Stage(i)
      /\ \A i \in Slots : Pending(i) = Empty /\ Pending(i)' = Empty
      /\ Stage(s)' = "other"
  BY <1>2, <1>3, <1>4, EmitStages
<1>8. \A i \in Slots : SlotInv(i)'
  <2>1. Sane(recurrent, slot'[s], mem'[s], Pending(s)', disturbed'[s], Stage(s)')
    BY <1>1, <1>2, <1>3, <1>4, <1>7, OutOfRound
  <2> QED BY <1>1, <1>3, <1>4, <1>7, <2>1, OneSlot
<1>9. \A i \in Slots : PlaceInv(i)'
  BY <1>1, <1>2, <1>3, <1>4 DEF Inv, PlaceInv
<1> QED BY <1>4, <1>5, <1>6, <1>8, <1>9 DEF Inv

LEMMA StepEmitToken == ASSUME Inv, NEW s \in Slots, NEW t \in Tokens, EmitToken(s, t) PROVE Inv'
<1> DEFINE old == slot[s].cache_tokens
           n == slot[s].n_past
           r == Sampled(s, t)
<1>1. /\ slot' = [slot EXCEPT ![s] = r]
      /\ UNCHANGED <<mem, file, disturbed>> /\ Emitting(s, "completion")
  BY DEF EmitToken
<1>2. /\ r \in SlotRecord /\ r.state = slot[s].state /\ r.generated = t
      /\ r.cache_tokens = Append(old, t)
      /\ r.n_past = n /\ r.checkpoint = slot[s].checkpoint
      /\ r.docs = slot[s].docs /\ r.task = slot[s].task
      /\ r.media = slot[s].media /\ r.load = slot[s].load
  BY SampledIs
<1> HIDE DEF r
<1>3. /\ slot' \in [Slots -> SlotRecord] /\ slot'[s] = r
      /\ \A i \in Slots \ {s} : slot'[i] = slot[i]
  BY <1>1, <1>2, Facts
<1>4. /\ pc = "emit" /\ scan = s /\ pc' = "sample" /\ scan' = s + 1 /\ scan' \in 1 .. NSlots + 1
      /\ UNCHANGED <<recurrent, t_last_used, batch, rows, logits, served>>
      /\ InUse(slot[s]) /\ n = Len(old) /\ slot[s].task = "completion"
      /\ ~disturbed[s] => Exact(mem[s], old, n)
      /\ ~disturbed[s] => ~Due(slot[s])
      /\ slot[s].state # "PROCESSING_PROMPT"
  BY <1>1, AtEmit
<1>5. Types'
  BY <1>1, <1>3, <1>4 DEF Inv, Types, TypeOK
<1>6. /\ \A i \in Slots \ {s} : Stage(i)' = Stage(i)
      /\ \A i \in Slots : Pending(i) = Empty /\ Pending(i)' = Empty
      /\ Stage(s)' = IF r.state = "GENERATING" THEN "generating" ELSE "other"
  BY <1>2, <1>3, <1>4, EmitStages
<1>7. ~disturbed[s] => ~Due(r)
  BY <1>2, <1>4 DEF Due
<1>8. Sane(recurrent, r, mem[s], Empty, disturbed[s], "generating")
  <2>1. old \in Texts /\ n \in Nat /\ t # Null /\ t \in Tokens \cup {Null}
    BY Facts, SlotCacheAssumption DEF SlotCacheAssumption
  <2>2. /\ r.cache_tokens \in Texts /\ Len(r.cache_tokens) = n + 1
        /\ \A i \in 1 .. n : r.cache_tokens[i] = old[i]
        /\ r.cache_tokens[n + 1] = t
    BY <1>2, <1>4, <2>1, OneMore
  <2>3. InUse(r)
    <3>1. slot[s].checkpoint <= Len(r.cache_tokens)
      <4>1. slot[s].checkpoint <= n /\ slot[s].checkpoint \in Nat
        BY <1>4, Facts DEF InUse
      <4> QED BY <2>1, <2>2, <4>1
    <3>2. r.cache_tokens # <<>>
      BY <2>1, <2>2, TextEmpty
    <3> QED BY <1>2, <1>4, <2>1, <2>2, <3>1, <3>2 DEF InUse
  <2>4. ~disturbed[s] => Exact(mem[s], r.cache_tokens, n)
    <3> SUFFICES ASSUME ~disturbed[s] PROVE Exact(mem[s], r.cache_tokens, n)
      OBVIOUS
    <3>1. Exact(mem[s], old, n)
      BY <1>4
    <3>2. \A p \in 0 .. n - 1 : p + 1 \in 1 .. n
      BY <2>1
    <3> HIDE DEF n, old
    <3> QED BY <2>2, <3>1, <3>2 DEF Exact
  <2>5. ~disturbed[s] => Kept(recurrent, r, mem[s], Empty)
    BY <1>2, <2>1, <2>4, ExactHeld DEF Kept
  <2> QED BY <1>2, <2>1, <2>2, <2>3, <2>4, <2>5 DEF Sane
<1>9. \A i \in Slots : SlotInv(i)'
  <2>1. Sane(recurrent, slot'[s], mem'[s], Pending(s)', disturbed'[s], Stage(s)')
    BY <1>1, <1>3, <1>4, <1>6, <1>7, <1>8, OutOfRound
  <2> QED BY <1>1, <1>3, <1>4, <1>6, <2>1, OneSlot
<1>10. \A i \in Slots : PlaceInv(i)'
  BY <1>1, <1>3, <1>4, <1>7 DEF Inv, PlaceInv
<1> QED BY <1>1, <1>4, <1>5, <1>9, <1>10 DEF Inv, Usable

LEMMA StepEmitEmbedding == ASSUME Inv, NEW s \in Slots, EmitEmbedding(s) PROVE Inv'
<1> DEFINE r == [slot[s] EXCEPT !.state = "DONE"]
<1>1. /\ slot' = [slot EXCEPT ![s] = r]
      /\ UNCHANGED <<mem, file, disturbed>> /\ Emitting(s, "embedding")
  BY DEF EmitEmbedding
<1>2. /\ r \in SlotRecord /\ r.state = "DONE" /\ (Due(r) <=> Due(slot[s]))
  BY Facts DEF SlotRecord, Due
<1> HIDE DEF r
<1>3. /\ slot' \in [Slots -> SlotRecord] /\ slot'[s] = r
      /\ \A t \in Slots \ {s} : slot'[t] = slot[t]
  BY <1>1, <1>2, Facts
<1>4. /\ pc = "emit" /\ scan = s /\ pc' = "sample" /\ scan' = s + 1 /\ scan' \in 1 .. NSlots + 1
      /\ UNCHANGED <<recurrent, t_last_used, batch, rows, logits, served>>
      /\ ~disturbed[s] => ~Due(slot[s])
  BY <1>1, AtEmit
<1>5. Types'
  BY <1>1, <1>3, <1>4 DEF Inv, Types, TypeOK
<1>6. /\ \A t \in Slots \ {s} : Stage(t)' = Stage(t)
      /\ \A t \in Slots : Pending(t) = Empty /\ Pending(t)' = Empty
      /\ Stage(s)' = "other"
  BY <1>2, <1>3, <1>4, EmitStages
<1>7. \A t \in Slots : SlotInv(t)'
  <2>1. Sane(recurrent, slot'[s], mem'[s], Pending(s)', disturbed'[s], Stage(s)')
    BY <1>1, <1>2, <1>3, <1>4, <1>6, OutOfRound
  <2> QED BY <1>1, <1>3, <1>4, <1>6, <2>1, OneSlot
<1>8. \A t \in Slots : PlaceInv(t)'
  BY <1>1, <1>2, <1>3, <1>4 DEF Inv, PlaceInv
<1> QED BY <1>1, <1>4, <1>5, <1>7, <1>8 DEF Inv, Usable

LEMMA StepEmitScores == ASSUME Inv, NEW s \in Slots, EmitScores(s) PROVE Inv'
<1> DEFINE r == [slot[s] EXCEPT !.state = "DONE"]
<1>1. /\ slot' = [slot EXCEPT ![s] = r]
      /\ ClearMemory(s, disturbed[s]) /\ file' = file /\ Emitting(s, "rerank")
  BY DEF EmitScores
<1>2. /\ r \in SlotRecord /\ r.state = "DONE" /\ (Due(r) <=> Due(slot[s]))
  BY Facts DEF SlotRecord, Due
<1> HIDE DEF r
<1>3. /\ slot' \in [Slots -> SlotRecord] /\ slot'[s] = r
      /\ \A t \in Slots \ {s} : slot'[t] = slot[t]
  BY <1>1, <1>2, Facts
<1>4. /\ pc = "emit" /\ scan = s /\ pc' = "sample" /\ scan' = s + 1 /\ scan' \in 1 .. NSlots + 1
      /\ UNCHANGED <<recurrent, t_last_used, batch, rows, logits, served>>
      /\ ~disturbed[s] => ~Due(slot[s])
  BY <1>1, AtEmit
<1>5. /\ \A t \in Slots \ {s} : Stage(t)' = Stage(t) /\ Pending(t)' = Pending(t)
      /\ Pending(s)' = Empty /\ Stage(s)' = "other"
  BY <1>2, <1>3, <1>4, EmitStages
<1>6. Sane(recurrent, slot'[s], Empty, Pending(s)', disturbed[s], Stage(s)')
  BY <1>2, <1>3, <1>4, <1>5, OutOfRound
<1>7. /\ DOMAIN mem' = Slots /\ disturbed' \in [Slots -> BOOLEAN]
      /\ \A t \in Slots : IsMemory(mem'[t]) /\ DOMAIN mem'[t] \subseteq Nat
      /\ disturbed'[s] = disturbed[s] /\ \A t \in Slots \ {s} : disturbed[t] => disturbed'[t]
      /\ \A t \in Slots : SlotInv(t)'
  BY <1>1, <1>3, <1>4, <1>5, <1>6, Facts, ClearedSlots
<1>8. Types'
  BY <1>1, <1>3, <1>4, <1>7 DEF Inv, Types, TypeOK
<1>9. \A t \in Slots : PlaceInv(t)'
  BY <1>2, <1>3, <1>4, <1>7 DEF Inv, PlaceInv
<1> QED BY <1>1, <1>4, <1>7, <1>8, <1>9 DEF Inv, Usable

(* A request without paths finds what the slot has; what it reuses of that *)
(* is not counted on.                                                      *)
LEMMA StartsAnew ==
  ASSUME Inv, NEW s \in Slots, NEW sl \in SlotRecord, sl.load = slot[s].load,
         NEW docs \in Seq(Texts), docs # <<>>, Head(docs) # <<>>, NoNull(Head(docs)),
         sl.task = "rerank" => \A i \in DOMAIN docs : docs[i] # <<>> /\ NoNull(docs[i]),
         NEW m, IsMemory(m),
         NEW L, L = PromptLoad(slot[s].load, slot[s].cache_tokens, m, Head(docs)),
         NEW r, r = Prompted(sl, docs, L.n_past)
  PROVE  /\ r \in SlotRecord /\ r.state = "PROCESSING_PROMPT"
         /\ L.reuse \in BOOLEAN /\ IsMemory(L.mem)
         /\ ~L.reuse => ~Due(r)
         /\ Sane(recurrent, r, L.mem, Empty, L.reuse, "prompt")
         /\ Sane(recurrent, r, Empty, Empty, L.reuse, "prompt")
<1> DEFINE text == Head(docs)
           cache == slot[s].cache_tokens
           past == L.n_past
<1>1. /\ text \in Texts /\ Len(text) \in Nat /\ DOMAIN text = 1 .. Len(text)
      /\ cache \in Texts /\ slot[s].load \in BOOLEAN /\ recurrent \in BOOLEAN
  BY Facts, DocsAre, TextLength
<1>2. Begun(L, cache, m, text)
  <2> HIDE DEF text, cache
  <2>1. L = PromptLoad(slot[s].load, cache, m, text) /\ text # <<>>
    BY DEF text, cache
  <2> QED BY <1>1, <2>1, PromptLoadIs
<1>3. /\ L.reuse \in BOOLEAN /\ past \in Nat /\ past < Len(text) /\ IsMemory(L.mem)
      /\ ~L.reuse => past = 0 /\ L.mem = Empty
  BY <1>2 DEF Begun
<1>4. /\ r \in SlotRecord /\ r.state = "PROCESSING_PROMPT" /\ r.n_past = past
      /\ r.checkpoint \in Nat
  <2>1. \A p \in Nat :
          /\ Prompted(sl, docs, p) \in SlotRecord
          /\ Prompted(sl, docs, p).state = "PROCESSING_PROMPT"
          /\ Prompted(sl, docs, p).n_past = p
    BY PromptedIs
  <2>2. r \in SlotRecord /\ r.state = "PROCESSING_PROMPT" /\ r.n_past = past
    BY <1>3, <2>1
  <2> QED BY <2>2 DEF SlotRecord
<1>5. ~L.reuse => ~Due(r)
  BY <1>3, <1>4 DEF Due
<1>6. text[Len(text)] # Null
  BY <1>1, <1>3 DEF NoNull
<1>7. ~L.reuse => /\ Held(recurrent, Fits(recurrent, r), text, L.mem, past)
                  /\ Held(recurrent, Fits(recurrent, r), text, Empty, past)
  BY <1>3, EmptyHeld
<1>8. \A mm : (~L.reuse => Held(recurrent, Fits(recurrent, r), text, mm, past))
         => Sane(recurrent, r, mm, Empty, L.reuse, "prompt")
  BY <1>3, <1>6, Starting
<1> QED BY <1>3, <1>4, <1>5, <1>7, <1>8

LEMMA StepNextDocument == ASSUME Inv, NEW s \in Slots, NextDocument(s) PROVE Inv'
<1> DEFINE docs == Tail(slot[s].docs)
           L == PromptLoad(slot[s].load, slot[s].cache_tokens, Empty, Head(docs))
           r == Prompted(slot[s], docs, L.n_past)
<1>1. /\ slot' = [slot EXCEPT ![s] = r]
      /\ ClearMemory(s, L.reuse) /\ file' = file /\ Emitting(s, "rerank")
      /\ Len(slot[s].docs) > 1
  BY DEF NextDocument
<1>2. /\ pc = "emit" /\ scan = s /\ pc' = "sample" /\ scan' = s + 1 /\ scan' \in 1 .. NSlots + 1
      /\ UNCHANGED <<recurrent, t_last_used, batch, rows, logits, served>>
      /\ InUse(slot[s]) /\ slot[s].task = "rerank"
  BY <1>1, AtEmit
<1>3. /\ docs \in Seq(Texts) /\ docs # <<>>
      /\ \A i \in DOMAIN docs : docs[i] # <<>> /\ NoNull(docs[i])
  <2>1. slot[s].docs \in Seq(Texts) /\ slot[s].docs # <<>>
        /\ \A i \in DOMAIN slot[s].docs : slot[s].docs[i] # <<>> /\ NoNull(slot[s].docs[i])
    BY <1>2, Facts DEF InUse
  <2> QED BY <1>1, <2>1, DocsAre
<1>4. Head(docs) # <<>> /\ NoNull(Head(docs))
  <2> HIDE DEF docs
  <2> QED BY <1>3, DocsAre
<1>5. /\ r \in SlotRecord /\ r.state = "PROCESSING_PROMPT" /\ L.reuse \in BOOLEAN
      /\ ~L.reuse => ~Due(r)
      /\ Sane(recurrent, r, Empty, Empty, L.reuse, "prompt")
  <2> HIDE DEF docs
  <2> QED BY <1>3, <1>4, Facts, EmptyMemory, StartsAnew
<1> HIDE DEF r, L
<1>6. /\ slot' \in [Slots -> SlotRecord] /\ slot'[s] = r
      /\ \A t \in Slots \ {s} : slot'[t] = slot[t]
  BY <1>1, <1>5, Facts
<1>7. /\ \A t \in Slots \ {s} : Stage(t)' = Stage(t) /\ Pending(t)' = Pending(t)
      /\ Pending(s)' = Empty /\ Stage(s)' = "prompt"
  BY <1>2, <1>5, <1>6, EmitStages
<1>8. Sane(recurrent, slot'[s], Empty, Pending(s)', L.reuse, Stage(s)')
  BY <1>5, <1>6, <1>7
<1>9. /\ DOMAIN mem' = Slots /\ disturbed' \in [Slots -> BOOLEAN]
      /\ \A t \in Slots : IsMemory(mem'[t]) /\ DOMAIN mem'[t] \subseteq Nat
      /\ disturbed'[s] = L.reuse /\ \A t \in Slots \ {s} : disturbed[t] => disturbed'[t]
      /\ \A t \in Slots : SlotInv(t)'
  BY <1>1, <1>2, <1>5, <1>6, <1>7, <1>8, ClearedSlots
<1>10. Types'
  BY <1>1, <1>2, <1>6, <1>9 DEF Inv, Types, TypeOK
<1>11. \A t \in Slots : PlaceInv(t)'
  BY <1>2, <1>5, <1>6, <1>9 DEF Inv, PlaceInv
<1> QED BY <1>1, <1>2, <1>9, <1>10, <1>11 DEF Inv, Usable

-----------------------------------------------------------------------------
(* Requests                                                                *)

LEMMA AtAssign ==
  ASSUME Inv, NEW s \in Slots, Available(s)
  PROVE  /\ pc = "pending" /\ slot[s].state \notin Busy /\ served < MaxRequests
         /\ served + 1 \in 0 .. MaxRequests
         /\ \A t \in Slots : Pending(t) = Empty
<1>1. served \in 0 .. MaxRequests /\ MaxRequests \in Nat
  BY SlotCacheAssumption DEF SlotCacheAssumption, Inv, Types, TypeOK
<1> QED BY <1>1 DEF Available, Pending

LEMMA AssignStages ==
  ASSUME NEW s \in Slots, pc = "pending", UNCHANGED loop, UNCHANGED batch,
         \A t \in Slots \ {s} : slot'[t] = slot[t]
  PROVE  /\ \A t \in Slots \ {s} : Stage(t)' = Stage(t) /\ Pending(t)' = Pending(t)
         /\ \A t \in Slots : Pending(t)' = Empty
         /\ slot'[s].state = "PROCESSING_PROMPT" => Stage(s)' = "prompt"
         /\ slot'[s].state = "DONE" => Stage(s)' = "other"
BY DEF Stage, Unsampled, Pending, loop

LEMMA StepFailLoad == ASSUME Inv, NEW s \in Slots, NEW q \in Shapes, FailLoad(s, q) PROVE Inv'
<1>0. PICK kept \in {<<slot[s].cache_tokens, mem[s]>>, <<<<>>, mem[s]>>, <<<<>>, Empty>>} :
        /\ slot' = [slot EXCEPT ![s] = [WithPaths(slot[s], q) EXCEPT
                      !.media = slot[s].media, !.state = "DONE", !.cache_tokens = kept[1]]]
        /\ mem' = [mem EXCEPT ![s] = kept[2]]
  BY DEF FailLoad
<1> DEFINE cache == kept[1]
           m == kept[2]
<1>a. \/ cache = slot[s].cache_tokens /\ m = mem[s]
      \/ cache = <<>> /\ m \in {mem[s], Empty}
  BY <1>0
<1> DEFINE r == [WithPaths(slot[s], q) EXCEPT
                   !.media = slot[s].media, !.state = "DONE", !.cache_tokens = cache]
<1>1. /\ slot' = [slot EXCEPT ![s] = r] /\ served' = served + 1 /\ Available(s)
      /\ UNCHANGED <<recurrent, t_last_used, file, batch, rows, logits, pc, scan, disturbed>>
  BY <1>0 DEF FailLoad, outputs, loop
<1>2. mem' = [mem EXCEPT ![s] = m]
  BY <1>0
<1> HIDE DEF cache, m
<1>3. /\ r \in SlotRecord /\ r.state = "DONE" /\ r.cache_tokens = cache
      /\ Due(r) = Due(slot[s]) /\ r.n_past = slot[s].n_past
      /\ r.media = slot[s].media /\ r.load = TRUE
  <2>1. WithPaths(slot[s], q) \in SlotRecord /\ slot[s].media \in BOOLEAN /\ cache \in Texts
    BY <1>a, Facts, PathsAre, TextEmpty
  <2>2. /\ r \in SlotRecord /\ r.state = "DONE" /\ r.cache_tokens = cache
        /\ r.checkpoint = WithPaths(slot[s], q).checkpoint
        /\ r.n_past = WithPaths(slot[s], q).n_past
        /\ r.media = slot[s].media /\ r.load = WithPaths(slot[s], q).load
    BY <2>1 DEF SlotRecord
  <2>3. /\ WithPaths(slot[s], q).checkpoint = slot[s].checkpoint
        /\ WithPaths(slot[s], q).n_past = slot[s].n_past
        /\ WithPaths(slot[s], q).load = TRUE
    BY Facts DEF WithPaths, SlotRecord, FailLoad
  <2> HIDE DEF r
  <2> QED BY <2>2, <2>3 DEF Due
<1> HIDE DEF r
<1>4. /\ slot' \in [Slots -> SlotRecord] /\ slot'[s] = r
      /\ \A t \in Slots \ {s} : slot'[t] = slot[t]
  BY <1>1, <1>3, Facts
<1>5. /\ DOMAIN mem' = Slots /\ \A t \in Slots \ {s} : mem'[t] = mem[t]
      /\ \A t \in Slots : IsMemory(mem'[t]) /\ DOMAIN mem'[t] \subseteq Nat
  <2>1. DOMAIN mem' = Slots /\ mem'[s] = m /\ \A t \in Slots \ {s} : mem'[t] = mem[t]
    BY <1>2 DEF Inv, Types
  <2>2. IsMemory(m)
    BY <1>a, Facts, EmptyMemory
  <2> QED BY <2>1, <2>2, MemoryOfOne
<1>6. pc = "pending" /\ served + 1 \in 0 .. MaxRequests
  BY <1>1, AtAssign
<1>7. Types'
  BY <1>1, <1>4, <1>5, <1>6 DEF Inv, Types, TypeOK
<1>8. /\ \A t \in Slots \ {s} : Stage(t)' = Stage(t) /\ Pending(t)' = Pending(t)
      /\ Pending(s)' = Empty /\ Stage(s)' = "other"
  BY <1>1, <1>3, <1>4, <1>6, AssignStages DEF loop
<1>9. \A t \in Slots : SlotInv(t)'
  <2>1. Sane(recurrent, slot'[s], mem'[s], Pending(s)', disturbed'[s], Stage(s)')
    <3>1. Sane(recurrent, slot[s], mem[s], Empty, disturbed[s], Stage(s))
      BY <1>1, <1>6, <1>8, Facts DEF SlotInv, Pending
    <3>2. CASE cache = <<>>
      BY <1>3, <1>4, <1>8, <3>2 DEF Sane
    <3>3. CASE cache # <<>>
      <4>1. cache = slot[s].cache_tokens /\ m = mem[s] /\ mem'[s] = mem[s] /\ disturbed'[s] = disturbed[s]
        BY <1>a, <1>1, <1>2, <3>3 DEF Inv, Types
      <4>a. Fits(recurrent, r) => Fits(recurrent, slot[s])
        BY <1>3 DEF Fits
      <4>b. Covered(slot[s], mem[s]) => Covered(r, mem[s])
        BY <1>3, <4>1 DEF Covered
      <4>c. Kept(recurrent, slot[s], mem[s], Empty) => Kept(recurrent, r, mem[s], Empty)
        BY <1>3, <4>1, <4>a DEF Kept, Held
      <4>2. ~disturbed[s] /\ Due(slot[s]) => Covered(r, mem[s]) \/ Kept(recurrent, r, mem[s], Empty)
        BY <3>1, <3>3, <4>1, <4>b, <4>c DEF Sane
      <4> QED BY <1>3, <1>4, <1>8, <4>1, <4>2 DEF Sane
    <3> QED BY <3>2, <3>3
  <2> QED BY <1>1, <1>4, <1>5, <1>8, <2>1, OneSlot
<1>10. \A t \in Slots : PlaceInv(t)'
  BY <1>1, <1>6 DEF PlaceInv
<1> QED BY <1>1, <1>7, <1>9, <1>10 DEF Inv, Usable


(* The prompts of a request other than a completion are text.              *)
LEMMA TextPrompts ==
  ASSUME ImagesMarked, NEW q \in Shapes, q.task # "completion"
  PROVE  /\ q.prompts \in Seq(Texts) /\ q.prompts # <<>> /\ q.prompts[1] = Head(q.prompts)
         /\ \A i \in DOMAIN q.prompts : q.prompts[i] # <<>> /\ NoNull(q.prompts[i])
         /\ Head(q.prompts) # <<>> /\ NoNull(Head(q.prompts))
<1>1. \A i \in DOMAIN q.prompts : q.prompts[i] # <<>> /\ NoNull(q.prompts[i])
  BY ShapeIs DEF ImagesMarked, NoNull
<1> QED BY <1>1, ShapeIs

LEMMA StepAssignEmbedding ==
  ASSUME ImagesMarked, Inv, NEW s \in Slots, NEW q \in Shapes, AssignEmbedding(s, q)
  PROVE  Inv'
<1> DEFINE L == PromptLoad(slot[s].load, slot[s].cache_tokens, mem[s], Head(q.prompts))
           sl == Taken(slot[s], q)
           r == Prompted(sl, q.prompts, L.n_past)
<1>1. q.task = "embedding" /\ Available(s)
  BY DEF AssignEmbedding
<1>2. /\ q.prompts \in Seq(Texts) /\ q.prompts # <<>> /\ q.prompts[1] = Head(q.prompts)
      /\ Head(q.prompts) # <<>> /\ NoNull(Head(q.prompts))
  BY <1>1, TextPrompts
<1>3. /\ slot' = [slot EXCEPT ![s] = r] /\ mem' = [mem EXCEPT ![s] = L.mem]
      /\ disturbed' = [disturbed EXCEPT ![s] = L.reuse] /\ served' = served + 1
      /\ UNCHANGED <<recurrent, t_last_used, file, batch, rows, logits, pc, scan>>
  BY <1>2 DEF AssignEmbedding, outputs, loop
<1>4. /\ r \in SlotRecord /\ r.state = "PROCESSING_PROMPT"
      /\ L.reuse \in BOOLEAN /\ IsMemory(L.mem)
      /\ Sane(recurrent, r, L.mem, Empty, L.reuse, "prompt")
  <2>1. sl \in SlotRecord /\ sl.load = slot[s].load /\ sl.task = q.task
    BY Facts, TakenIs
  <2> HIDE DEF sl
  <2>2. sl.task # "rerank"
    BY <1>1, <2>1
  <2> QED BY <1>2, <2>1, <2>2, Facts, StartsAnew
<1> HIDE DEF r, L
<1>5. /\ slot' \in [Slots -> SlotRecord] /\ slot'[s] = r
      /\ \A t \in Slots \ {s} : slot'[t] = slot[t]
  BY <1>3, <1>4, Facts
<1>6. /\ DOMAIN mem' = Slots /\ mem'[s] = L.mem /\ \A t \in Slots \ {s} : mem'[t] = mem[t]
      /\ disturbed' \in [Slots -> BOOLEAN] /\ disturbed'[s] = L.reuse
      /\ \A t \in Slots \ {s} : disturbed'[t] = disturbed[t]
  BY <1>3, <1>4 DEF Inv, Types, TypeOK
<1>7. \A t \in Slots : IsMemory(mem'[t]) /\ DOMAIN mem'[t] \subseteq Nat
  BY <1>4, <1>6, MemoryOfOne
<1>8. pc = "pending" /\ served + 1 \in 0 .. MaxRequests
  BY <1>1, AtAssign
<1>9. Types'
  BY <1>3, <1>5, <1>6, <1>7, <1>8 DEF Inv, Types, TypeOK
<1>10. /\ \A t \in Slots \ {s} : Stage(t)' = Stage(t) /\ Pending(t)' = Pending(t)
       /\ Pending(s)' = Empty /\ Stage(s)' = "prompt"
  BY <1>3, <1>4, <1>5, <1>8, AssignStages DEF loop
<1>11. \A t \in Slots : SlotInv(t)'
  BY <1>3, <1>4, <1>5, <1>6, <1>10, OneSlot
<1>12. \A t \in Slots : PlaceInv(t)'
  BY <1>3, <1>8 DEF PlaceInv
<1> QED BY <1>3, <1>9, <1>11, <1>12 DEF Inv, Usable

LEMMA StepAssignRerank ==
  ASSUME ImagesMarked, Inv, NEW s \in Slots, NEW q \in Shapes, AssignRerank(s, q)
  PROVE  Inv'
<1> DEFINE L == PromptLoad(slot[s].load, slot[s].cache_tokens, Empty, Head(q.prompts))
           sl == Taken(slot[s], q)
           r == Prompted(sl, q.prompts, L.n_past)
<1>1. q.task = "rerank" /\ Available(s)
  BY DEF AssignRerank
<1>2. /\ q.prompts \in Seq(Texts) /\ q.prompts # <<>> /\ q.prompts[1] = Head(q.prompts)
      /\ Head(q.prompts) # <<>> /\ NoNull(Head(q.prompts))
      /\ \A i \in DOMAIN q.prompts : q.prompts[i] # <<>> /\ NoNull(q.prompts[i])
  BY <1>1, TextPrompts
<1>3. /\ slot' = [slot EXCEPT ![s] = r] /\ ClearMemory(s, L.reuse) /\ served' = served + 1
      /\ UNCHANGED <<recurrent, t_last_used, file, batch, rows, logits, pc, scan>>
  BY <1>2 DEF AssignRerank, outputs, loop
<1>4. /\ r \in SlotRecord /\ r.state = "PROCESSING_PROMPT" /\ L.reuse \in BOOLEAN
      /\ Sane(recurrent, r, Empty, Empty, L.reuse, "prompt")
  <2>1. sl \in SlotRecord /\ sl.load = slot[s].load
    BY Facts, TakenIs
  <2> HIDE DEF sl
  <2> QED BY <1>2, <2>1, EmptyMemory, StartsAnew
<1> HIDE DEF r, L
<1>5. /\ slot' \in [Slots -> SlotRecord] /\ slot'[s] = r
      /\ \A t \in Slots \ {s} : slot'[t] = slot[t]
  BY <1>3, <1>4, Facts
<1>6. pc = "pending" /\ served + 1 \in 0 .. MaxRequests
  BY <1>1, AtAssign
<1>7. /\ \A t \in Slots \ {s} : Stage(t)' = Stage(t) /\ Pending(t)' = Pending(t)
      /\ Pending(s)' = Empty /\ Stage(s)' = "prompt"
  BY <1>3, <1>4, <1>5, <1>6, AssignStages DEF loop
<1>8. Sane(recurrent, slot'[s], Empty, Pending(s)', L.reuse, Stage(s)')
  BY <1>4, <1>5, <1>7
<1>9. /\ DOMAIN mem' = Slots /\ disturbed' \in [Slots -> BOOLEAN]
      /\ \A t \in Slots : IsMemory(mem'[t]) /\ DOMAIN mem'[t] \subseteq Nat
      /\ \A t \in Slots : SlotInv(t)'
  BY <1>3, <1>4, <1>5, <1>7, <1>8, ClearedSlots
<1>10. Types'
  BY <1>3, <1>5, <1>6, <1>9 DEF Inv, Types, TypeOK
<1>11. \A t \in Slots : PlaceInv(t)'
  BY <1>3, <1>6 DEF PlaceInv
<1> QED BY <1>3, <1>9, <1>10, <1>11 DEF Inv, Usable

(* A completion begins with what it loaded, or with nothing.               *)
LEMMA StepAssignCompletion ==
  ASSUME EndInText, ImagesMarked, WholeStateForText,
         Inv, NEW s \in Slots, NEW q \in Shapes, AssignCompletion(s, q)
  PROVE  Inv'
<1> DEFINE text == Head(q.prompts)
           cache == IF q.load THEN LoadedTokens(q) ELSE slot[s].cache_tokens
           m == IF q.load THEN LoadedMemory(q) ELSE mem[s]
           L == PromptLoad(q.load, cache, m, text)
           sl == WithPaths(slot[s], q)
           r == Prompted(sl, q.prompts, L.n_past)
           dist == L.reuse /\ file.tainted
<1>1. /\ q.task = "completion" /\ Available(s) /\ (q.load => file # NoFile)
  BY DEF AssignCompletion
<1>2. /\ q.prompts \in Seq(Texts) /\ q.prompts # <<>> /\ q.prompts[1] = text
      /\ text \in Texts /\ text # <<>> /\ q.load \in BOOLEAN /\ q.media \in BOOLEAN
      /\ Len(text) \in Nat /\ DOMAIN text = 1 .. Len(text)
      /\ text[Len(text)] # Null
      /\ NoNull(text) \/ q.media
  <2>1. /\ q.prompts \in Seq(Texts) /\ q.prompts # <<>> /\ q.prompts[1] = text
        /\ 1 \in DOMAIN q.prompts /\ q.load \in BOOLEAN /\ q.media \in BOOLEAN
        /\ q.prompts[1] \in Texts /\ q.prompts[1] # <<>>
    BY ShapeIs
  <2>2. q.prompts[1][Len(q.prompts[1])] # Null
    BY <2>1 DEF EndInText
  <2>3. NoNull(q.prompts[1]) \/ q.media
    BY <2>1 DEF ImagesMarked, NoNull
  <2> HIDE DEF text
  <2> QED BY <2>1, <2>2, <2>3, TextLength
<1>3. /\ slot' = [slot EXCEPT ![s] = r] /\ mem' = [mem EXCEPT ![s] = L.mem]
      /\ disturbed' = [disturbed EXCEPT ![s] = dist] /\ served' = served + 1
      /\ UNCHANGED <<recurrent, t_last_used, file, batch, rows, logits, pc, scan>>
  BY <1>2 DEF AssignCompletion, outputs, loop
<1>4. cache \in Texts /\ IsMemory(m)
  BY <1>2, Facts, LoadedTypes
<1>5. L = PromptLoad(q.load, cache, m, text)
  OBVIOUS
<1>6. Begun(L, cache, m, text)
  <2> HIDE DEF text, cache, m, L
  <2> QED BY <1>2, <1>4, <1>5, Facts, PromptLoadIs
<1>7. /\ L.reuse \in BOOLEAN /\ L.n_past \in Nat /\ L.n_past < Len(text) /\ IsMemory(L.mem)
      /\ ~L.reuse => L.n_past = 0
      /\ L.n_past = 0 => L.mem = Empty
  BY <1>6 DEF Begun
<1>8. ~q.load => ~L.reuse
  BY DEF PromptLoad
<1>9. sl \in SlotRecord /\ sl.task = "completion" /\ sl.media = q.media /\ sl.load = q.load
  BY Facts, PathsAre
<1> HIDE DEF sl
<1>10. /\ r \in SlotRecord /\ r.state = "PROCESSING_PROMPT" /\ r.media = q.media
       /\ r.load = q.load
  <2> DEFINE docs == q.prompts
             past == L.n_past
  <2>1. /\ r = Prompted(sl, docs, past) /\ past \in Nat
        /\ docs \in Seq(Texts) /\ docs # <<>> /\ Head(docs) # <<>>
    BY <1>2, <1>7
  <2> HIDE DEF r, L, text, docs, past
  <2>2. /\ r \in SlotRecord /\ r.state = "PROCESSING_PROMPT"
        /\ r.media = sl.media /\ r.load = sl.load
    BY <1>9, <2>1, PromptedIs
  <2> QED BY <1>9, <2>2
<1>11. ~dist => Held(recurrent, Fits(recurrent, r), text, L.mem, L.n_past)
  <2>1. CASE L.n_past = 0
    <3> HIDE DEF L, text, r
    <3> QED BY <1>7, <2>1, EmptyHeld
  <2>2. CASE L.n_past # 0
    <3> SUFFICES ASSUME ~dist PROVE Held(recurrent, Fits(recurrent, r), text, L.mem, L.n_past)
      OBVIOUS
    <3>1. L.reuse /\ q.load /\ ~file.tainted /\ file # NoFile
      BY <1>1, <1>2, <1>7, <1>8, <2>2
    <3>2. L = PromptLoad(TRUE, LoadedTokens(q), LoadedMemory(q), text)
      BY <3>1
    <3>3. Fits(recurrent, r) => ~recurrent
      BY <1>10, <3>1 DEF Fits
    <3>4. Fits(recurrent, r) \in BOOLEAN
      BY DEF Fits
    <3> HIDE DEF L, text, r
    <3> QED BY <1>2, <3>1, <3>2, <3>3, Facts, LoadedHeld DEF Inv
  <2> QED BY <2>1, <2>2
<1>12. NoNull(text) \/ (sl.media /\ (L.n_past > 0 => ~recurrent))
  <2>1. recurrent /\ q.load => ~q.media
    BY DEF WholeStateForText, Inv, Types, TypeOK
  <2>2. L.n_past > 0 => q.load
    BY <1>2, <1>7, <1>8
  <2> QED BY <1>2, <1>9, <2>1, <2>2
<1>13. Sane(recurrent, r, L.mem, Empty, dist, "prompt")
  <2>1. sl.task # "rerank"
    BY <1>9
  <2>2. r = Prompted(sl, q.prompts, L.n_past) /\ Head(q.prompts) = text
    OBVIOUS
  <2> HIDE DEF L, r, dist, text
  <2> QED BY <1>2, <1>7, <1>9, <1>11, <1>12, <2>1, <2>2, Starting
<1>14. dist \in BOOLEAN
  BY <1>7, Facts
<1> HIDE DEF L, r, dist
<1>15. /\ slot' \in [Slots -> SlotRecord] /\ slot'[s] = r
       /\ \A t \in Slots \ {s} : slot'[t] = slot[t]
  BY <1>3, <1>10, Facts
<1>16. /\ DOMAIN mem' = Slots /\ mem'[s] = L.mem /\ \A t \in Slots \ {s} : mem'[t] = mem[t]
       /\ disturbed' \in [Slots -> BOOLEAN] /\ disturbed'[s] = dist
       /\ \A t \in Slots \ {s} : disturbed'[t] = disturbed[t]
  BY <1>3, <1>14 DEF Inv, Types, TypeOK
<1>17. \A t \in Slots : IsMemory(mem'[t]) /\ DOMAIN mem'[t] \subseteq Nat
  BY <1>7, <1>16, MemoryOfOne
<1>18. pc = "pending" /\ served + 1 \in 0 .. MaxRequests
  BY <1>1, AtAssign
<1>19. Types'
  BY <1>3, <1>15, <1>16, <1>17, <1>18 DEF Inv, Types, TypeOK
<1>20. /\ \A t \in Slots \ {s} : Stage(t)' = Stage(t) /\ Pending(t)' = Pending(t)
       /\ Pending(s)' = Empty /\ Stage(s)' = "prompt"
  BY <1>3, <1>10, <1>15, <1>18, AssignStages DEF loop
<1>21. \A t \in Slots : SlotInv(t)'
  BY <1>3, <1>13, <1>15, <1>16, <1>20, OneSlot
<1>22. \A t \in Slots : PlaceInv(t)'
  BY <1>3, <1>18 DEF PlaceInv
<1> QED BY <1>3, <1>19, <1>21, <1>22 DEF Inv, Usable

-----------------------------------------------------------------------------
(* The theorems                                                            *)

LEMMA InitInv == ASSUME Init PROVE Inv
<1>1. /\ Fresh(<<>>) \in SlotRecord /\ Fresh(<<>>).state = "IDLE"
      /\ \A m, dist : Sane(recurrent, Fresh(<<>>), m, Empty, dist, "other")
  BY TextEmpty, FreshIs, FreshSane
<1>2. /\ slot = [s \in Slots |-> Fresh(<<>>)] /\ mem = [s \in Slots |-> Empty]
      /\ batch = [s \in Slots |-> Empty] /\ file = NoFile /\ recurrent \in Recurrent
      /\ rows = 0 /\ logits = 0 /\ pc = "pending" /\ scan = 1 /\ served = 0
      /\ t_last_used = [s \in Slots |-> s] /\ disturbed = [s \in Slots |-> FALSE]
  BY DEF Init
<1>3. Types
  <2>1. recurrent \in BOOLEAN /\ MaxRequests \in Nat
    BY <1>2, SlotCacheAssumption DEF SlotCacheAssumption
  <2>2. slot \in [Slots -> SlotRecord] /\ t_last_used \in [Slots -> Int]
    BY <1>1, <1>2, SlotNumbers
  <2>3. /\ file.toks \in Texts /\ file.tainted \in BOOLEAN /\ IsMemory(file.mem)
    BY <1>2, TextEmpty, EmptyMemory DEF NoFile
  <2>4. /\ DOMAIN mem = Slots /\ DOMAIN batch = Slots /\ disturbed \in [Slots -> BOOLEAN]
        /\ \A s \in Slots : IsMemory(mem[s]) /\ IsMemory(batch[s])
    BY <1>2, EmptyMemory
  <2>5. scan \in 1 .. NSlots + 1 /\ served \in 0 .. MaxRequests
    BY <1>2, <2>1, SlotNumbers
  <2> QED BY <1>2, <2>1, <2>2, <2>3, <2>4, <2>5 DEF Types, TypeOK, IsMemory
<1>4. ASSUME NEW s \in Slots PROVE SlotInv(s) /\ PlaceInv(s)
  <2>1. slot[s] = Fresh(<<>>) /\ Pending(s) = Empty /\ Stage(s) = "other"
    BY <1>1, <1>2 DEF Pending, Stage
  <2> QED BY <1>1, <1>2, <2>1 DEF SlotInv, PlaceInv
<1>5. Usable(recurrent, file)
  BY <1>2 DEF Usable, NoFile, NoNull
<1> QED BY <1>3, <1>4, <1>5 DEF Inv

LEMMA StepKeeps ==
  ASSUME EndInText, ImagesMarked, WholeStateForText, Inv, [Next]_vars
  PROVE  Inv'
<1>1. ASSUME NEW s \in Slots, Assign(s) PROVE Inv'
  BY <1>1, StepAssignCompletion, StepFailLoad, StepAssignEmbedding, StepAssignRerank DEF Assign
<1>2. ASSUME NEW s \in Slots, Fill(s) PROVE Inv'
  BY <1>2, StepPromptSlot, StepFillMedia, StepFailMedia, StepFillText DEF Fill
<1>3. ASSUME NEW s \in Slots, Emit(s) PROVE Inv'
  BY <1>3, StepSampleSkip, StepSampleSlot, StepEmitEog, StepEmitEmbedding, StepEmitScores,
     StepNextDocument, StepEmitLast, StepEmitToken DEF Emit
<1>4. CASE Next
  <2>1. \/ \E s \in Slots : Assign(s)
        \/ \E s \in Slots : Cancel(s)
        \/ \E s \in Slots : Fill(s)
        \/ \E s \in Slots : SaveCheckpoint(s)
        \/ \E s \in Slots : Emit(s)
        \/ \E s \in Slots : Release(s)
        \/ PendingDone \/ BuildGenerating \/ PromptDone \/ Decode \/ DecodeFails
        \/ CheckpointDone \/ SampleDone \/ ReleaseDone
    BY <1>4 DEF Next
  <2> QED BY <1>1, <1>2, <1>3, <2>1, StepCancel, StepSaveCheckpoint, StepRelease,
             StepPendingDone, StepBuildGenerating, StepPromptDone, StepDecode, StepDecodeFails,
             StepCheckpointDone, StepSampleDone, StepReleaseDone
<1>5. CASE UNCHANGED vars
  BY <1>5, StepNothing
<1> QED BY <1>4, <1>5

LEMMA InvHolds ==
  ASSUME EndInText, ImagesMarked, WholeStateForText
  PROVE  Spec => []Inv
<1>1. Init => Inv
  BY InitInv
<1>2. Inv /\ [Next]_vars => Inv'
  BY StepKeeps
<1> QED BY <1>1, <1>2, PTL DEF Spec

(* The types of the variables.                                             *)
THEOREM TypeCorrect ==
  ASSUME EndInText, ImagesMarked, WholeStateForText
  PROVE  Spec => []TypeOK
<1>1. Inv => TypeOK
  BY DEF Inv, Types
<1> QED BY <1>1, InvHolds, PTL

(* A slot is sampled from its own prompt and all of it: whatever was       *)
(* loaded, trimmed, cancelled, released or failed before, its sequence is  *)
(* the prompt and what was generated, at their positions.                  *)
THEOREM SampledFromOwnPrompt ==
  ASSUME EndInText, ImagesMarked, WholeStateForText
  PROVE  Spec => []OwnMemory
<1>1. Inv => OwnMemory
  <2> SUFFICES ASSUME Inv, NEW s \in Slots, Sampling(s), ~disturbed[s]
               PROVE  mem[s] = Placed(slot[s].cache_tokens, Len(slot[s].cache_tokens))
    BY DEF OwnMemory
  <2>1. Stage(s) = "sampling" /\ Pending(s) = Empty
    BY SlotNumbers DEF Sampling, Stage, Unsampled, Pending
  <2>2. Sane(recurrent, slot[s], mem[s], Empty, disturbed[s], "sampling")
    BY <2>1, Facts DEF SlotInv
  <2>3. /\ Exact(mem[s], slot[s].cache_tokens, slot[s].n_past)
        /\ slot[s].n_past = Len(slot[s].cache_tokens)
    BY <2>2 DEF Sane
  <2>4. IsMemory(mem[s]) /\ slot[s].n_past \in Nat
    BY Facts
  <2> QED BY <2>3, <2>4, ExactPlaced
<1> QED BY <1>1, InvHolds, PTL

(* llama_decode is given no positions it must refuse, but by the slots the *)
(* property excepts.                                                       *)
THEOREM DecodedInOrder ==
  ASSUME EndInText, ImagesMarked, WholeStateForText
  PROVE  Spec => []PositionsFollow
<1>1. Inv => PositionsFollow
  <2> SUFFICES ASSUME Inv, pc = "decode", NEW s \in Slots,
                      ~disturbed[s], ~slot[s].media, recurrent => ~slot[s].load
               PROVE  Follows(mem[s], batch[s])
    BY DEF PositionsFollow
  <2>1. Pending(s) = batch[s]
    BY DEF Pending
  <2>2. Sane(recurrent, slot[s], mem[s], batch[s], disturbed[s], Stage(s))
    BY <2>1, Facts DEF SlotInv
  <2>3. CASE batch[s] = Empty
    BY <2>3, NothingFollows
  <2>4. CASE batch[s] # Empty
    <3>1. Coming(recurrent, slot[s], mem[s], batch[s]) /\ Fits(recurrent, slot[s])
      BY <2>2, <2>4 DEF Sane, Kept, Fits
    <3> QED BY <3>1, Facts, ComingFollows
  <2> QED BY <2>3, <2>4
<1> QED BY <1>1, InvHolds, PTL

(* A state file can be used, whichever slot wrote it and when: what it     *)
(* says of its memory is true.                                             *)
THEOREM StateFilesMatch ==
  ASSUME EndInText, ImagesMarked, WholeStateForText
  PROVE  Spec => []FileMatches
<1>1. Inv => FileMatches
  <2> SUFFICES ASSUME Inv, ~file.tainted, NEW i \in DOMAIN file.toks
               PROVE  IF i - 1 \in DOMAIN file.mem
                        THEN file.mem[i - 1] = file.toks[i] ELSE recurrent
    BY DEF FileMatches
  <2>1. Len(file.toks) \in Nat /\ i \in 1 .. Len(file.toks) /\ file.toks # <<>>
    BY Facts, TextLength, TextEmpty
  <2>2. PICK k \in Nat \ {0} :
          /\ DOMAIN file.mem = 0 .. k - 1
          /\ \A p \in 0 .. k - 1 : p < Len(file.toks) => file.mem[p] = file.toks[p + 1]
          /\ ~recurrent => Len(file.toks) <= k
    BY <2>1 DEF Inv, Usable
  <2>3. i - 1 \in Int /\ 0 <= i - 1 /\ i - 1 < Len(file.toks) /\ i - 1 + 1 = i
    BY <2>1
  <2>4. CASE i - 1 < k
    BY <2>2, <2>3, <2>4
  <2>5. CASE ~(i - 1 < k)
    BY <2>1, <2>2, <2>3, <2>5
  <2> QED BY <2>4, <2>5
<1> QED BY <1>1, InvHolds, PTL

-----------------------------------------------------------------------------
(* Requests that cannot harm each other: no images; no state is loaded but *)
(* by completions, into a model that can drop a part of its state; no      *)
(* rerank clears the memory of another slot; llama_decode fails only when  *)
(* it must.                                                                *)
PeacefulRequests ==
  /\ DecodeMayFail = FALSE
  /\ \A q \in Shapes : ~q.media
  /\ \A q \in Shapes : q.load => TRUE \notin Recurrent /\ \A r \in Shapes : r.task = "completion"
  /\ \A q \in Shapes : q.task = "rerank" => NSlots = 1

LoadsAsked == \E q \in Shapes : q.load
RerankAsked == \E q \in Shapes : q.task = "rerank"

Peaceful(sl) ==
  sl.media = FALSE /\ (sl.load => LoadsAsked) /\ (sl.task = "rerank" => RerankAsked)

Undisturbed ==
  /\ \A s \in Slots : ~disturbed[s] /\ Peaceful(slot[s])
  /\ ~file.tainted

(* A slot as a record.                                                     *)
LEMMA SameSlot ==
  ASSUME Inv, Undisturbed, NEW s \in Slots, NEW r, slot' = [slot EXCEPT ![s] = r],
         Peaceful(r), \A t \in Slots : ~disturbed'[t], ~file'.tainted
  PROVE  Undisturbed'
<1>1. slot'[s] = r /\ \A t \in Slots \ {s} : slot'[t] = slot[t]
  BY Facts
<1>2. \A t \in Slots : Peaceful(slot'[t])
  BY <1>1 DEF Undisturbed
<1> QED BY <1>2 DEF Undisturbed, Peaceful, LoadsAsked, RerankAsked

LEMMA UndisturbedAssign ==
  ASSUME PeacefulRequests, Inv, Undisturbed, NEW s \in Slots, NEW q \in Shapes,
         \/ AssignCompletion(s, q) \/ FailLoad(s, q)
         \/ AssignEmbedding(s, q) \/ AssignRerank(s, q)
  PROVE  Undisturbed'
<1>1. slot[s] \in SlotRecord /\ Peaceful(slot[s]) /\ q.media = FALSE
  BY Facts, ShapeIs DEF PeacefulRequests, Undisturbed, Peaceful
<1>2. WithPaths(slot[s], q) \in SlotRecord /\ Peaceful(WithPaths(slot[s], q))
  BY <1>1, PathsAre DEF Peaceful, LoadsAsked
<1>3. Taken(slot[s], q) \in SlotRecord /\ Peaceful(Taken(slot[s], q))
  BY <1>1, TakenIs DEF Peaceful, RerankAsked
<1>4. ASSUME NEW sl \in SlotRecord, Peaceful(sl), NEW docs, NEW past
      PROVE  Peaceful(Prompted(sl, docs, past))
  BY <1>4 DEF Prompted, SlotRecord, Peaceful
<1>5. CASE AssignCompletion(s, q)
  <2>1. PICK past : slot' = [slot EXCEPT ![s] = Prompted(WithPaths(slot[s], q), q.prompts, past)]
    BY <1>5 DEF AssignCompletion
  <2>2. file' = file /\ \A t \in Slots : ~disturbed'[t]
    BY <1>5 DEF AssignCompletion, Undisturbed, Inv, Types, TypeOK
  <2>3. Peaceful(Prompted(WithPaths(slot[s], q), q.prompts, past))
    BY <1>2, <1>4
  <2> QED BY <2>1, <2>2, <2>3, SameSlot DEF Undisturbed
<1>6. CASE FailLoad(s, q)
  <2>0. PICK kept \in {<<slot[s].cache_tokens, mem[s]>>, <<<<>>, mem[s]>>, <<<<>>, Empty>>} :
          slot' = [slot EXCEPT ![s] = [WithPaths(slot[s], q) EXCEPT
                     !.media = slot[s].media, !.state = "DONE", !.cache_tokens = kept[1]]]
    BY <1>6 DEF FailLoad
  <2> DEFINE r == [WithPaths(slot[s], q) EXCEPT
                     !.media = slot[s].media, !.state = "DONE", !.cache_tokens = kept[1]]
  <2>1. slot' = [slot EXCEPT ![s] = r] /\ file' = file /\ disturbed' = disturbed
    BY <1>6, <2>0 DEF FailLoad
  <2>2. Peaceful(r)
    BY <1>1, <1>2 DEF SlotRecord, Peaceful
  <2> HIDE DEF r
  <2> QED BY <2>1, <2>2, SameSlot DEF Undisturbed
<1>7. CASE AssignEmbedding(s, q) \/ AssignRerank(s, q)
  <2>1. ~slot[s].load
    <3>1. q.task # "completion"
      BY <1>7 DEF AssignEmbedding, AssignRerank
    <3> QED BY <1>1, <3>1 DEF Peaceful, LoadsAsked, PeacefulRequests
  <2>2. PICK past : slot' = [slot EXCEPT ![s] = Prompted(Taken(slot[s], q), q.prompts, past)]
    BY <1>7 DEF AssignEmbedding, AssignRerank
  <2>3. file' = file /\ \A t \in Slots : ~disturbed'[t]
    <3>1. CASE AssignEmbedding(s, q)
      BY <2>1, <3>1 DEF AssignEmbedding, PromptLoad, Undisturbed, Inv, Types, TypeOK
    <3>2. CASE AssignRerank(s, q)
      <4>1. \A t \in Slots : t = s
        BY <3>2, SlotNumbers DEF AssignRerank, PeacefulRequests
      <4> QED BY <2>1, <3>2, <4>1 DEF AssignRerank, ClearMemory, PromptLoad
    <3> QED BY <1>7, <3>1, <3>2
  <2>4. Peaceful(Prompted(Taken(slot[s], q), q.prompts, past))
    BY <1>3, <1>4
  <2> QED BY <2>2, <2>3, <2>4, SameSlot DEF Undisturbed
<1> QED BY <1>5, <1>6, <1>7

LEMMA UndisturbedEmit ==
  ASSUME PeacefulRequests, Inv, Undisturbed, NEW s \in Slots, Emit(s)
  PROVE  Undisturbed'
<1>1. slot[s] \in SlotRecord /\ Peaceful(slot[s]) /\ ~disturbed[s] /\ ~file.tainted
  BY Facts DEF Undisturbed
<1>2. \A toks : Written(s, toks).tainted = FALSE
  BY <1>1, Facts DEF Written
<1>3. CASE SampleSlot(s)
  BY <1>3 DEF SampleSlot, Undisturbed, Peaceful
<1>4. CASE SampleSkip(s) \/ EmitEmbedding(s)
  <2>1. /\ slot' = [slot EXCEPT ![s] = [slot[s] EXCEPT !.state = "DONE"]]
        /\ UNCHANGED <<file, disturbed>>
    BY <1>4 DEF SampleSkip, EmitEmbedding
  <2> DEFINE r == [slot[s] EXCEPT !.state = "DONE"]
  <2>2. Peaceful(r)
    BY <1>1 DEF SlotRecord, Peaceful
  <2> HIDE DEF r
  <2> QED BY <2>1, <2>2, SameSlot DEF r, Undisturbed
<1>5. CASE EmitEog(s)
  <2>1. slot' = [slot EXCEPT ![s] = [slot[s] EXCEPT !.state = "DONE"]] /\ disturbed' = disturbed
    BY <1>5 DEF EmitEog
  <2>2. ~file'.tainted
    BY <1>1, <1>2, <1>5 DEF EmitEog, SaveState
  <2> DEFINE r == [slot[s] EXCEPT !.state = "DONE"]
  <2>3. Peaceful(r)
    BY <1>1 DEF SlotRecord, Peaceful
  <2> HIDE DEF r
  <2> QED BY <2>1, <2>2, <2>3, SameSlot DEF r, Undisturbed
<1>6. ASSUME NEW t \in Tokens, EmitLast(s, t) \/ EmitToken(s, t) PROVE Undisturbed'
  <2>1. PICK r \in {Sampled(s, t), [Sampled(s, t) EXCEPT !.state = "DONE"]} :
          slot' = [slot EXCEPT ![s] = r] /\ disturbed' = disturbed
    BY <1>6 DEF EmitLast, EmitToken
  <2>2. ~file'.tainted
    BY <1>1, <1>2, <1>6 DEF EmitLast, EmitToken, SaveState
  <2>3. Peaceful(r)
    BY <1>1 DEF SlotRecord, Sampled, Peaceful
  <2> QED BY <2>1, <2>2, <2>3, SameSlot DEF Undisturbed
<1>7. CASE EmitScores(s) \/ NextDocument(s)
  <2>1. NSlots = 1 /\ ~slot[s].load
    <3>1. slot[s].task = "rerank"
      BY <1>7 DEF EmitScores, NextDocument, Emitting
    <3> QED BY <1>1, <3>1 DEF Peaceful, RerankAsked, LoadsAsked, PeacefulRequests
  <2>2. \A t \in Slots : ~disturbed'[t]
    <3>1. \A t \in Slots : t = s
      BY <2>1, SlotNumbers
    <3> QED BY <1>1, <1>7, <2>1, <3>1 DEF EmitScores, NextDocument, ClearMemory, PromptLoad
  <2>3. Undisturbed'
    <3>1. CASE EmitScores(s)
      <4> DEFINE r == [slot[s] EXCEPT !.state = "DONE"]
      <4>1. slot' = [slot EXCEPT ![s] = r] /\ file' = file
        BY <3>1 DEF EmitScores
      <4>2. Peaceful(r)
        BY <1>1 DEF SlotRecord, Peaceful
      <4> HIDE DEF r
      <4> QED BY <2>2, <4>1, <4>2, SameSlot DEF Undisturbed
    <3>2. CASE NextDocument(s)
      <4>1. PICK docs, past : slot' = [slot EXCEPT ![s] = Prompted(slot[s], docs, past)]
        BY <3>2 DEF NextDocument
      <4>2. file' = file
        BY <3>2 DEF NextDocument
      <4>3. Peaceful(Prompted(slot[s], docs, past))
        BY <1>1 DEF Prompted, SlotRecord, Peaceful
      <4> QED BY <2>2, <4>1, <4>2, <4>3, SameSlot DEF Undisturbed
    <3> QED BY <1>7, <3>1, <3>2
  <2> QED BY <2>3
<1> QED BY <1>3, <1>4, <1>5, <1>6, <1>7 DEF Emit

LEMMA UndisturbedStep ==
  ASSUME PeacefulRequests, Inv, PositionsFollow, Undisturbed, [Next]_vars
  PROVE  Undisturbed'
<1>1. \A s \in Slots : slot[s] \in SlotRecord /\ Peaceful(slot[s]) /\ ~disturbed[s]
  BY Facts DEF Undisturbed
<1>2. pc = "decode" => Accepted
  <2>1. ASSUME NEW s \in Slots, slot[s].load PROVE ~recurrent
    BY <1>1, <2>1 DEF Peaceful, LoadsAsked, PeacefulRequests, Inv, Types, TypeOK
  <2> QED BY <1>1, <2>1 DEF PositionsFollow, Accepted, Peaceful
<1>3. CASE \/ UNCHANGED vars \/ PendingDone \/ PromptDone \/ Decode
           \/ CheckpointDone \/ SampleDone \/ ReleaseDone
  <2>1. UNCHANGED <<slot, file, disturbed>>
    BY <1>3 DEF vars, PendingDone, PromptDone, Decode, CheckpointDone, SampleDone, ReleaseDone
  <2> QED BY <2>1 DEF Undisturbed, Peaceful, LoadsAsked, RerankAsked
<1>4. CASE DecodeFails
  BY <1>2, <1>4 DEF DecodeFails, PeacefulRequests
<1>5. CASE BuildGenerating
  <2>1. /\ UNCHANGED <<file, disturbed>>
        /\ \A s \in Slots : slot'[s] \in {slot[s], [slot[s] EXCEPT !.n_past = @ + 1, !.i_batch = 0]}
    BY <1>5 DEF BuildGenerating
  <2>2. ASSUME NEW s \in Slots PROVE Peaceful(slot'[s])
    <3>1. CASE slot'[s] = slot[s]
      BY <1>1, <3>1
    <3>2. CASE slot'[s] = [slot[s] EXCEPT !.n_past = @ + 1, !.i_batch = 0]
      BY <1>1, <3>2 DEF SlotRecord, Peaceful
    <3> QED BY <2>1, <3>1, <3>2
  <2> QED BY <1>1, <2>1, <2>2 DEF Undisturbed, Peaceful, LoadsAsked, RerankAsked
<1>6. ASSUME NEW s \in Slots, NEW r, slot' = [slot EXCEPT ![s] = r],
             r.media = FALSE, r.load = slot[s].load, r.task = slot[s].task,
             UNCHANGED disturbed, ~file'.tainted
      PROVE  Undisturbed'
  <2>1. Peaceful(r)
    BY <1>1, <1>6 DEF Peaceful
  <2> QED BY <1>1, <1>6, <2>1, SameSlot
<1>7. ASSUME NEW s \in Slots, Cancel(s) \/ Fill(s) \/ SaveCheckpoint(s) PROVE Undisturbed'
  <2>1. CASE PromptSlot(s)
    BY <2>1 DEF PromptSlot, Undisturbed, Peaceful, LoadsAsked, RerankAsked
  <2>2. CASE FillMedia(s) \/ FailMedia(s)
    BY <1>1, <2>2 DEF FillMedia, FailMedia, HasMedia, Peaceful
  <2>3. CASE Cancel(s)
    <3> DEFINE r == [slot[s] EXCEPT !.state = "DONE", !.is_interrupted = TRUE]
    <3>1. slot' = [slot EXCEPT ![s] = r] /\ UNCHANGED <<file, disturbed>>
      BY <2>3 DEF Cancel
    <3>2. r.media = FALSE /\ r.load = slot[s].load /\ r.task = slot[s].task
      BY <1>1 DEF SlotRecord, Peaceful
    <3> HIDE DEF r
    <3> QED BY <1>6, <3>1, <3>2 DEF Undisturbed
  <2>4. CASE FillText(s)
    <3>1. PICK end \in FillEnds(s) :
            slot' = [slot EXCEPT ![s].n_past = end,
                       ![s].i_batch = IF TextAt(s, slot[s].n_past, end) = {} THEN @ ELSE 0,
                       ![s].state = IF end >= Len(Prompt(s)) THEN "GENERATING" ELSE @]
      BY <2>4 DEF FillText
    <3> DEFINE b == IF TextAt(s, slot[s].n_past, end) = {} THEN slot[s].i_batch ELSE 0
               st == IF end >= Len(Prompt(s)) THEN "GENERATING" ELSE slot[s].state
               r == [slot[s] EXCEPT !.n_past = end, !.i_batch = b, !.state = st]
    <3>2. slot' = [slot EXCEPT ![s] = r]
      BY <1>1, <3>1, Facts DEF SlotRecord
    <3>3. UNCHANGED <<file, disturbed>>
      BY <2>4 DEF FillText
    <3> HIDE DEF b, st
    <3>4. r.media = FALSE /\ r.load = slot[s].load /\ r.task = slot[s].task
      BY <1>1 DEF SlotRecord, Peaceful
    <3> HIDE DEF r
    <3> QED BY <1>6, <3>2, <3>3, <3>4 DEF Undisturbed
  <2>5. CASE SaveCheckpoint(s)
    <3> DEFINE r == [slot[s] EXCEPT !.checkpoint = 0]
    <3>1. slot' = [slot EXCEPT ![s] = r] /\ UNCHANGED disturbed
      BY <2>5 DEF SaveCheckpoint
    <3>2. ~file'.tainted
      BY <1>1, <2>5 DEF SaveCheckpoint, Written, Undisturbed
    <3>3. r.media = FALSE /\ r.load = slot[s].load /\ r.task = slot[s].task
      BY <1>1 DEF SlotRecord, Peaceful
    <3> HIDE DEF r
    <3> QED BY <1>6, <3>1, <3>2, <3>3
  <2> QED BY <1>7, <2>1, <2>2, <2>3, <2>4, <2>5 DEF Fill
<1>8. ASSUME NEW s \in Slots, Release(s) PROVE Undisturbed'
  <2> DEFINE r == Fresh(slot[s].cache_tokens)
  <2>1. slot' = [slot EXCEPT ![s] = r] /\ UNCHANGED <<file, disturbed>>
    BY <1>8 DEF Release
  <2>2. Peaceful(r)
    BY DEF Fresh, Peaceful
  <2> HIDE DEF r
  <2> QED BY <1>1, <2>1, <2>2, SameSlot DEF Undisturbed
<1>9. ASSUME NEW s \in Slots, Assign(s) \/ Emit(s) PROVE Undisturbed'
  BY <1>9, UndisturbedAssign, UndisturbedEmit DEF Assign
<1> QED BY <1>3, <1>4, <1>5, <1>7, <1>8, <1>9 DEF Next

(* Where requests cannot harm each other nothing excepts a slot from the   *)
(* properties above: every token, embedding and score is computed from the *)
(* request's own tokens and from all of them, llama_decode accepts every   *)
(* batch, so that no request fails for another's sake, and the tokens a    *)
(* state file names are in its memory.                                     *)
THEOREM RequestsKeepApart ==
  ASSUME EndInText, ImagesMarked, PeacefulRequests
  PROVE  Spec => [](/\ \A s \in Slots : Sampling(s) =>
                         mem[s] = Placed(slot[s].cache_tokens, Len(slot[s].cache_tokens))
                    /\ pc = "decode" => Accepted
                    /\ SavedAfterDecode)
<1> DEFINE Apart ==
      /\ \A s \in Slots : Sampling(s) =>
           mem[s] = Placed(slot[s].cache_tokens, Len(slot[s].cache_tokens))
      /\ pc = "decode" => Accepted
      /\ SavedAfterDecode
<1>1. WholeStateForText
  BY DEF WholeStateForText, PeacefulRequests
<1>2. Init => Undisturbed
  BY DEF Init, Fresh, NoFile, Undisturbed, Peaceful
<1>3. Inv /\ PositionsFollow /\ Undisturbed /\ [Next]_vars => Undisturbed'
  BY UndisturbedStep
<1>4. Spec => []Inv /\ []PositionsFollow /\ []OwnMemory /\ []FileMatches
  BY <1>1, InvHolds, DecodedInOrder, SampledFromOwnPrompt, StateFilesMatch
<1>5. Inv /\ PositionsFollow /\ OwnMemory /\ FileMatches /\ Undisturbed => Apart
  <2> SUFFICES ASSUME Inv, PositionsFollow, OwnMemory, FileMatches, Undisturbed PROVE Apart
    OBVIOUS
  <2>1. pc = "decode" => Accepted
    <3>1. ASSUME NEW s \in Slots, slot[s].load PROVE ~recurrent
      BY <3>1 DEF Undisturbed, Peaceful, LoadsAsked, PeacefulRequests, Inv, Types, TypeOK
    <3> QED BY <3>1 DEF PositionsFollow, Accepted, Undisturbed, Peaceful
  <2>2. SavedAfterDecode
    BY DEF SavedAfterDecode, FileMatches, Undisturbed
  <2> QED BY <2>1, <2>2 DEF OwnMemory, Undisturbed
<1> HIDE DEF Apart
<1>6. Spec => []Apart
  BY <1>2, <1>3, <1>4, <1>5, PTL DEF Spec
<1> QED BY <1>6 DEF Apart
=============================================================================
