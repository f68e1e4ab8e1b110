---------------------------- MODULE StopStrings -----------------------------
(***************************************************************************)
(* The text of a completion: what doCompletion (rn-completion.cpp) and the *)
(* loop of the native bridges around it (jni.cpp doCompletion, repeated in *)
(* LlamaContext.mm completion) make of the tokens' texts.  Every piece of  *)
(* text that cannot become a stop word is shown to the application at      *)
(* once; a stop word ends the completion and is cut off.                   *)
(*                                                                         *)
(* Texts are sequences of bytes, positions count from 0.  An iteration of  *)
(* the loop is one action: only the test of the loop reads what another    *)
(* thread writes.  Completion has the tokens, the memory, the limit 0 and  *)
(* the width of n_remain.                                                  *)
(***************************************************************************)
EXTENDS Integers, Sequences, FiniteSets

CONSTANTS
  Width,      \* of a byte: 0 inside a character, else the size of the one it begins
  Pieces,     \* the texts of the tokens
  Stops,      \* the lists of stop words an application gives
  Predicts,   \* n_predict: -1 is no limit
  MaxTokens   \* bound: iterations of the loop

Bytes == DOMAIN Width
Texts == Seq(Bytes)

ASSUME StopStringsAssumption ==
  /\ Width \in [Bytes -> 0 .. 4]
  /\ Pieces \subseteq Texts
  /\ Stops \subseteq Seq(Texts \ {<<>>})
  /\ Predicts \subseteq {-1} \cup (Nat \ {0})
  /\ MaxTokens \in Nat

VARIABLES
  antiprompt, n_predict,    \* what the call asked for
  generated_text,
  incomplete,               \* the text ends inside a character
  has_next_token, n_remain,
  stopped_word, stopping_word,
  is_interrupted,
  sent_count,               \* how much of generated_text was shown
  shown,                    \* history: what the application was shown
  raw,                      \* history: the texts of all tokens
  unseen,                   \* history: a stop word ended in a token that was not looked at
  turns                     \* iterations so far

asked == <<antiprompt, n_predict>>
vars == <<asked, generated_text, incomplete, has_next_token, n_remain, stopped_word,
          stopping_word, is_interrupted, sent_count, shown, raw, unseen, turns>>

NPos == -1

Init ==
  /\ antiprompt \in Stops /\ n_predict \in Predicts
  /\ generated_text = <<>> /\ incomplete = FALSE
  /\ has_next_token = TRUE
  /\ n_remain = IF n_predict = -1 THEN 0 ELSE n_predict
  /\ stopped_word = FALSE /\ stopping_word = <<>>
  /\ is_interrupted = FALSE
  /\ sent_count = 0 /\ shown = <<>>
  /\ raw = <<>> /\ unseen = FALSE /\ turns = 0

-----------------------------------------------------------------------------
(* Looking for stop words.                                                 *)

Least(S) == CHOOSE n \in S : \A m \in S : n <= m

(* word is at position p of text.                                          *)
At(text, word, p) ==
  p + Len(word) <= Len(text) /\ SubSeq(text, p + 1, p + Len(word)) = word

(* Where a word may begin that ends in the last token.                     *)
From_LastWord(text, word, last) == IF Len(text) > Len(word) THEN Len(text) - Len(word) ELSE 0

From(text, word, last) ==
  IF Len(text) > Len(word) + last THEN Len(text) - Len(word) - last ELSE 0

(* findStoppingStrings(STOP_FULL): where each stop word is first found.    *)
Found(text, last) ==
  {f \in (0 .. Len(text)) \X DOMAIN antiprompt :
     f[1] >= From(text, antiprompt[f[2]], last) /\ At(text, antiprompt[f[2]], f[1])}

FullStop(text, last) ==
  LET found == Found(text, last)
  IN IF found = {} THEN NPos ELSE Least({f[1] : f \in found})

(* Of the words at the place the first of the list is reported.            *)
WordAt(text, last, p) ==
  antiprompt[Least({i \in DOMAIN antiprompt : <<p, i>> \in Found(text, last)})]

(* find_partial_stop_string: text ends with the first n bytes of word.     *)
EndsWith(text, word, n) ==
  n <= Len(text) /\ SubSeq(text, Len(text) - n + 1, Len(text)) = SubSeq(word, 1, n)

(* findStoppingStrings(STOP_PARTIAL): the longest match of a word is the   *)
(* one that begins first, and so it is over the words.                     *)
PartialStop(text) ==
  LET begun == {n \in 1 .. Len(text) : \E i \in DOMAIN antiprompt :
                  n <= Len(antiprompt[i]) /\ EndsWith(text, antiprompt[i], n)}
  IN IF begun = {} THEN NPos ELSE Least({Len(text) - n : n \in begun})

-----------------------------------------------------------------------------
(* doCompletion                                                            *)

(* The last byte that is not inside a character, among the last four.      *)
LastStart(text) == {i \in 1 .. 4 : /\ i <= Len(text)
                                   /\ Width[text[Len(text) - i + 1]] # 0
                                   /\ \A j \in 1 .. i - 1 : Width[text[Len(text) - j + 1]] = 0}

(* The scan for an incomplete character; a one-byte character at the end   *)
(* leaves the flag as it was.                                              *)
Scanned(text) ==
  IF \E i \in LastStart(text) : Width[text[Len(text) - i + 1]] > 1
  THEN \E i \in LastStart(text) : i < Width[text[Len(text) - i + 1]]
  ELSE incomplete

(* n_remain and has_next_token when the text ends inside a character.      *)
Extended_NotCounted(remain, next, part) ==
  /\ n_remain' = remain
  /\ has_next_token' = (next \/ part)

Extended(remain, next, part) ==
  /\ n_remain' = IF part /\ ~next THEN remain + 1 ELSE remain
  /\ has_next_token' = (next \/ part)

Running == has_next_token /\ ~is_interrupted /\ turns < MaxTokens

(* doCompletion gives no token: the end of generation was sampled, the     *)
(* decode failed, or it was interrupted.  Inside a character has_next_token*)
(* is set again.  The loop goes on without looking at the text.            *)
NoToken ==
  /\ Running
  /\ incomplete' = Scanned(generated_text)
  /\ Extended(n_remain, FALSE, incomplete')
  /\ turns' = turns + 1
  /\ UNCHANGED <<asked, generated_text, stopped_word, stopping_word, is_interrupted,
                 sent_count, shown, raw, unseen>>

Remaining == IF n_predict = -1 THEN n_remain ELSE n_remain - 1
MayGoOn == n_predict = -1 \/ Remaining # 0

(* Any occurrence of a stop word.                                          *)
Places(text) == {p \in 0 .. Len(text) : \E i \in DOMAIN antiprompt : At(text, antiprompt[i], p)}

(* A token with the text t comes.                                          *)
Comes(t) ==
  /\ Running
  /\ raw' = raw \o t
  /\ turns' = turns + 1
  /\ incomplete' = Scanned(generated_text \o t)
  /\ UNCHANGED <<asked, is_interrupted>>

-----------------------------------------------------------------------------
(* The loop of the bridge, with the text that doCompletion left.           *)

(* Inside a character it does not look at the text.                        *)
Skip(t) ==
  /\ Comes(t) /\ incomplete'
  /\ generated_text' = generated_text \o t
  /\ Extended(Remaining, MayGoOn, TRUE)
  /\ unseen' = (unseen \/ Places(generated_text \o t) # {})
  /\ UNCHANGED <<stopped_word, stopping_word, sent_count, shown>>

Pos(text) == IF sent_count < Len(text) THEN sent_count ELSE Len(text)
Unsent(text) == SubSeq(text, Pos(text) + 1, Len(text))

(* The text without the stop word at p of what was not sent.               *)
Erased_FromStart(text, p) == SubSeq(text, 1, p)

Erased(text, p) == SubSeq(text, 1, Pos(text) + p)

(* A stop word ends the completion; what is before it is not sent.         *)
CutOff(t) ==
  LET text == generated_text \o t
      p == FullStop(Unsent(text), Len(t))
  IN /\ Comes(t) /\ ~incomplete' /\ p # NPos
     /\ generated_text' = Erased(text, p)
     /\ stopped_word' = TRUE /\ stopping_word' = WordAt(Unsent(text), Len(t), p)
     /\ has_next_token' = FALSE /\ n_remain' = Remaining
     /\ UNCHANGED <<sent_count, shown, unseen>>

NotCut(t) ==
  /\ Comes(t) /\ ~incomplete' /\ FullStop(Unsent(generated_text \o t), Len(t)) = NPos
  /\ generated_text' = generated_text \o t
  /\ Extended(Remaining, MayGoOn, FALSE)
  /\ UNCHANGED <<stopped_word, stopping_word, unseen>>

Show(t) ==
  LET text == generated_text \o t
      p == PartialStop(Unsent(text))
  IN /\ NotCut(t)
     /\ p = NPos \/ (~has_next_token' /\ p > 0)
     /\ sent_count' = sent_count + Len(Unsent(text))
     /\ shown' = shown \o Unsent(text)

(* The end of the text may be the beginning of a stop word.                *)
Hold(t) ==
  LET p == PartialStop(Unsent(generated_text \o t))
  IN /\ NotCut(t)
     /\ p # NPos /\ (has_next_token' \/ p = 0)
     /\ UNCHANGED <<sent_count, shown>>

(* stopCompletion, from another thread.                                    *)
Interrupt ==
  /\ ~is_interrupted
  /\ is_interrupted' = TRUE
  /\ UNCHANGED <<asked, generated_text, incomplete, has_next_token, n_remain, stopped_word,
                 stopping_word, sent_count, shown, raw, unseen, turns>>

Token(t) == Skip(t) \/ CutOff(t) \/ Show(t) \/ Hold(t)

Next == NoToken \/ Interrupt \/ \E t \in Pieces : Token(t)

Spec == Init /\ [][Next]_vars
-----------------------------------------------------------------------------
(* Properties.                                                             *)

TypeOK ==
  /\ antiprompt \in Stops /\ n_predict \in Predicts
  /\ generated_text \in Texts /\ raw \in Texts /\ shown \in Texts
  /\ stopping_word \in Texts
  /\ sent_count \in Nat /\ n_remain \in Nat /\ turns \in Nat
  /\ has_next_token \in BOOLEAN /\ incomplete \in BOOLEAN /\ is_interrupted \in BOOLEAN
  /\ stopped_word \in BOOLEAN /\ unseen \in BOOLEAN

(* What the application was shown stays in the text it is given at the     *)
(* end: no stop word that is found later takes shown text back.            *)
ShownIsKept ==
  /\ sent_count = Len(shown) /\ sent_count <= Len(generated_text)
  /\ shown = SubSeq(generated_text, 1, sent_count)

(* However the stop words are spread over the tokens, the text is that of  *)
(* all tokens up to the first stop word, and it is a stop word that is     *)
(* reported - unless one ended in a token the loop did not look at.        *)
CutAtFirstStop ==
  ~unseen =>
    /\ stopped_word <=> Places(raw) # {}
    /\ generated_text = IF stopped_word THEN SubSeq(raw, 1, Least(Places(raw))) ELSE raw
    /\ stopped_word => At(raw, stopping_word, Len(generated_text))

(* Text is held back only as long as it may become a stop word or ends     *)
(* inside a character.                                                     *)
HeldForAReason ==
  has_next_token /\ ~incomplete /\ sent_count < Len(generated_text) =>
    \E i \in DOMAIN antiprompt : \E n \in 1 .. Len(antiprompt[i]) :
      EndsWith(generated_text, antiprompt[i], n)

(* "Send rest of the text if we are at the end of the generation" (jni.cpp *)
(* doCompletion): a completion that was not stopped has shown its text.    *)
RestIsShown ==
  ~has_next_token /\ ~is_interrupted => shown = generated_text

(* A text without stop words never holds one.                              *)
NoStopWordShown ==
  \A p \in 0 .. Len(shown) : \A i \in DOMAIN antiprompt : ~At(shown, antiprompt[i], p)
=============================================================================
