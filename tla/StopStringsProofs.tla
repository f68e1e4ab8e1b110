------------------------- MODULE StopStringsProofs --------------------------
(***************************************************************************)
(* Proofs about StopStrings, for every alphabet of bytes, all texts of the *)
(* tokens, all lists of stop words and every limit.                        *)
(***************************************************************************)
EXTENDS StopStrings, FiniteSetTheorems, SequenceTheorems, TLAPS

-----------------------------------------------------------------------------
(* Texts                                                                   *)

LEMMA Joined ==
  ASSUME NEW a \in Texts, NEW b \in Texts
  PROVE  /\ a \o b \in Texts /\ Len(a \o b) = Len(a) + Len(b)
         /\ \A k \in 1 .. Len(a) : (a \o b)[k] = a[k]
<1>1. Len(a) \in Nat /\ Len(b) \in Nat
  BY LenProperties DEF Texts
<1>2. \A k \in 1 .. Len(a) + Len(b) :
        (a \o b)[k] = IF k <= Len(a) THEN a[k] ELSE b[k - Len(a)]
  BY ConcatProperties DEF Texts
<1>3. a \o b \in Texts /\ Len(a \o b) = Len(a) + Len(b)
  BY ConcatProperties DEF Texts
<1> QED BY <1>1, <1>2, <1>3

LEMMA Cut ==
  ASSUME NEW a \in Texts, NEW m \in 1 .. Len(a) + 1, NEW n \in 0 .. Len(a), m <= n + 1
  PROVE  /\ SubSeq(a, m, n) \in Texts /\ Len(SubSeq(a, m, n)) = n - m + 1
         /\ \A k \in 1 .. n - m + 1 : SubSeq(a, m, n)[k] = a[m + k - 1]
<1>1. Len(a) \in Nat
  BY LenProperties DEF Texts
<1>2. m \in Int /\ n \in Int
  BY <1>1
<1>3. \A k \in m .. n : a[k] \in Bytes
  BY <1>1, ElementOfSeq DEF Texts
<1>4. /\ SubSeq(a, m, n) \in Seq(Bytes)
      /\ Len(SubSeq(a, m, n)) = IF m <= n THEN n - m + 1 ELSE 0
      /\ \A k \in 1 .. n - m + 1 : SubSeq(a, m, n)[k] = a[m + k - 1]
  BY <1>2, <1>3, SubSeqProperties
<1> QED BY <1>2, <1>4 DEF Texts

(* Two texts are the same when their bytes are.                            *)
LEMMA SameText ==
  ASSUME NEW a \in Texts, NEW b \in Texts, Len(a) = Len(b), \A k \in 1 .. Len(a) : a[k] = b[k]
  PROVE  a = b
BY SeqEqual DEF Texts

(* A word is at a place when its bytes are.                                *)
LEMMA AtBytes ==
  ASSUME NEW text \in Texts, NEW word \in Texts, NEW p \in Nat
  PROVE  At(text, word, p) <=> (/\ p + Len(word) <= Len(text)
                                /\ \A k \in 1 .. Len(word) : text[p + k] = word[k])
<1>1. Len(text) \in Nat /\ Len(word) \in Nat
  BY LenProperties DEF Texts
<1>2. SUFFICES ASSUME p + Len(word) <= Len(text)
               PROVE  (SubSeq(text, p + 1, p + Len(word)) = word)
                        <=> (\A k \in 1 .. Len(word) : text[p + k] = word[k])
  BY <1>1 DEF At
<1> DEFINE part == SubSeq(text, p + 1, p + Len(word))
<1>3. /\ part \in Texts /\ Len(part) = Len(word)
      /\ \A k \in 1 .. Len(word) : part[k] = text[p + k]
  <2>1. p + 1 \in 1 .. Len(text) + 1 /\ p + Len(word) \in 0 .. Len(text)
        /\ p + 1 <= p + Len(word) + 1 /\ p + Len(word) - (p + 1) + 1 = Len(word)
        /\ \A k \in 1 .. Len(word) : p + 1 + k - 1 = p + k
    BY <1>1, <1>2
  <2>2. \A m \in 1 .. Len(text) + 1, n \in 0 .. Len(text) : m <= n + 1 =>
          /\ SubSeq(text, m, n) \in Texts /\ Len(SubSeq(text, m, n)) = n - m + 1
          /\ \A k \in 1 .. n - m + 1 : SubSeq(text, m, n)[k] = text[m + k - 1]
    BY Cut
  <2>3. /\ part \in Texts /\ Len(part) = p + Len(word) - (p + 1) + 1
        /\ \A k \in 1 .. p + Len(word) - (p + 1) + 1 : part[k] = text[p + 1 + k - 1]
    BY <2>1, <2>2
  <2> HIDE DEF part
  <2> QED BY <2>1, <2>3
<1> HIDE DEF part
<1>4. (part = word) <=> (\A k \in 1 .. Len(word) : text[p + k] = word[k])
  BY <1>3, SameText
<1> QED BY <1>4 DEF part

(* The same of the beginning of a word at the end of a text.               *)
LEMMA EndsWithBytes ==
  ASSUME NEW text \in Texts, NEW word \in Texts, NEW n \in 1 .. Len(word)
  PROVE  EndsWith(text, word, n) <=> (/\ n <= Len(text)
                                      /\ \A k \in 1 .. n : text[Len(text) - n + k] = word[k])
<1>1. Len(text) \in Nat /\ Len(word) \in Nat /\ n \in Nat
  BY LenProperties DEF Texts
<1>2. SUFFICES ASSUME n <= Len(text)
               PROVE  (SubSeq(text, Len(text) - n + 1, Len(text)) = SubSeq(word, 1, n))
                        <=> (\A k \in 1 .. n : text[Len(text) - n + k] = word[k])
  BY <1>1 DEF EndsWith
<1> DEFINE part == SubSeq(text, Len(text) - n + 1, Len(text))
           start == SubSeq(word, 1, n)
<1>3. /\ part \in Texts /\ Len(part) = n
      /\ \A k \in 1 .. n : part[k] = text[Len(text) - n + k]
  <2>1. Len(text) - n + 1 \in 1 .. Len(text) + 1 /\ Len(text) \in 0 .. Len(text)
        /\ Len(text) - n + 1 <= Len(text) + 1 /\ Len(text) - (Len(text) - n + 1) + 1 = n
        /\ \A k \in 1 .. n : Len(text) - n + 1 + k - 1 = Len(text) - n + k
    BY <1>1, <1>2
  <2>2. /\ part \in Texts /\ Len(part) = Len(text) - (Len(text) - n + 1) + 1
        /\ \A k \in 1 .. Len(text) - (Len(text) - n + 1) + 1 :
             part[k] = text[Len(text) - n + 1 + k - 1]
    BY <2>1, Cut
  <2> HIDE DEF part
  <2> QED BY <2>1, <2>2
<1>4. start \in Texts /\ Len(start) = n /\ \A k \in 1 .. n : start[k] = word[k]
  <2>1. 1 \in 1 .. Len(word) + 1 /\ n \in 0 .. Len(word) /\ 1 <= n + 1 /\ n - 1 + 1 = n
        /\ \A k \in 1 .. n : 1 + k - 1 = k
    BY <1>1
  <2>2. /\ start \in Texts /\ Len(start) = n - 1 + 1
        /\ \A k \in 1 .. n - 1 + 1 : start[k] = word[1 + k - 1]
    BY <2>1, Cut
  <2> HIDE DEF start
  <2> QED BY <2>1, <2>2
<1> HIDE DEF part, start
<1>5. (part = start) <=> (\A k \in 1 .. n : text[Len(text) - n + k] = word[k])
  BY <1>3, <1>4, SameText
<1> QED BY <1>5 DEF part, start

-----------------------------------------------------------------------------
(* The least of a set of numbers                                           *)

LEMMA LeastExists ==
  ASSUME NEW n \in Nat, NEW S, S \subseteq 0 .. n, S # {}
  PROVE  \E x \in S : \A y \in S : x <= y
<1> DEFINE Upto(x) == {y \in S : y <= x}
           T == {Upto(x) : x \in S}
           I == 0 .. n
           R == StrictSubsetOrdering(I)
<1>0. IsFiniteSet(I)
  BY FS_Interval
<1>1. IsWellFoundedOn(R, SUBSET I)
  BY <1>0, FS_StrictSubsetOrderingWellFounded, FS_FiniteSubsetsOfFinite
<1>2. T # {} /\ T \subseteq SUBSET I
  <2>1. PICK x \in S : TRUE
    OBVIOUS
  <2>2. Upto(x) \in T /\ \A y \in S : Upto(y) \subseteq I
    OBVIOUS
  <2> HIDE DEF Upto, I
  <2> QED BY <2>2
<1> HIDE DEF T, R
<1>3. PICK t \in T : \A u \in T : <<u, t>> \notin R
  BY <1>1, <1>2, WFMin
<1>4. PICK x \in S : t = Upto(x)
  BY <1>3 DEF T
<1>5. ASSUME NEW y \in S, y < x PROVE FALSE
  <2>1. x \in Int /\ y \in Int /\ S \subseteq Int
    OBVIOUS
  <2>2. Upto(y) \subseteq Upto(x) /\ x \in Upto(x) /\ x \notin Upto(y)
    <3>1. \A z \in Upto(y) : z \in Upto(x)
      BY <1>5, <2>1
    <3>2. x \in Upto(x) /\ x \notin Upto(y)
      BY <1>5, <2>1
    <3> HIDE DEF Upto
    <3> QED BY <3>1, <3>2
  <2>3. Upto(y) \in SUBSET I /\ Upto(x) \in SUBSET I /\ Upto(y) \in T
    BY DEF T
  <2> HIDE DEF Upto, I
  <2>4. <<Upto(y), Upto(x)>> \in R
    BY <2>2, <2>3 DEF R, StrictSubsetOrdering
  <2> QED BY <2>3, <2>4, <1>3, <1>4
<1> QED BY <1>5

LEMMA LeastIs ==
  ASSUME NEW n \in Nat, NEW S, S \subseteq 0 .. n, S # {}
  PROVE  Least(S) \in S /\ \A y \in S : Least(S) <= y
BY LeastExists DEF Least

LEMMA LeastIsThis ==
  ASSUME NEW n \in Nat, NEW S, S \subseteq 0 .. n, NEW x \in S, \A y \in S : x <= y
  PROVE  Least(S) = x
<1>1. Least(S) \in S /\ \A y \in S : Least(S) <= y
  BY LeastIs
<1>2. x <= Least(S) /\ Least(S) <= x
  BY <1>1
<1>3. x \in 0 .. n /\ Least(S) \in 0 .. n
  BY <1>1
<1> QED BY <1>2, <1>3

-----------------------------------------------------------------------------
(* What the search for stop words returns                                  *)

Words == Seq(Texts \ {<<>>})

LEMMA WordIs ==
  ASSUME antiprompt \in Words, NEW i \in DOMAIN antiprompt
  PROVE  antiprompt[i] \in Texts /\ Len(antiprompt[i]) \in Nat \ {0}
<1>1. antiprompt[i] \in Texts \ {<<>>}
  BY ElementOfSeq, LenProperties DEF Words
<1> QED BY <1>1, EmptySeq DEF Texts

LEMMA FullStopIs ==
  ASSUME antiprompt \in Words, NEW text \in Texts, NEW last \in Nat
  PROVE  IF Found(text, last) = {} THEN FullStop(text, last) = NPos
         ELSE /\ FullStop(text, last) \in 0 .. Len(text)
              /\ \A f \in Found(text, last) : FullStop(text, last) <= f[1]
              /\ \E i \in DOMAIN antiprompt :
                   /\ <<FullStop(text, last), i>> \in Found(text, last)
                   /\ WordAt(text, last, FullStop(text, last)) = antiprompt[i]
<1> DEFINE found == Found(text, last)
           firsts == {f[1] : f \in found}
           p == FullStop(text, last)
           first == {i \in DOMAIN antiprompt : <<p, i>> \in found}
<1>1. Len(text) \in Nat /\ DOMAIN antiprompt = 1 .. Len(antiprompt) /\ Len(antiprompt) \in Nat
  BY LenProperties DEF Texts, Words
<1>2. found \subseteq (0 .. Len(text)) \X DOMAIN antiprompt
  BY DEF Found
<1>3. found = {} => p = NPos
  BY DEF FullStop
<1>4. ASSUME found # {}
      PROVE  /\ p \in 0 .. Len(text) /\ \A f \in found : p <= f[1]
             /\ \E i \in DOMAIN antiprompt : <<p, i>> \in found
  <2>1. firsts # {} /\ firsts \subseteq 0 .. Len(text)
    BY <1>2, <1>4
  <2>2. p = Least(firsts)
    BY <1>4 DEF FullStop
  <2> HIDE DEF p
  <2>3. p \in firsts /\ \A y \in firsts : p <= y
    <3> HIDE DEF firsts
    <3> QED BY <2>1, <2>2, <1>1, LeastIs
  <2>4. PICK f \in found : p = f[1]
    BY <2>3
  <2>5. f = <<f[1], f[2]>> /\ f[2] \in DOMAIN antiprompt
    BY <1>2
  <2>6. \A g \in found : p <= g[1]
    BY <2>3
  <2> HIDE DEF found, firsts
  <2> QED BY <2>1, <2>3, <2>4, <2>5, <2>6
<1>5. ASSUME found # {} PROVE \E i \in DOMAIN antiprompt :
        <<p, i>> \in found /\ WordAt(text, last, p) = antiprompt[i]
  <2> HIDE DEF p
  <2>1. first # {} /\ first \subseteq 0 .. Len(antiprompt)
    <3>1. PICK i \in DOMAIN antiprompt : <<p, i>> \in found
      BY <1>4, <1>5
    <3>2. i \in first
      BY <3>1
    <3>3. first \subseteq DOMAIN antiprompt
      OBVIOUS
    <3> HIDE DEF first
    <3> QED BY <1>1, <3>2, <3>3
  <2>2. WordAt(text, last, p) = antiprompt[Least(first)]
    BY DEF WordAt
  <2>3. Least(first) \in first
    <3> HIDE DEF first
    <3> QED BY <2>1, <1>1, LeastIs
  <2> QED BY <2>2, <2>3
<1> HIDE DEF found, p
<1>6. found = {} \/ found # {}
  OBVIOUS
<1>7. IF found = {} THEN p = NPos
      ELSE /\ p \in 0 .. Len(text) /\ \A f \in found : p <= f[1]
           /\ \E i \in DOMAIN antiprompt : <<p, i>> \in found /\ WordAt(text, last, p) = antiprompt[i]
  BY <1>3, <1>4, <1>5
<1> QED BY <1>7 DEF found, p

LEMMA PartialStopIs ==
  ASSUME antiprompt \in Words, NEW text \in Texts
  PROVE  /\ PartialStop(text) = NPos =>
              \A i \in DOMAIN antiprompt : \A n \in 1 .. Len(antiprompt[i]) :
                ~EndsWith(text, antiprompt[i], n)
         /\ PartialStop(text) # NPos =>
              \E i \in DOMAIN antiprompt : \E n \in 1 .. Len(antiprompt[i]) :
                EndsWith(text, antiprompt[i], n)
<1> DEFINE begun == {n \in 1 .. Len(text) : \E i \in DOMAIN antiprompt :
                       n <= Len(antiprompt[i]) /\ EndsWith(text, antiprompt[i], n)}
           places == {Len(text) - n : n \in begun}
<1>1. Len(text) \in Nat
  BY LenProperties DEF Texts
<1>2. PartialStop(text) = IF begun = {} THEN NPos ELSE Least(places)
  BY DEF PartialStop
<1>3. begun # {} => Least(places) # NPos
  <2>1. SUFFICES ASSUME begun # {} PROVE Least(places) # NPos
    OBVIOUS
  <2>2. places # {} /\ places \subseteq 0 .. Len(text)
    <3>1. begun \subseteq 1 .. Len(text)
      OBVIOUS
    <3>2. \A n \in 1 .. Len(text) : Len(text) - n \in 0 .. Len(text)
      BY <1>1
    <3> HIDE DEF begun
    <3>3. PICK n \in begun : TRUE
      BY <2>1
    <3>4. Len(text) - n \in places
      BY <3>3
    <3>5. \A x \in places : x \in 0 .. Len(text)
      BY <3>1, <3>2
    <3> QED BY <3>4, <3>5
  <2>3. Least(places) \in places
    <3> HIDE DEF places
    <3> QED BY <1>1, <2>2, LeastIs
  <2> HIDE DEF places
  <2> QED BY <2>2, <2>3 DEF NPos
<1>4. begun = {} => \A i \in DOMAIN antiprompt : \A n \in 1 .. Len(antiprompt[i]) :
                      ~EndsWith(text, antiprompt[i], n)
  <2>1. SUFFICES ASSUME begun = {}, NEW i \in DOMAIN antiprompt, NEW n \in 1 .. Len(antiprompt[i]),
                        EndsWith(text, antiprompt[i], n)
                 PROVE  FALSE
    OBVIOUS
  <2>2. n \in Nat \ {0} /\ n <= Len(antiprompt[i])
    BY WordIs
  <2>3. n <= Len(text)
    BY <2>1 DEF EndsWith
  <2>4. n \in begun
    BY <1>1, <2>1, <2>2, <2>3
  <2> QED BY <2>1, <2>4
<1>5. begun # {} => \E i \in DOMAIN antiprompt : \E n \in 1 .. Len(antiprompt[i]) :
                      EndsWith(text, antiprompt[i], n)
  <2>1. SUFFICES ASSUME NEW n \in begun
                 PROVE  \E i \in DOMAIN antiprompt : \E m \in 1 .. Len(antiprompt[i]) :
                          EndsWith(text, antiprompt[i], m)
    OBVIOUS
  <2>2. PICK i \in DOMAIN antiprompt : n <= Len(antiprompt[i]) /\ EndsWith(text, antiprompt[i], n)
    OBVIOUS
  <2>3. n \in 1 .. Len(antiprompt[i])
    BY <1>1, <2>2, WordIs
  <2> QED BY <2>2, <2>3
<1> QED BY <1>2, <1>3, <1>4, <1>5

-----------------------------------------------------------------------------
(* Types.  n_remain does not go below zero: a completion that goes on has  *)
(* some of its limit left, also when an unfinished character prolongs it.  *)

BudgetLeft == has_next_token /\ n_predict # -1 => n_remain > 0

TypeInv == TypeOK /\ BudgetLeft

LEMMA Given ==
  ASSUME TypeOK
  PROVE  /\ antiprompt \in Words /\ n_predict \in {-1} \cup (Nat \ {0})
         /\ Len(generated_text) \in Nat /\ Len(shown) \in Nat
BY StopStringsAssumption, LenProperties DEF StopStringsAssumption, TypeOK, Words, Texts

LEMMA Counted ==
  ASSUME TypeInv, has_next_token
  PROVE  Remaining \in Nat /\ (MayGoOn /\ n_predict # -1 => Remaining > 0)
<1>1. n_remain \in Nat
  BY DEF TypeInv, TypeOK
<1>2. CASE n_predict = -1
  BY <1>1, <1>2 DEF Remaining
<1>3. CASE n_predict # -1
  <2>1. n_remain > 0
    BY <1>3 DEF TypeInv, BudgetLeft
  <2> QED BY <1>1, <1>3, <2>1 DEF Remaining, MayGoOn
<1> QED BY <1>2, <1>3

LEMMA ExtendedType ==
  ASSUME NEW remain \in Nat, NEW next \in BOOLEAN, NEW part \in BOOLEAN,
         next /\ n_predict # -1 => remain > 0, n_predict' = n_predict,
         Extended(remain, next, part)
  PROVE  n_remain' \in Nat /\ has_next_token' \in BOOLEAN /\ BudgetLeft'
<1>1. has_next_token' = (next \/ part)
  BY DEF Extended
<1>2. n_remain' = IF part /\ ~next THEN remain + 1 ELSE remain
  BY DEF Extended
<1>3. CASE next
  BY <1>1, <1>2, <1>3 DEF BudgetLeft
<1>4. CASE ~next /\ part
  BY <1>1, <1>2, <1>4 DEF BudgetLeft
<1>5. CASE ~next /\ ~part
  BY <1>1, <1>2, <1>5 DEF BudgetLeft
<1> QED BY <1>3, <1>4, <1>5

LEMMA ScannedType == ASSUME TypeOK, NEW text PROVE Scanned(text) \in BOOLEAN
<1> DEFINE found == \E i \in LastStart(text) : Width[text[Len(text) - i + 1]] > 1
           part == \E i \in LastStart(text) : i < Width[text[Len(text) - i + 1]]
<1>1. Scanned(text) = IF found THEN part ELSE incomplete
  BY DEF Scanned
<1>2. found \in BOOLEAN /\ part \in BOOLEAN /\ incomplete \in BOOLEAN
  BY DEF TypeOK
<1> HIDE DEF found, part
<1> QED BY <1>1, <1>2

(* What a token is, and what every iteration with one does.                *)
LEMMA ComesType ==
  ASSUME TypeInv, NEW t \in Pieces, Comes(t)
  PROVE  /\ t \in Texts /\ generated_text \o t \in Texts
         /\ Len(generated_text \o t) = Len(generated_text) + Len(t) /\ Len(t) \in Nat
         /\ raw' \in Texts /\ turns' \in Nat /\ incomplete' \in BOOLEAN
         /\ antiprompt' = antiprompt /\ n_predict' = n_predict
         /\ is_interrupted' = is_interrupted /\ has_next_token
<1>1. t \in Texts /\ raw \in Texts /\ generated_text \in Texts /\ turns \in Nat
  BY StopStringsAssumption DEF StopStringsAssumption, TypeInv, TypeOK
<1>2. generated_text \o t \in Texts /\ raw \o t \in Texts
      /\ Len(generated_text \o t) = Len(generated_text) + Len(t)
  BY <1>1, Joined
<1>3. Len(t) \in Nat
  BY <1>1, LenProperties DEF Texts
<1>4. incomplete' \in BOOLEAN
  BY ScannedType DEF Comes, TypeInv
<1>5. turns' = turns + 1
  BY DEF Comes
<1> QED BY <1>1, <1>2, <1>3, <1>4, <1>5 DEF Comes, asked, Running

(* Of a text that begins with what was shown, the rest was not sent.       *)
LEMMA UnsentIs ==
  ASSUME NEW text \in Texts, sent_count \in 0 .. Len(text)
  PROVE  /\ Pos(text) = sent_count
         /\ Unsent(text) \in Texts /\ Len(Unsent(text)) = Len(text) - sent_count
         /\ \A k \in 1 .. Len(text) - sent_count : Unsent(text)[k] = text[sent_count + k]
<1>1. Len(text) \in Nat
  BY LenProperties DEF Texts
<1>2. Pos(text) = sent_count
  BY <1>1 DEF Pos
<1>3. /\ SubSeq(text, sent_count + 1, Len(text)) \in Texts
      /\ Len(SubSeq(text, sent_count + 1, Len(text))) = Len(text) - sent_count
      /\ \A k \in 1 .. Len(text) - sent_count :
           SubSeq(text, sent_count + 1, Len(text))[k] = text[sent_count + k]
  <2>1. sent_count + 1 \in 1 .. Len(text) + 1 /\ Len(text) \in 0 .. Len(text)
        /\ sent_count + 1 <= Len(text) + 1
        /\ Len(text) - (sent_count + 1) + 1 = Len(text) - sent_count
        /\ \A k \in 1 .. Len(text) - sent_count : sent_count + 1 + k - 1 = sent_count + k
    BY <1>1
  <2>2. \A m \in 1 .. Len(text) + 1, n \in 0 .. Len(text) : m <= n + 1 =>
          /\ SubSeq(text, m, n) \in Texts /\ Len(SubSeq(text, m, n)) = n - m + 1
          /\ \A k \in 1 .. n - m + 1 : SubSeq(text, m, n)[k] = text[m + k - 1]
    BY Cut
  <2>3. LET part == SubSeq(text, sent_count + 1, Len(text))
            n == Len(text) - (sent_count + 1) + 1
        IN  /\ part \in Texts /\ Len(part) = n
            /\ \A k \in 1 .. n : part[k] = text[sent_count + 1 + k - 1]
    BY <2>1, <2>2
  <2> QED BY <2>1, <2>3
<1> QED BY <1>2, <1>3, SMTT(30) DEF Unsent

-----------------------------------------------------------------------------
(* What was shown is kept.                                                 *)

SentInv == TypeInv /\ ShownIsKept

LEMMA SentIs ==
  ASSUME SentInv, NEW t \in Pieces, Comes(t)
  PROVE  LET text == generated_text \o t
         IN  /\ sent_count \in 0 .. Len(generated_text)
             /\ sent_count \in 0 .. Len(text) /\ Len(text) \in Nat
             /\ shown = SubSeq(text, 1, sent_count)
<1> DEFINE text == generated_text \o t
<1>1. /\ generated_text \in Texts /\ t \in Texts /\ text \in Texts /\ shown \in Texts
      /\ Len(text) = Len(generated_text) + Len(t) /\ Len(t) \in Nat
      /\ Len(generated_text) \in Nat /\ Len(text) \in Nat
  BY ComesType, Given, LenProperties DEF SentInv, TypeInv, TypeOK
<1>2. \A k \in 1 .. Len(generated_text) : text[k] = generated_text[k]
  BY <1>1, Joined
<1> HIDE DEF text
<1>3. sent_count \in 0 .. Len(generated_text) /\ sent_count \in 0 .. Len(text)
  BY <1>1 DEF SentInv, ShownIsKept, TypeInv, TypeOK
<1>4. /\ Len(SubSeq(generated_text, 1, sent_count)) = sent_count
      /\ \A k \in 1 .. sent_count : SubSeq(generated_text, 1, sent_count)[k] = generated_text[k]
  BY <1>1, <1>3, Cut
<1>5. /\ SubSeq(text, 1, sent_count) \in Texts /\ Len(SubSeq(text, 1, sent_count)) = sent_count
      /\ \A k \in 1 .. sent_count : SubSeq(text, 1, sent_count)[k] = text[k]
  BY <1>1, <1>3, Cut
<1>6. shown = SubSeq(generated_text, 1, sent_count) /\ Len(shown) = sent_count
  BY DEF SentInv, ShownIsKept
<1>7. \A k \in 1 .. sent_count : shown[k] = SubSeq(text, 1, sent_count)[k]
  BY <1>1, <1>2, <1>3, <1>4, <1>5, <1>6
<1>8. shown = SubSeq(text, 1, sent_count)
  BY <1>1, <1>5, <1>6, <1>7, SameText
<1> QED BY <1>1, <1>3, <1>8 DEF text

(* A stop word that is cut off began after what was shown.                 *)
LEMMA CutIs ==
  ASSUME SentInv, NEW t \in Pieces, CutOff(t)
  PROVE  LET text == generated_text \o t
             p == FullStop(Unsent(text), Len(t))
         IN  /\ p \in 0 .. Len(text) - sent_count
             /\ sent_count + p \in 0 .. Len(text)
             /\ generated_text' = SubSeq(text, 1, sent_count + p)
             /\ generated_text' \in Texts /\ Len(generated_text') = sent_count + p
             /\ stopping_word' \in Texts
             /\ \E i \in DOMAIN antiprompt :
                  <<p, i>> \in Found(Unsent(text), Len(t)) /\ stopping_word' = antiprompt[i]
             /\ \A f \in Found(Unsent(text), Len(t)) : p <= f[1]
<1> DEFINE text == generated_text \o t
           p == FullStop(Unsent(text), Len(t))
<1>1. /\ Comes(t) /\ p # NPos /\ generated_text' = Erased(text, p)
      /\ stopping_word' = WordAt(Unsent(text), Len(t), p)
  BY DEF CutOff
<1>2. /\ text \in Texts /\ Len(t) \in Nat /\ antiprompt \in Words
      /\ sent_count \in 0 .. Len(text) /\ Len(text) \in Nat
  BY <1>1, ComesType, SentIs, Given DEF SentInv, TypeInv
<1> HIDE DEF text
<1>3. /\ Pos(text) = sent_count /\ Unsent(text) \in Texts
      /\ Len(Unsent(text)) = Len(text) - sent_count
  BY <1>2, UnsentIs
<1>4. /\ p \in 0 .. Len(Unsent(text))
      /\ \A f \in Found(Unsent(text), Len(t)) : p <= f[1]
      /\ \E i \in DOMAIN antiprompt :
           <<p, i>> \in Found(Unsent(text), Len(t))
           /\ WordAt(Unsent(text), Len(t), p) = antiprompt[i]
  BY <1>1, <1>2, <1>3, FullStopIs
<1> HIDE DEF p
<1>5. p \in 0 .. Len(text) - sent_count /\ sent_count + p \in 0 .. Len(text)
  BY <1>2, <1>3, <1>4
<1>6. generated_text' = SubSeq(text, 1, sent_count + p)
  BY <1>1, <1>3 DEF Erased
<1>7. generated_text' \in Texts /\ Len(generated_text') = sent_count + p
  <2>1. 1 \in 1 .. Len(text) + 1 /\ 1 <= sent_count + p + 1
    BY <1>2, <1>5
  <2> QED BY <1>2, <1>5, <1>6, <2>1, Cut
<1>8. stopping_word' \in Texts
  BY <1>1, <1>2, <1>4, WordIs
<1> QED BY <1>1, <1>4, <1>5, <1>6, <1>7, <1>8 DEF p, text

(* The beginning of a beginning of a text is its beginning.                *)
LEMMA StartOfStart ==
  ASSUME NEW text \in Texts, NEW n \in 0 .. Len(text), NEW m \in 0 .. n
  PROVE  SubSeq(SubSeq(text, 1, n), 1, m) = SubSeq(text, 1, m)
<1> DEFINE start == SubSeq(text, 1, n)
<1>1. Len(text) \in Nat
  BY LenProperties DEF Texts
<1>2. start \in Texts /\ Len(start) = n /\ \A k \in 1 .. n : start[k] = text[k]
  BY <1>1, Cut
<1> HIDE DEF start
<1>3. /\ SubSeq(start, 1, m) \in Texts /\ Len(SubSeq(start, 1, m)) = m
      /\ \A k \in 1 .. m : SubSeq(start, 1, m)[k] = start[k]
  BY <1>1, <1>2, Cut
<1>4. /\ SubSeq(text, 1, m) \in Texts /\ Len(SubSeq(text, 1, m)) = m
      /\ \A k \in 1 .. m : SubSeq(text, 1, m)[k] = text[k]
  BY <1>1, Cut
<1>5. \A k \in 1 .. m : SubSeq(start, 1, m)[k] = SubSeq(text, 1, m)[k]
  BY <1>1, <1>2, <1>3, <1>4
<1>6. SubSeq(start, 1, m) = SubSeq(text, 1, m)
  BY <1>3, <1>4, <1>5, SameText
<1> QED BY <1>6 DEF start

(* What was shown and the rest are the whole.                              *)
LEMMA ShownAndRest ==
  ASSUME NEW text \in Texts, sent_count \in 0 .. Len(text), shown = SubSeq(text, 1, sent_count)
  PROVE  /\ shown \o Unsent(text) \in Texts /\ shown \o Unsent(text) = text
         /\ sent_count + Len(Unsent(text)) = Len(text)
<1> DEFINE rest == Unsent(text)
<1>1. Len(text) \in Nat
  BY LenProperties DEF Texts
<1>2. /\ rest \in Texts /\ Len(rest) = Len(text) - sent_count
      /\ \A k \in 1 .. Len(text) - sent_count : rest[k] = text[sent_count + k]
  BY UnsentIs
<1> HIDE DEF rest
<1>3. shown \in Texts /\ Len(shown) = sent_count /\ \A k \in 1 .. sent_count : shown[k] = text[k]
  BY <1>1, Cut
<1>4. /\ shown \o rest \in Texts /\ Len(shown \o rest) = Len(text)
      /\ \A k \in 1 .. Len(text) : (shown \o rest)[k] =
           IF k <= sent_count THEN shown[k] ELSE rest[k - sent_count]
  <2>1. sent_count + (Len(text) - sent_count) = Len(text)
    BY <1>1
  <2> QED BY <1>2, <1>3, <2>1, ConcatProperties DEF Texts
<1>5. \A k \in 1 .. Len(text) : (shown \o rest)[k] = text[k]
  BY <1>1, <1>2, <1>3, <1>4
<1>6. shown \o rest = text
  BY <1>4, <1>5, SameText
<1> QED BY <1>1, <1>2, <1>4, <1>6 DEF rest

LEMMA SentInit == Init => SentInv
<1> SUFFICES ASSUME Init PROVE SentInv
  OBVIOUS
<1> USE DEF Init
<1>1. n_predict \in {-1} \cup (Nat \ {0})
  BY StopStringsAssumption DEF StopStringsAssumption
<1>2. n_remain \in Nat /\ BudgetLeft
  BY <1>1 DEF BudgetLeft
<1>3. <<>> \in Texts /\ Len(<<>>) = 0
  BY EmptySeq DEF Texts
<1>4. TypeOK
  BY <1>2, <1>3 DEF TypeOK
<1>5. SubSeq(<<>>, 1, 0) = <<>>
  BY SubSeqEmpty
<1>6. ShownIsKept
  BY <1>3, <1>5 DEF ShownIsKept
<1> QED BY <1>2, <1>4, <1>6 DEF SentInv, TypeInv

LEMMA SentStep == SentInv /\ [Next]_vars => SentInv'
<1> SUFFICES ASSUME SentInv, [Next]_vars PROVE SentInv'
  OBVIOUS
<1>1. TypeOK /\ BudgetLeft /\ ShownIsKept
  BY DEF SentInv, TypeInv
<1>2. CASE NoToken
  <2>1. incomplete' \in BOOLEAN
    BY <1>1, <1>2, ScannedType DEF NoToken
  <2>2. Extended(n_remain, FALSE, incomplete') /\ n_remain \in Nat /\ n_predict' = n_predict
    BY <1>1, <1>2 DEF NoToken, asked, TypeOK
  <2>3. n_remain' \in Nat /\ has_next_token' \in BOOLEAN /\ BudgetLeft'
    BY <2>1, <2>2, ExtendedType
  <2>4. TypeOK' /\ ShownIsKept'
    BY <1>1, <1>2, <2>1, <2>3 DEF NoToken, TypeOK, ShownIsKept, asked
  <2> QED BY <2>3, <2>4 DEF SentInv, TypeInv
<1>3. CASE Interrupt
  <2>1. TypeOK' /\ ShownIsKept' /\ BudgetLeft'
    BY <1>1, <1>3 DEF Interrupt, TypeOK, ShownIsKept, BudgetLeft, asked
  <2> QED BY <2>1 DEF SentInv, TypeInv
<1>4. ASSUME NEW t \in Pieces, Token(t) PROVE SentInv'
  <2> DEFINE text == generated_text \o t
  <2>1. Comes(t)
    BY <1>4 DEF Token, Skip, CutOff, Show, Hold, NotCut
  <2>2. /\ text \in Texts /\ raw' \in Texts /\ turns' \in Nat /\ incomplete' \in BOOLEAN
        /\ antiprompt' = antiprompt /\ n_predict' = n_predict
        /\ is_interrupted' = is_interrupted /\ has_next_token
    BY <2>1, ComesType DEF SentInv
  <2>3. /\ sent_count \in 0 .. Len(text) /\ Len(text) \in Nat
        /\ shown = SubSeq(text, 1, sent_count) /\ Len(shown) = sent_count
    BY <1>1, <2>1, SentIs DEF ShownIsKept
  <2>4. Remaining \in Nat /\ (MayGoOn /\ n_predict # -1 => Remaining > 0) /\ MayGoOn \in BOOLEAN
    BY <2>2, Counted DEF SentInv, MayGoOn
  <2>5. ASSUME NEW part \in BOOLEAN, Extended(Remaining, MayGoOn, part)
        PROVE  n_remain' \in Nat /\ has_next_token' \in BOOLEAN /\ BudgetLeft'
    BY <2>2, <2>4, <2>5, ExtendedType
  <2>6. CASE Skip(t)
    <3>1. n_remain' \in Nat /\ has_next_token' \in BOOLEAN /\ BudgetLeft'
      BY <2>5, <2>6 DEF Skip
    <3>2. generated_text' = text /\ UNCHANGED <<stopped_word, stopping_word, sent_count, shown>>
          /\ unseen' \in BOOLEAN
      BY <1>1, <2>6 DEF Skip, TypeOK
    <3> HIDE DEF text
    <3>3. TypeOK'
      BY <1>1, <2>2, <3>1, <3>2 DEF TypeOK
    <3>4. ShownIsKept'
      BY <2>3, <3>2 DEF ShownIsKept
    <3> QED BY <3>1, <3>3, <3>4 DEF SentInv, TypeInv
  <2>7. CASE CutOff(t)
    <3> DEFINE p == FullStop(Unsent(text), Len(t))
    <3>1. /\ sent_count + p \in 0 .. Len(text) /\ p \in 0 .. Len(text) - sent_count
          /\ generated_text' = SubSeq(text, 1, sent_count + p)
          /\ generated_text' \in Texts /\ Len(generated_text') = sent_count + p
          /\ stopping_word' \in Texts
      BY <2>7, CutIs
    <3>2. /\ stopped_word' = TRUE /\ has_next_token' = FALSE /\ n_remain' = Remaining
          /\ UNCHANGED <<sent_count, shown, unseen>>
      BY <2>7 DEF CutOff
    <3> HIDE DEF text, p
    <3>3. SubSeq(generated_text', 1, sent_count) = SubSeq(text, 1, sent_count)
          /\ sent_count <= Len(generated_text')
      <4>1. sent_count \in 0 .. sent_count + p
        BY <2>3, <3>1
      <4> QED BY <2>2, <2>3, <3>1, <4>1, StartOfStart
    <3>4. TypeOK' /\ BudgetLeft'
      BY <1>1, <2>2, <2>4, <3>1, <3>2 DEF TypeOK, BudgetLeft
    <3>5. ShownIsKept'
      BY <2>3, <3>2, <3>3 DEF ShownIsKept
    <3> QED BY <3>4, <3>5 DEF SentInv, TypeInv
  <2>8. ASSUME NotCut(t)
        PROVE  /\ n_remain' \in Nat /\ has_next_token' \in BOOLEAN /\ BudgetLeft'
               /\ generated_text' = text /\ UNCHANGED <<stopped_word, stopping_word, unseen>>
    BY <2>5, <2>8 DEF NotCut
  <2>9. CASE Show(t)
    <3>1. /\ n_remain' \in Nat /\ has_next_token' \in BOOLEAN /\ BudgetLeft'
          /\ generated_text' = text /\ UNCHANGED <<stopped_word, stopping_word, unseen>>
      BY <2>8, <2>9 DEF Show
    <3>2. sent_count' = sent_count + Len(Unsent(text)) /\ shown' = shown \o Unsent(text)
      BY <2>9 DEF Show
    <3> HIDE DEF text
    <3>3. sent_count' = Len(text) /\ shown' = text
      BY <2>2, <2>3, <3>2, ShownAndRest
    <3>4. TypeOK'
      BY <1>1, <2>2, <2>3, <3>1, <3>3 DEF TypeOK
    <3>5. SubSeq(text, 1, Len(text)) = text
      <4>1. /\ SubSeq(text, 1, Len(text)) \in Texts /\ Len(SubSeq(text, 1, Len(text))) = Len(text)
            /\ \A k \in 1 .. Len(text) : SubSeq(text, 1, Len(text))[k] = text[k]
        BY <2>2, <2>3, Cut
      <4> QED BY <2>2, <4>1, SameText
    <3>6. ShownIsKept'
      BY <2>3, <3>1, <3>3, <3>5 DEF ShownIsKept
    <3> QED BY <3>1, <3>4, <3>6 DEF SentInv, TypeInv
  <2>10. CASE Hold(t)
    <3>1. /\ n_remain' \in Nat /\ has_next_token' \in BOOLEAN /\ BudgetLeft'
          /\ generated_text' = text /\ UNCHANGED <<stopped_word, stopping_word, unseen>>
          /\ UNCHANGED <<sent_count, shown>>
      BY <2>8, <2>10 DEF Hold
    <3> HIDE DEF text
    <3>2. TypeOK'
      BY <1>1, <2>2, <3>1 DEF TypeOK
    <3>3. ShownIsKept'
      BY <2>3, <3>1 DEF ShownIsKept
    <3> QED BY <3>1, <3>2, <3>3 DEF SentInv, TypeInv
  <2> QED BY <1>4, <2>6, <2>7, <2>9, <2>10 DEF Token
<1>5. CASE UNCHANGED vars
  <2>1. TypeOK' /\ ShownIsKept' /\ BudgetLeft'
    BY <1>1, <1>5 DEF vars, TypeOK, ShownIsKept, BudgetLeft, asked
  <2> QED BY <2>1 DEF SentInv, TypeInv
<1> QED BY <1>2, <1>3, <1>4, <1>5 DEF Next

LEMMA SentHolds == Spec => []SentInv
BY SentInit, SentStep, PTL DEF Spec

(* Every variable keeps its type; in particular n_remain, which is         *)
(* unsigned in the code, is never decremented at zero while there is a     *)
(* limit.                                                                  *)
THEOREM TypeCorrect == Spec => []TypeOK
<1>1. SentInv => TypeOK
  BY DEF SentInv, TypeInv
<1> QED BY <1>1, SentHolds, PTL

(* What the application was shown stays in the text: the stop word that    *)
(* ends a completion is cut from what was held back.                       *)
THEOREM ShownStays == Spec => []ShownIsKept
<1>1. SentInv => ShownIsKept
  BY DEF SentInv
<1> QED BY <1>1, SentHolds, PTL

-----------------------------------------------------------------------------
(* The text ends at the first stop word.                                   *)

(* What may become a stop word was not shown, while more may come.         *)
BegunIsHeld ==
  has_next_token =>
    \A i \in DOMAIN antiprompt : \A n \in 1 .. Len(antiprompt[i]) :
      EndsWith(generated_text, antiprompt[i], n) => sent_count <= Len(generated_text) - n

CutInv ==
  /\ SentInv /\ BegunIsHeld /\ CutAtFirstStop
  /\ stopped_word => ~has_next_token

(* A text that is longer may only become a stop word where it did before,  *)
(* or later.                                                               *)
LEMMA BegunBefore ==
  ASSUME SentInv, BegunIsHeld, NEW t \in Pieces, Comes(t),
         NEW i \in DOMAIN antiprompt, NEW n \in 1 .. Len(antiprompt[i]),
         EndsWith(generated_text \o t, antiprompt[i], n)
  PROVE  sent_count <= Len(generated_text \o t) - n
<1> DEFINE text == generated_text \o t
           word == antiprompt[i]
           m == n - Len(t)
<1>1. /\ generated_text \in Texts /\ t \in Texts /\ text \in Texts
      /\ Len(text) = Len(generated_text) + Len(t) /\ Len(t) \in Nat
      /\ Len(generated_text) \in Nat /\ Len(text) \in Nat /\ has_next_token
  BY ComesType, Given DEF SentInv, TypeInv, TypeOK
<1>2. \A k \in 1 .. Len(generated_text) : text[k] = generated_text[k]
  BY <1>1, Joined
<1>3. sent_count \in 0 .. Len(generated_text)
  BY SentIs
<1>4. word \in Texts /\ Len(word) \in Nat
  BY Given, WordIs DEF SentInv, TypeInv
<1>5. n <= Len(text) /\ \A k \in 1 .. n : text[Len(text) - n + k] = word[k]
  BY <1>1, <1>4, EndsWithBytes
<1> HIDE DEF text, word
<1>6. ASSUME Len(text) - n < sent_count PROVE FALSE
  <2>1. m \in 1 .. Len(word) /\ m <= Len(generated_text) /\ m <= n
        /\ Len(generated_text) - m = Len(text) - n
    BY <1>1, <1>3, <1>4, <1>5, <1>6 DEF word
  <2>2. \A k \in 1 .. m : generated_text[Len(generated_text) - m + k] = word[k]
    <3> SUFFICES ASSUME NEW k \in 1 .. m
                 PROVE  generated_text[Len(generated_text) - m + k] = word[k]
      OBVIOUS
    <3>1. Len(generated_text) - m + k \in 1 .. Len(generated_text) /\ k \in 1 .. n
      BY <1>1, <2>1
    <3>2. text[Len(text) - n + k] = word[k]
      BY <1>5, <3>1
    <3>3. text[Len(generated_text) - m + k] = generated_text[Len(generated_text) - m + k]
      BY <1>2, <3>1
    <3> QED BY <2>1, <3>2, <3>3
  <2> HIDE DEF m
  <2>3. EndsWith(generated_text, word, m)
    BY <1>1, <1>4, <2>1, <2>2, EndsWithBytes
  <2>4. sent_count <= Len(generated_text) - m
    BY <1>1, <2>1, <2>3 DEF BegunIsHeld, word
  <2> QED BY <1>1, <1>3, <1>6, <2>1, <2>4
<1>7. n \in Nat
  BY <1>4 DEF word
<1> QED BY <1>1, <1>3, <1>6, <1>7 DEF text

(* What was not sent ends as the text does.                                *)
LEMMA UnsentEnds ==
  ASSUME NEW text \in Texts, sent_count \in 0 .. Len(text), NEW word \in Texts,
         NEW n \in 1 .. Len(word), n <= Len(text) - sent_count
  PROVE  EndsWith(Unsent(text), word, n) <=> EndsWith(text, word, n)
<1> DEFINE rest == Unsent(text)
<1>1. Len(text) \in Nat /\ Len(word) \in Nat
  BY LenProperties DEF Texts
<1>2. /\ rest \in Texts /\ Len(rest) = Len(text) - sent_count
      /\ \A k \in 1 .. Len(text) - sent_count : rest[k] = text[sent_count + k]
  BY UnsentIs
<1> HIDE DEF rest
<1>3. \A k \in 1 .. n : rest[Len(rest) - n + k] = text[Len(text) - n + k]
  <2> SUFFICES ASSUME NEW k \in 1 .. n
               PROVE  rest[Len(rest) - n + k] = text[Len(text) - n + k]
    OBVIOUS
  <2>1. /\ Len(rest) - n + k \in 1 .. Len(text) - sent_count
        /\ sent_count + (Len(rest) - n + k) = Len(text) - n + k
    BY <1>1, <1>2
  <2> QED BY <1>2, <2>1
<1>4. n <= Len(rest) /\ n <= Len(text)
  BY <1>1, <1>2
<1>5. EndsWith(rest, word, n) <=> \A k \in 1 .. n : rest[Len(rest) - n + k] = word[k]
  BY <1>2, <1>4, EndsWithBytes
<1>6. EndsWith(text, word, n) <=> \A k \in 1 .. n : text[Len(text) - n + k] = word[k]
  BY <1>4, EndsWithBytes
<1>7. EndsWith(rest, word, n) <=> EndsWith(text, word, n)
  BY <1>3, <1>5, <1>6
<1> QED BY <1>7 DEF rest

(* A word found in what was not sent is in the text.                       *)
LEMMA FoundIsThere ==
  ASSUME NEW text \in Texts, sent_count \in 0 .. Len(text), antiprompt \in Words,
         NEW q \in 0 .. Len(text) - sent_count, NEW i \in DOMAIN antiprompt
  PROVE  At(Unsent(text), antiprompt[i], q) <=> At(text, antiprompt[i], sent_count + q)
<1> DEFINE rest == Unsent(text)
           word == antiprompt[i]
<1>1. Len(text) \in Nat /\ word \in Texts /\ Len(word) \in Nat
  BY LenProperties, WordIs DEF Texts
<1>2. /\ rest \in Texts /\ Len(rest) = Len(text) - sent_count
      /\ \A k \in 1 .. Len(text) - sent_count : rest[k] = text[sent_count + k]
  BY UnsentIs
<1> HIDE DEF rest, word
<1>3. q \in Nat /\ sent_count + q \in Nat
  BY <1>1
<1>4. At(rest, word, q) <=> (q + Len(word) <= Len(rest) /\ \A k \in 1 .. Len(word) : rest[q + k] = word[k])
  BY <1>1, <1>2, <1>3, AtBytes
<1>5. At(text, word, sent_count + q) <=>
        (sent_count + q + Len(word) <= Len(text)
         /\ \A k \in 1 .. Len(word) : text[sent_count + q + k] = word[k])
  BY <1>1, <1>3, AtBytes
<1>6. (q + Len(word) <= Len(rest)) <=> (sent_count + q + Len(word) <= Len(text))
  BY <1>1, <1>2, <1>3
<1>7. ASSUME q + Len(word) <= Len(rest), NEW k \in 1 .. Len(word)
      PROVE  rest[q + k] = text[sent_count + q + k]
  <2>1. q + k \in 1 .. Len(text) - sent_count /\ sent_count + (q + k) = sent_count + q + k
    BY <1>1, <1>2, <1>3, <1>7
  <2> QED BY <1>2, <2>1
<1>8. At(rest, word, q) <=> At(text, word, sent_count + q)
  BY <1>4, <1>5, <1>6, <1>7
<1> QED BY <1>8 DEF rest, word

(* Every stop word in the text that is longer by a token is found, if the  *)
(* text had none, and what is found is one.                                *)
LEMMA FoundAreAll ==
  ASSUME SentInv, BegunIsHeld, NEW t \in Pieces, Comes(t), Places(generated_text) = {}
  PROVE  LET text == generated_text \o t
             found == Found(Unsent(text), Len(t))
         IN  /\ \A q \in 0 .. Len(text) : \A i \in DOMAIN antiprompt :
                  At(text, antiprompt[i], q) =>
                    sent_count <= q /\ <<q - sent_count, i>> \in found
             /\ \A f \in found :
                  /\ sent_count + f[1] \in 0 .. Len(text) /\ f[2] \in DOMAIN antiprompt
                  /\ At(text, antiprompt[f[2]], sent_count + f[1])
<1> DEFINE text == generated_text \o t
           found == Found(Unsent(text), Len(t))
<1>1. /\ generated_text \in Texts /\ t \in Texts /\ text \in Texts
      /\ Len(text) = Len(generated_text) + Len(t) /\ Len(t) \in Nat
      /\ Len(generated_text) \in Nat /\ Len(text) \in Nat /\ has_next_token
  BY ComesType, Given DEF SentInv, TypeInv, TypeOK
<1>2. \A k \in 1 .. Len(generated_text) : text[k] = generated_text[k]
  BY <1>1, Joined
<1>3. sent_count \in 0 .. Len(generated_text) /\ sent_count \in 0 .. Len(text)
  BY SentIs
<1>4. antiprompt \in Words
  BY Given DEF SentInv, TypeInv
<1> HIDE DEF text
<1>5. Unsent(text) \in Texts /\ Len(Unsent(text)) = Len(text) - sent_count
  BY <1>1, <1>3, UnsentIs
<1>6. ASSUME NEW q \in 0 .. Len(text), NEW i \in DOMAIN antiprompt, At(text, antiprompt[i], q)
      PROVE  sent_count <= q /\ <<q - sent_count, i>> \in found
  <2> DEFINE word == antiprompt[i]
  <2>1. word \in Texts /\ Len(word) \in Nat \ {0}
    BY <1>4, WordIs
  <2>2. q \in Nat /\ q + Len(word) <= Len(text) /\ \A k \in 1 .. Len(word) : text[q + k] = word[k]
    <3>1. q \in Nat
      BY <1>1
    <3> QED BY <1>1, <1>6, <2>1, <3>1, AtBytes
  <2> HIDE DEF word
  <2>3. q + Len(word) > Len(generated_text)
    <3>1. SUFFICES ASSUME q + Len(word) <= Len(generated_text) PROVE FALSE
      BY <1>1, <2>1, <2>2
    <3>2. \A k \in 1 .. Len(word) : generated_text[q + k] = word[k]
      <4> SUFFICES ASSUME NEW k \in 1 .. Len(word) PROVE generated_text[q + k] = word[k]
        OBVIOUS
      <4>1. q + k \in 1 .. Len(generated_text)
        BY <1>1, <2>1, <2>2, <3>1
      <4> QED BY <1>2, <2>2, <4>1
    <3>3. At(generated_text, word, q)
      BY <1>1, <2>1, <2>2, <3>1, <3>2, AtBytes
    <3>4. q \in 0 .. Len(generated_text)
      BY <1>1, <2>1, <2>2, <3>1
    <3> QED BY <3>3, <3>4 DEF Places, word
  <2>4. sent_count <= q
    <3>1. SUFFICES ASSUME q < sent_count PROVE FALSE
      BY <1>1, <1>3, <2>2
    <3> DEFINE m == Len(generated_text) - q
    <3>2. m \in 1 .. Len(word) /\ m <= Len(generated_text) /\ Len(generated_text) - m = q
      BY <1>1, <1>3, <2>1, <2>2, <2>3, <3>1
    <3>3. \A k \in 1 .. m : generated_text[Len(generated_text) - m + k] = word[k]
      <4> SUFFICES ASSUME NEW k \in 1 .. m
                   PROVE  generated_text[Len(generated_text) - m + k] = word[k]
        OBVIOUS
      <4>1. q + k \in 1 .. Len(generated_text) /\ k \in 1 .. Len(word)
        BY <1>1, <2>1, <2>2, <3>2
      <4> QED BY <1>2, <2>2, <3>2, <4>1
    <3> HIDE DEF m
    <3>4. EndsWith(generated_text, word, m)
      BY <1>1, <2>1, <3>2, <3>3, EndsWithBytes
    <3>5. sent_count <= Len(generated_text) - m
      BY <1>1, <3>2, <3>4 DEF BegunIsHeld, word
    <3> QED BY <1>1, <1>3, <2>2, <3>1, <3>2, <3>5
  <2> DEFINE p == q - sent_count
  <2>5. p \in 0 .. Len(text) - sent_count /\ sent_count + p = q
        /\ p \in 0 .. Len(Unsent(text))
    BY <1>1, <1>3, <1>5, <2>2, <2>4
  <2>6. At(Unsent(text), word, p)
    <3> HIDE DEF p
    <3>1. At(text, antiprompt[i], sent_count + p)
      BY <1>6, <2>5
    <3>2. At(Unsent(text), antiprompt[i], p)
      BY <1>1, <1>3, <1>4, <2>5, <3>1, FoundIsThere
    <3> QED BY <3>2 DEF word
  <2>7. p >= From(Unsent(text), word, Len(t))
    BY <1>1, <1>3, <1>5, <2>1, <2>2, <2>3, <2>4 DEF From
  <2> HIDE DEF p
  <2>8. <<p, i>> \in found
    BY <2>5, <2>6, <2>7 DEF Found, word
  <2> QED BY <2>4, <2>8 DEF p
<1>7. ASSUME NEW f \in found
      PROVE  /\ sent_count + f[1] \in 0 .. Len(text) /\ f[2] \in DOMAIN antiprompt
             /\ At(text, antiprompt[f[2]], sent_count + f[1])
  <2>1. /\ f[1] \in 0 .. Len(Unsent(text)) /\ f[2] \in DOMAIN antiprompt
        /\ At(Unsent(text), antiprompt[f[2]], f[1])
    BY <1>7 DEF Found
  <2> HIDE DEF found
  <2>2. f[1] \in 0 .. Len(text) - sent_count /\ sent_count + f[1] \in 0 .. Len(text)
    BY <1>1, <1>3, <1>5, <2>1
  <2>3. At(text, antiprompt[f[2]], sent_count + f[1])
    BY <1>1, <1>3, <1>4, <2>1, <2>2, FoundIsThere
  <2> QED BY <2>1, <2>2, <2>3
<1> HIDE DEF found
<1>8. /\ \A q \in 0 .. Len(text) : \A i \in DOMAIN antiprompt :
           At(text, antiprompt[i], q) => sent_count <= q /\ <<q - sent_count, i>> \in found
      /\ \A f \in found :
           /\ sent_count + f[1] \in 0 .. Len(text) /\ f[2] \in DOMAIN antiprompt
           /\ At(text, antiprompt[f[2]], sent_count + f[1])
  BY <1>6, <1>7
<1> QED BY <1>8 DEF found, text

LEMMA BegunStep ==
  ASSUME CutInv, [Next]_vars
  PROVE  BegunIsHeld'
<1> USE DEF CutInv
<1>1. CASE NoToken
  <2>1. has_next_token /\ UNCHANGED <<antiprompt, generated_text, sent_count>>
    BY <1>1 DEF NoToken, Running, asked
  <2> QED BY <2>1 DEF BegunIsHeld
<1>2. CASE Interrupt \/ UNCHANGED vars
  <2>1. UNCHANGED <<has_next_token, antiprompt, generated_text, sent_count>>
    BY <1>2 DEF Interrupt, vars, asked
  <2> QED BY <2>1 DEF BegunIsHeld
<1>3. ASSUME NEW t \in Pieces, Token(t) PROVE BegunIsHeld'
  <2> DEFINE text == generated_text \o t
  <2>1. Comes(t)
    BY <1>3 DEF Token, Skip, CutOff, Show, Hold, NotCut
  <2>2. /\ antiprompt' = antiprompt /\ antiprompt \in Words /\ text \in Texts
        /\ sent_count \in 0 .. Len(text) /\ Len(text) \in Nat
    BY <2>1, ComesType, SentIs, Given DEF SentInv, TypeInv
  <2>3. \A i \in DOMAIN antiprompt : \A n \in 1 .. Len(antiprompt[i]) :
          EndsWith(text, antiprompt[i], n) => sent_count <= Len(text) - n
    BY <2>1, BegunBefore
  <2> HIDE DEF text
  <2>4. CASE Skip(t) \/ Hold(t)
    <3>1. generated_text' = text /\ sent_count' = sent_count
      BY <2>4 DEF Skip, Hold, NotCut, text
    <3> QED BY <2>2, <2>3, <3>1 DEF BegunIsHeld
  <2>5. CASE CutOff(t)
    <3>1. has_next_token' = FALSE
      BY <2>5 DEF CutOff
    <3> QED BY <3>1 DEF BegunIsHeld
  <2>6. CASE Show(t)
    <3>1. SUFFICES ASSUME has_next_token',
                          NEW i \in DOMAIN antiprompt, NEW n \in 1 .. Len(antiprompt[i]),
                          EndsWith(text, antiprompt[i], n)
                   PROVE  FALSE
      <4>1. generated_text' = text
        BY <2>6 DEF Show, NotCut, text
      <4> QED BY <2>2, <4>1 DEF BegunIsHeld
    <3>2. PartialStop(Unsent(text)) = NPos
      BY <2>6, <3>1 DEF Show, text
    <3>3. Unsent(text) \in Texts
      BY <2>2, UnsentIs
    <3>4. ~EndsWith(Unsent(text), antiprompt[i], n)
      BY <2>2, <3>2, <3>3, PartialStopIs
    <3>5. sent_count <= Len(text) - n
      BY <2>3, <3>1
    <3>6. antiprompt[i] \in Texts /\ Len(antiprompt[i]) \in Nat
      BY <2>2, WordIs
    <3>7. n <= Len(text) - sent_count
      BY <2>2, <3>5, <3>6
    <3> QED BY <2>2, <3>1, <3>4, <3>6, <3>7, UnsentEnds
  <2> QED BY <1>3, <2>4, <2>5, <2>6 DEF Token
<1> QED BY <1>1, <1>2, <1>3 DEF Next

LEMMA CutStep ==
  ASSUME CutInv, [Next]_vars
  PROVE  CutAtFirstStop' /\ (stopped_word => ~has_next_token)'
<1> DEFINE Goal == CutAtFirstStop' /\ (stopped_word' => ~has_next_token')
<1> USE DEF CutInv
<1>1. CASE NoToken
  <2>1. /\ has_next_token
        /\ UNCHANGED <<antiprompt, generated_text, raw, unseen, stopped_word, stopping_word>>
    BY <1>1 DEF NoToken, Running, asked
  <2>2. Places(raw)' = Places(raw)
    BY <2>1 DEF Places
  <2> QED BY <2>1, <2>2 DEF CutAtFirstStop
<1>2. CASE Interrupt \/ UNCHANGED vars
  <2>1. UNCHANGED <<has_next_token, antiprompt, generated_text, raw, unseen, stopped_word,
                    stopping_word>>
    BY <1>2 DEF Interrupt, vars, asked
  <2>2. Places(raw)' = Places(raw)
    BY <2>1 DEF Places
  <2> QED BY <2>1, <2>2 DEF CutAtFirstStop
<1>3. ASSUME NEW t \in Pieces, Token(t) PROVE Goal
  <2> DEFINE text == generated_text \o t
             found == Found(Unsent(text), Len(t))
             p == FullStop(Unsent(text), Len(t))
  <2>1. Comes(t)
    BY <1>3 DEF Token, Skip, CutOff, Show, Hold, NotCut
  <2>2. /\ antiprompt' = antiprompt /\ antiprompt \in Words /\ text \in Texts /\ has_next_token
        /\ sent_count \in 0 .. Len(text) /\ Len(text) \in Nat /\ raw' = raw \o t
        /\ Len(t) \in Nat
    BY <2>1, ComesType, SentIs, Given DEF SentInv, TypeInv, Comes
  <2>3. ~stopped_word
    BY <2>2
  <2>4. ASSUME ~unseen PROVE raw' = text /\ Places(generated_text) = {}
    BY <2>2, <2>3, <2>4 DEF CutAtFirstStop
  <2>5. ASSUME ~unseen, raw' = text PROVE Places(raw)' = Places(text)
    BY <2>2, <2>5 DEF Places
  <2>6. ASSUME ~unseen
        PROVE  /\ \A q \in 0 .. Len(text) : \A i \in DOMAIN antiprompt :
                    At(text, antiprompt[i], q) => sent_count <= q /\ <<q - sent_count, i>> \in found
               /\ \A f \in found : /\ sent_count + f[1] \in 0 .. Len(text)
                                   /\ f[2] \in DOMAIN antiprompt
                                   /\ At(text, antiprompt[f[2]], sent_count + f[1])
    BY <2>1, <2>4, <2>6, FoundAreAll
  <2>7. CASE Skip(t)
    <3>1. /\ stopped_word' = stopped_word /\ generated_text' = text
          /\ unseen' = (unseen \/ Places(text) # {})
      BY <2>7 DEF Skip
    <3>2. SUFFICES ASSUME ~unseen' PROVE Places(raw)' = {} /\ generated_text' = raw'
      BY <2>3, <3>1 DEF CutAtFirstStop
    <3> HIDE DEF text
    <3> QED BY <2>4, <2>5, <3>1, <3>2
  <2>8. CASE CutOff(t)
    <3>1. stopped_word' = TRUE /\ has_next_token' = FALSE /\ unseen' = unseen
      BY <2>8 DEF CutOff
    <3>2. SUFFICES ASSUME ~unseen
                   PROVE  /\ Places(text) # {}
                          /\ generated_text' = SubSeq(text, 1, Least(Places(text)))
                          /\ At(text, stopping_word', Len(generated_text'))
      <4> HIDE DEF text
      <4> QED BY <2>4, <2>5, <3>1 DEF CutAtFirstStop
    <3>3. /\ p \in 0 .. Len(text) - sent_count /\ sent_count + p \in 0 .. Len(text)
          /\ generated_text' = SubSeq(text, 1, sent_count + p)
          /\ Len(generated_text') = sent_count + p
          /\ \E i \in DOMAIN antiprompt : <<p, i>> \in found /\ stopping_word' = antiprompt[i]
          /\ \A f \in found : p <= f[1]
      BY <2>8, CutIs
    <3> HIDE DEF text, found, p
    <3>4. PICK i \in DOMAIN antiprompt : <<p, i>> \in found /\ stopping_word' = antiprompt[i]
      BY <3>3
    <3>5. At(text, stopping_word', sent_count + p)
      BY <2>6, <3>2, <3>4
    <3>6. sent_count + p \in Places(text)
      BY <3>3, <3>4, <3>5 DEF Places
    <3>7. \A q \in Places(text) : sent_count + p <= q
      <4> SUFFICES ASSUME NEW q \in Places(text) PROVE sent_count + p <= q
        OBVIOUS
      <4>1. PICK j \in DOMAIN antiprompt : q \in 0 .. Len(text) /\ At(text, antiprompt[j], q)
        BY DEF Places
      <4>2. sent_count <= q /\ <<q - sent_count, j>> \in found
        BY <2>6, <3>2, <4>1
      <4>3. p <= q - sent_count
        BY <3>3, <4>2
      <4> QED BY <2>2, <3>3, <4>1, <4>3
    <3>8. Least(Places(text)) = sent_count + p
      <4>1. Places(text) \subseteq 0 .. Len(text)
        BY DEF Places
      <4> QED BY <2>2, <3>6, <3>7, <4>1, LeastIsThis
    <3> QED BY <3>3, <3>5, <3>6, <3>8
  <2>9. CASE NotCut(t)
    <3>1. /\ stopped_word' = stopped_word /\ generated_text' = text
          /\ unseen' = unseen /\ p = NPos
      BY <2>9 DEF NotCut
    <3>2. SUFFICES ASSUME ~unseen PROVE Places(text) = {}
      <4> HIDE DEF text
      <4> QED BY <2>3, <2>4, <2>5, <3>1 DEF CutAtFirstStop
    <3>3. found = {}
      <4>1. Unsent(text) \in Texts /\ Len(Unsent(text)) = Len(text) - sent_count
        BY <2>2, UnsentIs
      <4>2. p \notin 0 .. Len(Unsent(text))
        BY <2>2, <3>1, <4>1 DEF NPos
      <4> QED BY <2>2, <4>1, <4>2, FullStopIs
    <3> HIDE DEF text, found, p
    <3> QED BY <2>6, <3>2, <3>3 DEF Places
  <2>10. Token(t) => Skip(t) \/ CutOff(t) \/ NotCut(t)
    BY DEF Token, Show, Hold
  <2> QED BY <1>3, <2>7, <2>8, <2>9, <2>10
<1> QED BY <1>1, <1>2, <1>3 DEF Next

LEMMA CutInit == Init => CutInv
<1> SUFFICES ASSUME Init PROVE CutInv
  OBVIOUS
<1>1. SentInv
  BY SentInit
<1>2. /\ generated_text = <<>> /\ raw = <<>> /\ stopped_word = FALSE /\ sent_count = 0
      /\ <<>> \in Texts /\ Len(<<>>) = 0 /\ antiprompt \in Words
  BY <1>1, EmptySeq, Given DEF Init, Texts, SentInv, TypeInv
<1>3. BegunIsHeld
  <2>1. SUFFICES ASSUME NEW i \in DOMAIN antiprompt, NEW n \in 1 .. Len(antiprompt[i]),
                        EndsWith(<<>>, antiprompt[i], n)
                 PROVE  FALSE
    BY <1>2 DEF BegunIsHeld
  <2>2. Len(antiprompt[i]) \in Nat
    BY <1>2, WordIs
  <2>3. n <= Len(<<>>)
    BY <2>1 DEF EndsWith
  <2> QED BY <1>2, <2>2, <2>3
<1>4. Places(raw) = {}
  <2>1. SUFFICES ASSUME NEW q \in 0 .. Len(raw), NEW i \in DOMAIN antiprompt,
                        At(raw, antiprompt[i], q)
                 PROVE  FALSE
    BY DEF Places
  <2>2. Len(antiprompt[i]) \in Nat \ {0}
    BY <1>2, WordIs
  <2>3. q + Len(antiprompt[i]) <= Len(raw)
    BY <2>1 DEF At
  <2> QED BY <1>2, <2>2, <2>3
<1>5. CutAtFirstStop
  BY <1>2, <1>4 DEF CutAtFirstStop
<1> QED BY <1>1, <1>2, <1>3, <1>5 DEF CutInv

LEMMA CutHolds == Spec => []CutInv
<1>1. CutInv /\ [Next]_vars => CutInv'
  <2> SUFFICES ASSUME CutInv, [Next]_vars PROVE CutInv'
    OBVIOUS
  <2>1. SentInv'
    BY SentStep DEF CutInv
  <2> QED BY <2>1, BegunStep, CutStep DEF CutInv
<1> QED BY <1>1, CutInit, PTL DEF Spec

(* However the stop words are spread over the tokens, the text ends at the *)
(* first one: what may become a stop word was not shown, so the search in  *)
(* the text not shown, from the place where a word may begin that ends in  *)
(* the last token, misses none.                                            *)
THEOREM TextEndsAtStop == Spec => []CutAtFirstStop
<1>1. CutInv => CutAtFirstStop
  BY DEF CutInv
<1> QED BY <1>1, CutHolds, PTL

-----------------------------------------------------------------------------
(* Text is held back for a reason.                                         *)

HeldInv == SentInv /\ HeldForAReason

LEMMA HeldStep ==
  ASSUME HeldInv, [Next]_vars
  PROVE  HeldForAReason'
<1> USE DEF HeldInv
<1>1. CASE NoToken
  <2>1. has_next_token' = incomplete'
    BY <1>1, ScannedType DEF NoToken, Extended, SentInv, TypeInv
  <2> QED BY <2>1 DEF HeldForAReason
<1>2. CASE Interrupt \/ UNCHANGED vars
  <2>1. UNCHANGED <<has_next_token, incomplete, antiprompt, generated_text, sent_count>>
    BY <1>2 DEF Interrupt, vars, asked
  <2> QED BY <2>1 DEF HeldForAReason
<1>3. ASSUME NEW t \in Pieces, Token(t) PROVE HeldForAReason'
  <2> DEFINE text == generated_text \o t
  <2>1. Comes(t)
    BY <1>3 DEF Token, Skip, CutOff, Show, Hold, NotCut
  <2>2. /\ antiprompt' = antiprompt /\ antiprompt \in Words /\ text \in Texts
        /\ sent_count \in 0 .. Len(text) /\ Len(text) \in Nat /\ shown = SubSeq(text, 1, sent_count)
    BY <2>1, ComesType, SentIs, Given DEF SentInv, TypeInv
  <2>3. CASE Skip(t)
    BY <2>3 DEF Skip, HeldForAReason
  <2>4. CASE CutOff(t)
    BY <2>4 DEF CutOff, HeldForAReason
  <2>5. CASE Show(t)
    <3>1. generated_text' = text /\ sent_count' = sent_count + Len(Unsent(text))
      BY <2>5 DEF Show, NotCut
    <3> HIDE DEF text
    <3>2. sent_count' = Len(text)
      BY <2>2, <3>1, ShownAndRest
    <3>3. ~(sent_count' < Len(generated_text'))
      BY <2>2, <3>1, <3>2
    <3> QED BY <3>3 DEF HeldForAReason
  <2>6. CASE Hold(t)
    <3>1. generated_text' = text /\ PartialStop(Unsent(text)) # NPos
      BY <2>6 DEF Hold, NotCut
    <3> HIDE DEF text
    <3>2. Unsent(text) \in Texts /\ Len(Unsent(text)) = Len(text) - sent_count
      BY <2>2, UnsentIs
    <3>3. PICK i \in DOMAIN antiprompt : \E n \in 1 .. Len(antiprompt[i]) :
            EndsWith(Unsent(text), antiprompt[i], n)
      BY <2>2, <3>1, <3>2, PartialStopIs
    <3>4. PICK n \in 1 .. Len(antiprompt[i]) : EndsWith(Unsent(text), antiprompt[i], n)
      BY <3>3
    <3>5. n <= Len(text) - sent_count
      BY <3>2, <3>4 DEF EndsWith
    <3>6. antiprompt[i] \in Texts
      BY <2>2, WordIs
    <3>7. EndsWith(text, antiprompt[i], n)
      BY <2>2, <3>4, <3>5, <3>6, UnsentEnds
    <3> QED BY <2>2, <3>1, <3>7 DEF HeldForAReason
  <2> QED BY <1>3, <2>3, <2>4, <2>5, <2>6 DEF Token
<1> QED BY <1>1, <1>2, <1>3 DEF Next

(* While a completion goes on, all that is not shown of its text may       *)
(* become a stop word or ends inside a character.                          *)
THEOREM HeldBackForAReason == Spec => []HeldForAReason
<1>1. Init => HeldInv
  <2>1. Init => Len(generated_text) = 0 /\ sent_count = 0
    BY EmptySeq DEF Init
  <2> QED BY <2>1, SentInit DEF HeldInv, HeldForAReason
<1>2. HeldInv /\ [Next]_vars => HeldInv'
  BY SentStep, HeldStep DEF HeldInv
<1>3. HeldInv => HeldForAReason
  BY DEF HeldInv
<1> QED BY <1>1, <1>2, <1>3, PTL DEF Spec

-----------------------------------------------------------------------------
(* No stop word is shown.                                                  *)

(* A word in the beginning of a text is a word in the text.                *)
LEMMA AtStart ==
  ASSUME NEW text \in Texts, NEW n \in 0 .. Len(text), NEW word \in Texts, NEW p \in Nat,
         At(SubSeq(text, 1, n), word, p)
  PROVE  p + Len(word) <= n /\ At(text, word, p)
<1> DEFINE start == SubSeq(text, 1, n)
<1>1. Len(text) \in Nat /\ Len(word) \in Nat
  BY LenProperties DEF Texts
<1>2. start \in Texts /\ Len(start) = n /\ \A k \in 1 .. n : start[k] = text[k]
  BY <1>1, Cut
<1> HIDE DEF start
<1>3. p + Len(word) <= n /\ \A k \in 1 .. Len(word) : start[p + k] = word[k]
  BY <1>2, AtBytes DEF start
<1>4. \A k \in 1 .. Len(word) : text[p + k] = word[k]
  BY <1>1, <1>2, <1>3
<1> QED BY <1>1, <1>3, <1>4, AtBytes

(* A text cut off at its first stop word holds none.                       *)
LEMMA NoneBeforeFirst ==
  ASSUME antiprompt \in Words, NEW text \in Texts, NEW n \in 0 .. Len(text),
         Places(text) # {} => n <= Least(Places(text)),
         NEW p \in Nat, NEW i \in DOMAIN antiprompt, At(SubSeq(text, 1, n), antiprompt[i], p)
  PROVE  FALSE
<1>1. antiprompt[i] \in Texts /\ Len(antiprompt[i]) \in Nat \ {0} /\ Len(text) \in Nat
  BY WordIs, LenProperties DEF Texts
<1>2. p + Len(antiprompt[i]) <= n /\ At(text, antiprompt[i], p)
  BY <1>1, AtStart
<1>3. p \in Places(text) /\ Places(text) \subseteq 0 .. Len(text)
  BY <1>1, <1>2 DEF Places
<1>4. Least(Places(text)) <= p /\ Least(Places(text)) \in 0 .. Len(text)
  BY <1>1, <1>3, LeastIs
<1> QED BY <1>1, <1>2, <1>3, <1>4

(* The text of a completion is that of all tokens up to the first stop     *)
(* word, and what was shown is a beginning of it.                          *)
LEMMA ShownIsClean ==
  ASSUME CutInv, ~unseen
  PROVE  NoStopWordShown
<1>1. /\ antiprompt \in Words /\ raw \in Texts /\ shown \in Texts /\ generated_text \in Texts
      /\ Len(raw) \in Nat /\ Len(generated_text) \in Nat /\ sent_count \in 0 .. Len(generated_text)
      /\ shown = SubSeq(generated_text, 1, sent_count)
  BY Given, LenProperties DEF CutInv, SentInv, ShownIsKept, TypeInv, TypeOK, Texts
<1>2. /\ stopped_word <=> Places(raw) # {}
      /\ generated_text = IF stopped_word THEN SubSeq(raw, 1, Least(Places(raw))) ELSE raw
  BY DEF CutInv, CutAtFirstStop
<1>3. /\ sent_count \in 0 .. Len(raw) /\ shown = SubSeq(raw, 1, sent_count)
      /\ Places(raw) # {} => sent_count <= Least(Places(raw))
  <2>1. CASE ~stopped_word
    BY <1>1, <1>2, <2>1
  <2>2. CASE stopped_word
    <3> DEFINE n == Least(Places(raw))
    <3>1. Places(raw) # {} /\ Places(raw) \subseteq 0 .. Len(raw)
      BY <1>2, <2>2 DEF Places
    <3>2. n \in 0 .. Len(raw)
      BY <1>1, <3>1, LeastIs
    <3>3. generated_text = SubSeq(raw, 1, n)
      BY <1>2, <2>2
    <3> HIDE DEF n
    <3>4. Len(generated_text) = n
      BY <1>1, <3>2, <3>3, Cut
    <3>5. sent_count \in 0 .. n
      BY <1>1, <3>2, <3>4
    <3>6. shown = SubSeq(raw, 1, sent_count)
      BY <1>1, <3>2, <3>3, <3>5, StartOfStart
    <3> QED BY <1>1, <3>2, <3>5, <3>6 DEF n
  <2> QED BY <2>1, <2>2
<1>4. SUFFICES ASSUME NEW p \in 0 .. Len(shown), NEW i \in DOMAIN antiprompt,
                      At(shown, antiprompt[i], p)
               PROVE  FALSE
  BY DEF NoStopWordShown
<1>5. p \in Nat
  BY <1>1, LenProperties DEF Texts
<1> QED BY <1>1, <1>3, <1>4, <1>5, NoneBeforeFirst

(* The application is never shown a stop word, nor a part of the text      *)
(* behind it, unless one ended in a token that the loop did not look at    *)
(* (jni.cpp: it looks at the text only while incomplete is false).         *)
THEOREM StopWordsAreNotShown == Spec => [](~unseen => NoStopWordShown)
<1>1. CutInv => (~unseen => NoStopWordShown)
  BY ShownIsClean
<1> QED BY <1>1, CutHolds, PTL

-----------------------------------------------------------------------------
(* Tokens that end between characters.                                     *)

(* The text does not end inside a character.                               *)
Whole(text) == \A i \in LastStart(text) : ~(i < Width[text[Len(text) - i + 1]])

(* No token ends inside a character, as with a vocabulary that needs no    *)
(* bytes for the language at hand.                                         *)
WholeTokens ==
  \A t \in Pieces \ {<<>>} : \E i \in LastStart(t) : ~(i < Width[t[Len(t) - i + 1]])

WholeInv ==
  CutInv /\ ~incomplete /\ ~unseen /\ (has_next_token => Whole(generated_text))

LEMMA ScannedWhole ==
  ASSUME NEW text, Whole(text), ~incomplete
  PROVE  Scanned(text) = FALSE
<1> DEFINE found == \E i \in LastStart(text) : Width[text[Len(text) - i + 1]] > 1
           part == \E i \in LastStart(text) : i < Width[text[Len(text) - i + 1]]
<1>1. Scanned(text) = IF found THEN part ELSE incomplete
  BY DEF Scanned
<1>2. part = FALSE
  BY DEF Whole
<1> HIDE DEF found, part
<1> QED BY <1>1, <1>2

(* The last character of a text is that of the token that came last.       *)
LEMMA WholeJoined ==
  ASSUME WholeTokens, NEW text \in Texts, Whole(text), NEW t \in Pieces
  PROVE  Whole(text \o t)
<1> DEFINE joined == text \o t
<1>1. t \in Texts /\ Len(t) \in Nat /\ Len(text) \in Nat
  BY StopStringsAssumption, LenProperties DEF StopStringsAssumption, Texts
<1>2. /\ joined \in Texts /\ Len(joined) = Len(text) + Len(t)
      /\ \A k \in 1 .. Len(text) + Len(t) :
           joined[k] = IF k <= Len(text) THEN text[k] ELSE t[k - Len(text)]
  BY <1>1, ConcatProperties DEF Texts
<1>3. CASE t = <<>>
  <2>1. Len(t) = 0
    BY <1>3, EmptySeq
  <2>2. joined = text
    <3> HIDE DEF joined
    <3>1. Len(joined) = Len(text) /\ \A k \in 1 .. Len(text) : joined[k] = text[k]
      BY <1>1, <1>2, <2>1
    <3> QED BY <1>2, <3>1, SameText
  <2> QED BY <2>2
<1>4. CASE t # <<>>
  <2>1. PICK i \in LastStart(t) : ~(i < Width[t[Len(t) - i + 1]])
    BY <1>4 DEF WholeTokens
  <2>2. /\ i \in 1 .. 4 /\ i <= Len(t) /\ Width[t[Len(t) - i + 1]] # 0
        /\ \A j \in 1 .. i - 1 : Width[t[Len(t) - j + 1]] = 0
    BY DEF LastStart
  <2> HIDE DEF joined
  <2>3. \A j \in 1 .. Len(t) : joined[Len(joined) - j + 1] = t[Len(t) - j + 1]
    BY <1>1, <1>2
  <2>4. ASSUME NEW k \in LastStart(joined), k < Width[joined[Len(joined) - k + 1]] PROVE FALSE
    <3>1. /\ k \in 1 .. 4 /\ k <= Len(joined) /\ Width[joined[Len(joined) - k + 1]] # 0
          /\ \A j \in 1 .. k - 1 : Width[joined[Len(joined) - j + 1]] = 0
      BY DEF LastStart
    <3>2. CASE k < i
      <4>1. k \in 1 .. i - 1 /\ k \in 1 .. Len(t)
        BY <1>1, <2>2, <3>1, <3>2
      <4>2. joined[Len(joined) - k + 1] = t[Len(t) - k + 1] /\ Width[t[Len(t) - k + 1]] = 0
        BY <2>2, <2>3, <4>1
      <4> QED BY <3>1, <4>2
    <3>3. CASE i < k
      <4>1. i \in 1 .. k - 1 /\ i \in 1 .. Len(t)
        BY <1>1, <2>2, <3>1, <3>3
      <4>2. joined[Len(joined) - i + 1] = t[Len(t) - i + 1]
        BY <2>3, <4>1
      <4>3. Width[joined[Len(joined) - i + 1]] = 0
        BY <3>1, <4>1
      <4> QED BY <2>2, <4>2, <4>3
    <3>4. CASE k = i
      BY <1>1, <2>1, <2>2, <2>3, <2>4, <3>4
    <3> QED BY <2>2, <3>1, <3>2, <3>3, <3>4
  <2>5. Whole(joined)
    BY <2>4 DEF Whole
  <2> QED BY <2>5 DEF joined
<1> QED BY <1>3, <1>4

LEMMA WholeStep ==
  ASSUME WholeTokens, WholeInv, [Next]_vars
  PROVE  (~incomplete /\ ~unseen /\ (has_next_token => Whole(generated_text)))'
<1>1. CutInv /\ ~incomplete /\ ~unseen /\ (has_next_token => Whole(generated_text))
  BY DEF WholeInv
<1>2. CASE NoToken
  <2>1. has_next_token /\ incomplete' = Scanned(generated_text)
    BY <1>2 DEF NoToken, Running
  <2>2. ~incomplete'
    BY <1>1, <2>1, ScannedWhole
  <2> QED BY <1>1, <1>2, <2>1, <2>2 DEF NoToken
<1>3. CASE Interrupt \/ UNCHANGED vars
  <2>1. UNCHANGED <<incomplete, unseen, has_next_token, generated_text>>
    BY <1>3 DEF Interrupt, vars
  <2> QED BY <1>1, <2>1
<1>4. ASSUME NEW t \in Pieces, Token(t)
      PROVE  (~incomplete /\ ~unseen /\ (has_next_token => Whole(generated_text)))'
  <2> DEFINE text == generated_text \o t
  <2>1. Comes(t)
    BY <1>4 DEF Token, Skip, CutOff, Show, Hold, NotCut
  <2>2. has_next_token /\ generated_text \in Texts /\ incomplete' = Scanned(text)
    BY <1>1, <2>1 DEF Comes, Running, CutInv, SentInv, TypeInv, TypeOK
  <2>3. Whole(text)
    BY <1>1, <2>2, WholeJoined
  <2>4. ~incomplete'
    <3> HIDE DEF text
    <3> QED BY <1>1, <2>2, <2>3, ScannedWhole
  <2>5. CutOff(t) \/ NotCut(t)
    BY <1>4, <2>4 DEF Token, Skip, Show, Hold
  <2>6. unseen' = unseen /\ (has_next_token' => generated_text' = text)
    BY <2>5 DEF CutOff, NotCut
  <2> HIDE DEF text
  <2> QED BY <1>1, <2>3, <2>4, <2>6
<1> QED BY <1>2, <1>3, <1>4 DEF Next

LEMMA WholeHolds == ASSUME WholeTokens PROVE Spec => []WholeInv
<1>1. Init => WholeInv
  <2>1. Init => Len(generated_text) = 0
    BY EmptySeq DEF Init
  <2>2. Init => Whole(generated_text)
    BY <2>1 DEF Whole, LastStart
  <2> QED BY <2>2, CutInit DEF WholeInv, Init
<1>2. WholeInv /\ [Next]_vars => WholeInv'
  <2> SUFFICES ASSUME WholeInv, [Next]_vars PROVE WholeInv'
    OBVIOUS
  <2>1. CutInv'
    <3>1. SentInv'
      BY SentStep DEF WholeInv, CutInv
    <3> QED BY <3>1, BegunStep, CutStep DEF WholeInv, CutInv
  <2> QED BY <2>1, WholeStep DEF WholeInv
<1> QED BY <1>1, <1>2, PTL DEF Spec

(* Where every token ends between characters the loop looks at every text: *)
(* whatever the stop words and however they are spread over the tokens,    *)
(* none is ever shown.                                                     *)
THEOREM WholeTokensShowNone == ASSUME WholeTokens PROVE Spec => []NoStopWordShown
<1>1. WholeInv => NoStopWordShown
  BY ShownIsClean DEF WholeInv
<1> QED BY <1>1, WholeHolds, PTL
=============================================================================
