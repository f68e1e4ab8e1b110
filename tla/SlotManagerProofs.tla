------------------------- MODULE SlotManagerProofs -------------------------
(* What SlotManager guarantees for every number of slots, requests and     *)
(* cancelling threads.                                                     *)
EXTENDS SlotManagerRefinement, FiniteSetTheorems, SequenceTheorems, TLAPS

USE ConstantsAssumption DEF Slots, Ids, Avail, Busy, Tasks

-----------------------------------------------------------------------------
(* Type correctness.                                                       *)

LEMMA FreshType == Fresh \in SlotRecord
BY DEF Fresh, SlotRecord

(* What a request of the right type makes of a slot.                       *)
LEMMA LoadedType ==
  ASSUME TypeOK, NEW s \in Slots, NEW q \in Request, NEW n \in Reusable(s, q)
  PROVE  Loaded(s, q, n) \in SlotRecord
<1>1. q.shape \in Shape /\ q.id \in Ids
  BY DEF Request
<1>2. n \in Nat
  BY <1>1 DEF Reusable, Shape
<1>3. slot[s] \in SlotRecord
  BY DEF TypeOK
<1>4. CheckpointTarget(q.shape.prompt) \in Nat
  BY <1>1 DEF CheckpointTarget, Shape
<1>. QED
  BY <1>1, <1>2, <1>3, <1>4 DEF Loaded, SlotRecord, Shape

LEMMA TakenType ==
  ASSUME TypeOK, NEW s \in Slots
  PROVE  /\ Taken(s) \in Nat
         /\ n_tokens + Taken(s) <= NBatch \/ Taken(s) = 0
<1>1. slot[s] \in SlotRecord
  BY DEF TypeOK
<1>2. PromptEnd(s) \in Nat /\ slot[s].n_past \in Nat
  BY <1>1 DEF PromptEnd, SlotRecord
<1>. QED
  BY <1>2, SMTT(30) DEF Taken, TypeOK

LEMMA ContinuingSize == Cardinality(Continuing) \in Nat /\ Cardinality(Continuing) <= NSlots
<1>1. IsFiniteSet(Slots) /\ Cardinality(Slots) = NSlots
  BY FS_Interval
<1>2. Continuing \subseteq Slots
  BY DEF Continuing
<1>. QED
  BY <1>1, <1>2, FS_Subset, FS_CardinalityType

LEMMA ErasedType ==
  ASSUME queue_requests \in Seq(Request), NEW i \in DOMAIN queue_requests
  PROVE  Erased(i) \in Seq(Request)
BY DEF Erased

(* Counting a callback of a request that is not in Ids counts nothing.     *)
LEMMA AnswerType ==
  ASSUME TypeOK, NEW r, Answer(r)
  PROVE  answers' \in [Ids -> Nat]
<1>1. answers \in [Ids -> Nat]
  BY DEF TypeOK
<1>2. answers' = [i \in Ids |-> IF i = r THEN answers[r] + 1 ELSE answers[i]]
  BY <1>1 DEF Answer
<1>. QED
  BY <1>1, <1>2

LEMMA SlotType ==
  ASSUME TypeOK, NEW s \in Slots, NEW S \in SlotRecord, slot' = [slot EXCEPT ![s] = S]
  PROVE  slot' \in [Slots -> SlotRecord]
BY DEF TypeOK

(* What is known of a cancel_request between its lookup and its end.       *)
LEMMA CancelType ==
  ASSUME TypeOK, NEW c \in Clients
  PROVE  /\ cancelling[c].id \in Ids \cup {0} /\ cancelling[c].slot \in Slots \cup {0}
         /\ cancelling[c].id # 0 \/ cancelling[c].slot # 0 =>
              cancelling[c] \in Cancel /\ cancelling[c].id \in Ids
<1>1. cancelling[c] \in Cancel \/ cancelling[c] = NoCancel
  BY DEF TypeOK
<1>2. CASE cancelling[c] \in Cancel
  BY <1>2 DEF Cancel
<1>3. CASE cancelling[c] = NoCancel
  BY <1>3 DEF NoCancel
<1>. QED
  BY <1>1, <1>2, <1>3

(* The steps of the callers and of cancel_request.                         *)
LEMMA CallerTypes ==
  ASSUME TypeOK,
         \/ \E shape \in Shapes : QueueRequest(shape) \/ AnswerAtOnce(shape)
         \/ \E c \in Clients : CancelEffect(c) \/ \E r \in Ids : CancelLookup(c, r)
  PROVE  TypeOK'
<1>1. ASSUME NEW shape \in Shapes, QueueRequest(shape) PROVE TypeOK'
  <2>1. [id |-> next_request_id, shape |-> shape] \in Request
    BY <1>1 DEF QueueRequest, Request, TypeOK
  <2>. QED
    BY <1>1, <2>1 DEF QueueRequest, TypeOK, pool, batch, loop
<1>2. ASSUME NEW shape \in Shapes, AnswerAtOnce(shape) PROVE TypeOK'
  <2>1. answers' \in [Ids -> Nat]
    BY <1>2, AnswerType DEF AnswerAtOnce
  <2>. QED
    BY <1>2, <2>1 DEF AnswerAtOnce, TypeOK, pool, batch, loop
<1>3. ASSUME NEW c \in Clients, NEW r \in Ids, CancelLookup(c, r) PROVE TypeOK'
  <2>1. [id |-> r, slot |-> active_requests[r], half |-> FALSE] \in Cancel
    BY DEF TypeOK, Cancel
  <2>. QED
    BY <1>3, <2>1 DEF CancelLookup, TypeOK, pool, batch, loop
<1>4. ASSUME NEW c \in Clients, CancelInterrupt(c) PROVE TypeOK'
  <2>. DEFINE s == cancelling[c].slot
              r == cancelling[c].id
  <2>1. s \in Slots /\ r \in Ids /\ cancelling[c] \in Cancel
    BY <1>4, CancelType DEF CancelInterrupt
  <2>2. slot[s] \in SlotRecord
    BY <2>1 DEF TypeOK
  <2>3. Interrupted(s) \in SlotRecord
    BY <2>2 DEF Interrupted, SlotRecord
  <2>4. slot' \in [Slots -> SlotRecord]
    BY <1>4, <2>1, <2>3, SlotType DEF CancelInterrupt
  <2>5. [cancelling[c] EXCEPT !.half = TRUE] \in Cancel
    BY <2>1 DEF Cancel
  <2>6. cancelling' \in [Clients -> Cancel \cup {NoCancel}]
    BY <1>4, <2>5 DEF CancelInterrupt, TypeOK
  <2>. QED
    BY <1>4, <2>1, <2>4, <2>6 DEF CancelInterrupt, TypeOK, batch, loop
<1>7. ASSUME NEW c \in Clients, CancelDone(c) PROVE TypeOK'
  <2>. DEFINE s == cancelling[c].slot
  <2>1. s \in Slots
    BY <1>7, CancelType DEF CancelDone
  <2>2. slot[s] \in SlotRecord
    BY <2>1 DEF TypeOK
  <2>3. Stopped(s) \in SlotRecord
    BY <2>2 DEF Stopped, SlotRecord
  <2>4. slot' \in [Slots -> SlotRecord]
    BY <1>7, <2>1, <2>3, SlotType DEF CancelDone
  <2>. QED
    BY <1>7, <2>1, <2>4 DEF CancelDone, TypeOK, batch, loop
<1>5. ASSUME NEW c \in Clients, CancelPending(c) PROVE TypeOK'
  <2>1. queue_requests' \in Seq(Request)
    BY <1>5, ErasedType DEF CancelPending, TypeOK
  <2>2. cancelling[c].id \in Ids
    BY <1>5, CancelType DEF CancelPending
  <2>. QED
    BY <1>5, <2>1, <2>2 DEF CancelPending, TypeOK, pool, batch, loop
<1>6. ASSUME NEW c \in Clients, CancelMissing(c) PROVE TypeOK'
  BY <1>6 DEF CancelMissing, TypeOK, pool, batch, loop
<1>. QED
  BY <1>1, <1>2, <1>3, <1>4, <1>5, <1>6, <1>7 DEF CancelEffect

(* The steps of process_pending_queue and build_batch on slot s.           *)
LEMMA PromptTypes ==
  ASSUME TypeOK, NEW s \in Slots,
         \/ Assign(s) \/ FailLoad(s)
         \/ PromptSlot(s) \/ FillText(s) \/ FillMedia(s) \/ FailMedia(s)
  PROVE  TypeOK'
<1>a. slot[s] \in SlotRecord
  BY DEF TypeOK
<1>. DEFINE q == Head(queue_requests)
<1>b. ASSUME queue_requests # <<>>
      PROVE  q \in Request /\ q.id \in Ids /\ q.shape \in Shape
             /\ Tail(queue_requests) \in Seq(Request)
  <2>1. q \in Request /\ Tail(queue_requests) \in Seq(Request)
    BY <1>b DEF TypeOK
  <2>. QED
    BY <2>1 DEF Request
<1>1. ASSUME Assign(s) PROVE TypeOK'
  <2>1. PICK n \in Reusable(s, q) : slot' = [slot EXCEPT ![s] = Loaded(s, q, n)]
    BY <1>1 DEF Assign
  <2>2. Loaded(s, q, n) \in SlotRecord
    BY <1>1, <1>b, LoadedType DEF Assign
  <2>3. slot' \in [Slots -> SlotRecord]
    BY <2>1, <2>2, SlotType
  <2>. QED
    BY <1>1, <1>b, <2>3 DEF Assign, TypeOK, caller, batch, loop
<1>2. ASSUME FailLoad(s) PROVE TypeOK'
  <2>a. /\ q.id \in Ids /\ q.shape.task \in Tasks
        /\ q.shape.sampler \in BOOLEAN /\ q.shape.checkpoint \in BOOLEAN
    BY <1>2, <1>b DEF FailLoad, Shape
  <2>1. LoadFailed(s, q) \in SlotRecord
    <3>. HIDE DEF q
    <3>. QED
      BY <1>a, <2>a, ZenonT(60) DEF LoadFailed, SlotRecord
  <2>2. slot' \in [Slots -> SlotRecord]
    BY <1>2, <2>1, SlotType DEF FailLoad
  <2>3. answers' \in [Ids -> Nat]
    BY <1>2, AnswerType DEF FailLoad
  <2>. QED
    BY <1>2, <1>b, <2>2, <2>3 DEF FailLoad, TypeOK, caller, batch, loop
<1>3. ASSUME PromptSlot(s) PROVE TypeOK'
  BY <1>3 DEF PromptSlot, TypeOK, PCs, caller, pool, batch
<1>4. ASSUME FillText(s) PROVE TypeOK'
  <2>1. Taken(s) \in Nat
    BY TakenType
  <2>2. Filled(s) \in SlotRecord
    <3>. DEFINE n == slot[s].n_past + Taken(s)
                st == IF n >= slot[s].num_prompt_tokens THEN "GENERATING" ELSE slot[s].state
    <3>1. n \in Nat
      BY <1>a, <2>1 DEF SlotRecord
    <3>2. st \in Avail \cup Busy
      BY <1>a DEF SlotRecord
    <3>3. Filled(s) = [slot[s] EXCEPT !.n_past = n, !.state = st]
      BY DEF Filled
    <3>. HIDE DEF n, st
    <3>. QED
      BY <1>a, <3>1, <3>2, <3>3 DEF SlotRecord
  <2>3. slot' \in [Slots -> SlotRecord]
    BY <1>4, <2>2, SlotType DEF FillText
  <2>4. n_tokens' \in Nat /\ scan' \in 1 .. NSlots + 1 /\ pc' \in PCs
    BY <1>4, <2>1 DEF FillText, TypeOK, PCs
  <2>. QED
    BY <1>4, <2>3, <2>4 DEF FillText, TypeOK, caller
<1>5. ASSUME FillMedia(s) PROVE TypeOK'
  <2>1. MediaFilled(s) \in SlotRecord
    BY <1>a DEF MediaFilled, SlotRecord
  <2>2. slot' \in [Slots -> SlotRecord]
    BY <1>5, <2>1, SlotType DEF FillMedia
  <2>. QED
    BY <1>5, <2>2 DEF FillMedia, TypeOK, PCs, caller, batch
<1>6. ASSUME FailMedia(s) PROVE TypeOK'
  <2>1. PICK n \in 0 .. slot[s].num_prompt_tokens : slot' = [slot EXCEPT ![s] = MediaFailed(s, n)]
    BY <1>6 DEF FailMedia
  <2>2. MediaFailed(s, n) \in SlotRecord
    <3>1. n \in Nat
      BY <1>a DEF SlotRecord
    <3>. QED
      BY <1>a, <3>1 DEF MediaFailed, SlotRecord
  <2>3. slot' \in [Slots -> SlotRecord]
    BY <2>1, <2>2, SlotType
  <2>4. answers' \in [Ids -> Nat]
    BY <1>6, AnswerType DEF FailMedia
  <2>. QED
    BY <1>6, <2>3, <2>4 DEF FailMedia, TypeOK, PCs, caller, batch
<1>. QED
  BY <1>1, <1>2, <1>3, <1>4, <1>5, <1>6

(* The steps of sample_and_callback and release_completed_slots, and those *)
(* after a failed decode, on slot s.                                       *)
LEMMA SampleTypes ==
  ASSUME TypeOK, NEW s \in Slots,
         \/ FailSlot(s) \/ SampleSkip(s) \/ SampleSlot(s)
         \/ EmitEog(s) \/ EmitLast(s) \/ EmitToken(s)
         \/ EmitEmbedding(s) \/ EmitScores(s) \/ NextDocument(s)
         \/ ReleaseSlot(s)
  PROVE  TypeOK'
<1>a. slot[s] \in SlotRecord
  BY DEF TypeOK
<1>b. [slot[s] EXCEPT !.state = "DONE"] \in SlotRecord
  BY <1>a DEF SlotRecord
<1>1. ASSUME FailSlot(s) PROVE TypeOK'
  <2>1. [slot[s] EXCEPT !.state = "DONE", !.incomplete = TRUE] \in SlotRecord
    BY <1>a DEF SlotRecord
  <2>2. slot' \in [Slots -> SlotRecord]
    BY <1>1, <2>1, SlotType DEF FailSlot
  <2>3. answers' \in [Ids -> Nat]
    BY <1>1, AnswerType DEF FailSlot, TypeOK
  <2>4. scan' \in 1 .. NSlots + 1 /\ UNCHANGED <<caller, batch, queue_requests,
                                                t_last_used, active_requests, pc>>
    BY <1>1 DEF FailSlot
  <2>. QED
    BY <2>2, <2>3, <2>4 DEF TypeOK, caller, batch
<1>2. ASSUME SampleSkip(s) PROVE TypeOK'
  <2>1. slot' \in [Slots -> SlotRecord]
    BY <1>2, <1>b, SlotType DEF SampleSkip
  <2>2. scan' \in 1 .. NSlots + 1 /\ UNCHANGED <<caller, batch, queue_requests,
                                      t_last_used, active_requests, pc, answers>>
    BY <1>2 DEF SampleSkip
  <2>. QED
    BY <2>1, <2>2 DEF TypeOK, caller, batch
<1>3. ASSUME SampleSlot(s) PROVE TypeOK'
  BY <1>3 DEF SampleSlot, TypeOK, PCs, caller, pool, batch
<1>c. ASSUME NEW task, Emitting(s, task),
             slot' \in [Slots -> SlotRecord], answers' \in [Ids -> Nat]
      PROVE  TypeOK'
  <2>1. pc' \in PCs /\ scan' \in 1 .. NSlots + 1
    BY <1>c DEF Emitting, PCs
  <2>2. UNCHANGED <<next_request_id, cancelling, cancelled, n_batch, n_tokens, queue_requests,
                    t_last_used, active_requests>>
    BY <1>c DEF Emitting, caller, batch
  <2>. QED
    BY <1>c, <2>1, <2>2 DEF TypeOK
<1>d. ASSUME NEW task, Emitting(s, task), Finish(s) PROVE TypeOK'
  <2>1. slot' \in [Slots -> SlotRecord]
    BY <1>d, <1>b, SlotType DEF Finish
  <2>2. answers' \in [Ids -> Nat]
    BY <1>d, AnswerType DEF Finish
  <2>. QED
    BY <1>d, <1>c, <2>1, <2>2
<1>4. ASSUME EmitEog(s) \/ EmitEmbedding(s) \/ EmitScores(s) PROVE TypeOK'
  BY <1>4, <1>d DEF EmitEog, EmitEmbedding, EmitScores
<1>e. ASSUME Emitting(s, "completion")
      PROVE  Sampled(s) \in SlotRecord /\ [Sampled(s) EXCEPT !.state = "DONE"] \in SlotRecord
  <2>. DEFINE text == slot[s].text \cup {slot[s].request_id}
              left == IF slot[s].n_remaining > 0 THEN slot[s].n_remaining - 1
                                                 ELSE slot[s].n_remaining
              n == slot[s].n_decoded + 1
  <2>1. text \in SUBSET (Ids \cup {0}) /\ left \in Nat /\ n \in Nat
    BY <1>a DEF SlotRecord
  <2>2. Sampled(s) = [slot[s] EXCEPT !.text = text, !.n_decoded = n,
                                     !.n_remaining = left]
    BY DEF Sampled
  <2>. HIDE DEF text, left, n
  <2>3. [slot[s] EXCEPT !.text = text, !.n_decoded = n, !.n_remaining = left] \in SlotRecord
    BY <1>a, <2>1 DEF SlotRecord
  <2>4. \A S \in SlotRecord : [S EXCEPT !.state = "DONE"] \in SlotRecord
    BY DEF SlotRecord
  <2>. QED
    BY <2>2, <2>3, <2>4
<1>5. ASSUME EmitLast(s) PROVE TypeOK'
  <2>1. slot' \in [Slots -> SlotRecord]
    BY <1>5, <1>e, SlotType DEF EmitLast
  <2>2. answers' \in [Ids -> Nat]
    BY <1>5, AnswerType DEF EmitLast
  <2>. QED
    BY <1>5, <1>c, <2>1, <2>2 DEF EmitLast
<1>6. ASSUME EmitToken(s) PROVE TypeOK'
  <2>1. slot' \in [Slots -> SlotRecord]
    BY <1>6, <1>e, SlotType DEF EmitToken
  <2>. QED
    BY <1>6, <1>c, <2>1 DEF EmitToken, TypeOK
<1>7. ASSUME NextDocument(s) PROVE TypeOK'
  <2>1. PICK n \in (IF slot[s].load THEN 0 .. slot[s].num_prompt_tokens - 1 ELSE {0}) :
               slot' = [slot EXCEPT ![s] = Reloaded(s, n)]
    BY <1>7 DEF NextDocument
  <2>2. n \in Nat /\ CheckpointTarget(slot[s].num_prompt_tokens) \in Nat
    BY <1>a DEF SlotRecord, CheckpointTarget
  <2>3. slot[s].docs - 1 \in Nat
    BY <1>7, <1>a DEF NextDocument, SlotRecord
  <2>4. Reloaded(s, n) \in SlotRecord
    <3>. DEFINE left == slot[s].docs - 1
                target == IF slot[s].save_prompt
                            THEN CheckpointTarget(slot[s].num_prompt_tokens) ELSE 0
    <3>1. left \in Nat /\ target \in Nat
      BY <2>2, <2>3
    <3>2. Reloaded(s, n) = [slot[s] EXCEPT !.state = "PROCESSING_PROMPT", !.docs = left,
                              !.n_past = n, !.n_decoded = 0, !.checkpoint = target]
      BY DEF Reloaded
    <3>. HIDE DEF left, target
    <3>3. [slot[s] EXCEPT !.state = "PROCESSING_PROMPT", !.docs = left, !.n_past = n,
                          !.n_decoded = 0, !.checkpoint = target] \in SlotRecord
      BY <1>a, <2>2, <3>1 DEF SlotRecord
    <3>. QED
      BY <3>2, <3>3
  <2>5. slot' \in [Slots -> SlotRecord]
    BY <2>1, <2>4, SlotType
  <2>. QED
    BY <1>7, <1>c, <2>5 DEF NextDocument, TypeOK
<1>8. ASSUME ReleaseSlot(s) PROVE TypeOK'
  <2>1. slot' \in [Slots -> SlotRecord]
    BY <1>8, FreshType, SlotType DEF ReleaseSlot, Reset
  <2>2. active_requests' \in [Ids -> Slots \cup {0}]
    BY <1>8 DEF ReleaseSlot, Untracked, TypeOK
  <2>3. t_last_used' \in [Slots -> Int]
    BY <1>8 DEF ReleaseSlot, Released, TypeOK
  <2>. QED
    BY <1>8, <2>1, <2>2, <2>3, SMTT(30) DEF ReleaseSlot, TypeOK, caller, batch
<1>. QED
  BY <1>1, <1>2, <1>3, <1>4, <1>5, <1>6, <1>7, <1>8

LEMMA TypeInit == Init => TypeOK
BY FreshType DEF Init, TypeOK, PCs, Request, NoCancel

LEMMA TypeStep == TypeOK /\ [Next]_vars => TypeOK'
<1>. SUFFICES ASSUME TypeOK, [Next]_vars PROVE TypeOK'
  OBVIOUS
<1>a. \A s \in Slots : slot[s] \in SlotRecord
  BY DEF TypeOK
<1>1. ASSUME BuildGenerating PROVE TypeOK'
  <2>1. \A s \in Slots : [slot[s] EXCEPT !.n_past = @ + 1] \in SlotRecord
    BY <1>a DEF SlotRecord
  <2>2. slot' \in [Slots -> SlotRecord]
    BY <1>1, <1>a, <2>1 DEF BuildGenerating
  <2>. QED
    BY <1>1, <2>2, ContinuingSize DEF BuildGenerating, TypeOK, PCs, caller
<1>2. ASSUME SaveCheckpoints PROVE TypeOK'
  <2>1. \A s \in Slots : [slot[s] EXCEPT !.checkpoint = 0] \in SlotRecord
    BY <1>a DEF SlotRecord
  <2>2. slot' \in [Slots -> SlotRecord]
    BY <1>2, <1>a, <2>1 DEF SaveCheckpoints
  <2>. QED
    BY <1>2, <2>2 DEF SaveCheckpoints, TypeOK, PCs, caller, batch
<1>3. ASSUME DecodeFails PROVE TypeOK'
  BY <1>3 DEF DecodeFails, TypeOK, PCs, caller, pool
<1>4. ASSUME PendingDone \/ CheckActive \/ PromptDone \/ Decode \/ FailDone
             \/ SampleDone \/ ReleaseDone \/ Loop \/ WakeUp
      PROVE  TypeOK'
  <2>1. pc' \in PCs /\ scan' \in 1 .. NSlots + 1
    BY <1>4 DEF PendingDone, CheckActive, PromptDone, Decode, FailDone,
                SampleDone, ReleaseDone, Loop, WakeUp, TypeOK, PCs
  <2>2. UNCHANGED <<caller, pool, batch, queue_requests, answers>>
    BY <1>4 DEF PendingDone, CheckActive, PromptDone, Decode, FailDone,
                SampleDone, ReleaseDone, Loop, WakeUp
  <2>. QED
    BY <2>1, <2>2 DEF TypeOK, caller, pool, batch
<1>5. ASSUME UNCHANGED vars PROVE TypeOK'
  BY <1>5 DEF TypeOK, vars, caller, pool, batch, loop
<1>. QED
  BY <1>1, <1>2, <1>3, <1>4, <1>5, CallerTypes, PromptTypes, SampleTypes
     DEF Next, Process, SlotStep

(* TypeOK: every field keeps its range; among others n_remaining and docs  *)
(* never go below zero, and the batch limit never above the one it was     *)
(* allocated with.                                                         *)
THEOREM TypeCorrect == Spec => []TypeOK
BY TypeInit, TypeStep, PTL DEF Spec
-----------------------------------------------------------------------------
(* Safety, by four inductive invariants: Placement (where a request is),   *)
(* Tracking (what a cancellation finds), Prefill (the prompt checkpoints)  *)
(* and Batching (the batch).                                               *)

rid(s) == slot[s].request_id

(* A request has been given out, and is waiting, in a slot, or neither.    *)
OneSlot == \A s, t \in Slots : s # t /\ rid(s) = rid(t) => rid(s) = 0
InSlot == \A s \in Slots : rid(s) # 0 => rid(s) < next_request_id /\ ~Queued(rid(s))
InService == \A s \in Slots : Held(s) => rid(s) # 0 /\ answers[rid(s)] = 0
InQueue == \A i \in DOMAIN queue_requests :
             queue_requests[i].id < next_request_id /\ answers[queue_requests[i].id] = 0
QueuedOnce == \A i, j \in DOMAIN queue_requests :
                queue_requests[i].id = queue_requests[j].id => i = j
NotYet == \A r \in Ids : r >= next_request_id => answers[r] = 0
Placement ==
  OneSlot /\ InSlot /\ InService /\ InQueue /\ QueuedOnce /\ NotYet /\ AnsweredAtMostOnce

(* A request that waits is known to nobody but the queue, and the id of a  *)
(* request that is served leads to no slot but its own.                    *)
EntryGiven == \A r \in Ids : active_requests[r] # 0 => r < next_request_id /\ ~Queued(r)
CancelledGiven == \A r \in cancelled : r < next_request_id /\ ~Queued(r)
LookupGiven == \A c \in Clients : /\ cancelling[c].id < next_request_id
                                  /\ cancelling[c].slot # 0 => ~Queued(cancelling[c].id)
EntryRight == \A s \in Slots : Held(s) => active_requests[rid(s)] \in {0, s}
LookupRight == \A c \in Clients, s \in Slots :
                 Held(s) /\ cancelling[c].id = rid(s) => cancelling[c].slot \in {0, s}
Tracking == EntryGiven /\ CancelledGiven /\ LookupGiven /\ EntryRight /\ LookupRight
            /\ Tracked /\ CancelledIsInterrupted

(* A call that has written the flag has its request counted as cancelled.  *)
Halfway == \A c \in Clients : cancelling[c].half =>
             cancelling[c].slot # 0 /\ cancelling[c].id \in cancelled

(* A slot generates once its prompt is in, and its checkpoint is saved     *)
(* before it is sampled.                                                   *)
Ready(S) == /\ S.checkpoint <= S.num_prompt_tokens
            /\ S.state = "GENERATING" => S.n_past >= S.num_prompt_tokens
            /\ S.checkpoint > 0 => S.n_decoded = 0
AllReady == \A s \in Slots : Ready(slot[s])
Filling == \A s \in Slots : pc = "fill" /\ scan = s => slot[s].state # "GENERATING"
Saved == pc \in {"sample", "emit"} =>
           \A s \in Slots : slot[s].state = "GENERATING" \/ InHand(s) => slot[s].checkpoint = 0
Prefill == AllReady /\ Filling /\ Saved
-----------------------------------------------------------------------------
(* Placement.                                                              *)

(* What most steps leave alone: no slot gets another request or is served  *)
(* again; no interrupt flag changes.                                       *)
SameRequests == \A t \in Slots : rid(t)' = rid(t) /\ (Held(t)' => Held(t))
SameFlags == \A t \in Slots : slot'[t].is_interrupted = slot[t].is_interrupted

LEMMA QueueTypes ==
  ASSUME TypeOK
  PROVE  /\ \A i \in DOMAIN queue_requests : queue_requests[i].id \in Ids
         /\ next_request_id \in Nat /\ \A r \in Ids : answers[r] \in Nat
         /\ \A s \in Slots : rid(s) \in Ids \cup {0}
<1>1. \A i \in DOMAIN queue_requests : queue_requests[i] \in Request
  BY DEF TypeOK
<1>2. \A i \in DOMAIN queue_requests : queue_requests[i].id \in Ids
  BY <1>1 DEF Request
<1>3. next_request_id \in Nat /\ \A r \in Ids : answers[r] \in Nat
  BY DEF TypeOK
<1>4. \A s \in Slots : slot[s] \in SlotRecord
  BY DEF TypeOK
<1>5. \A s \in Slots : rid(s) \in Ids \cup {0}
  BY <1>4 DEF SlotRecord, rid
<1>. QED
  BY <1>2, <1>3, <1>5

(* A step that answers nobody and serves no request that it did not serve. *)
LEMMA PlacementKept ==
  ASSUME TypeOK, Placement,
         UNCHANGED <<next_request_id, queue_requests, answers>>,
         SameRequests
  PROVE  Placement'
<1>1. \A r : Queued(r)' = Queued(r)
  BY DEF Queued
<1>2. OneSlot' /\ InSlot'
  BY <1>1 DEF SameRequests, Placement, OneSlot, InSlot
<1>3. InService'
  BY DEF SameRequests, Placement, InService
<1>4. InQueue' /\ QueuedOnce'
  BY DEF Placement, InQueue, QueuedOnce
<1>5. NotYet' /\ AnsweredAtMostOnce'
  BY DEF Placement, NotYet, AnsweredAtMostOnce
<1>. QED
  BY <1>2, <1>3, <1>4, <1>5 DEF Placement

(* A step that answers the request of slot s and stops serving it.         *)
LEMMA PlacementAnswered ==
  ASSUME TypeOK, Placement, NEW s \in Slots, Held(s), Answer(rid(s)), ~Held(s)',
         UNCHANGED <<next_request_id, queue_requests>>,
         SameRequests
  PROVE  Placement'
<1>1. \A r : Queued(r)' = Queued(r)
  BY DEF Queued
<1>2. rid(s) \in Ids /\ rid(s) < next_request_id /\ ~Queued(rid(s)) /\ answers[rid(s)] = 0
  BY QueueTypes DEF Placement, InService, InSlot
<1>3. \A r \in Ids : answers'[r] = IF r = rid(s) THEN 1 ELSE answers[r]
  BY <1>2 DEF Answer, TypeOK
<1>4. OneSlot' /\ InSlot'
  BY <1>1 DEF SameRequests, Placement, OneSlot, InSlot
<1>5. InService'
  <2>1. \A t \in Slots : Held(t)' => Held(t) /\ rid(t) \in Ids /\ rid(t) # rid(s)
    BY <1>2, QueueTypes DEF SameRequests, Placement, InService, OneSlot
  <2>. QED
    BY <1>3, <2>1 DEF SameRequests, Placement, InService
<1>6. InQueue' /\ QueuedOnce'
  <2>1. \A i \in DOMAIN queue_requests : queue_requests[i].id # rid(s)
    BY <1>2 DEF Queued
  <2>2. \A i \in DOMAIN queue_requests :
          answers'[queue_requests[i].id] = answers[queue_requests[i].id]
    BY <1>3, <2>1, QueueTypes
  <2>. QED
    BY <2>2 DEF Placement, InQueue, QueuedOnce
<1>7. NotYet' /\ AnsweredAtMostOnce'
  BY <1>2, <1>3, QueueTypes DEF Placement, NotYet, AnsweredAtMostOnce
<1>. QED
  BY <1>4, <1>5, <1>6, <1>7 DEF Placement

(* A step that replaces the record of slot s by one of the same request.   *)
LEMMA HeldOthers ==
  ASSUME TypeOK, NEW s \in Slots, NEW S, slot' = [slot EXCEPT ![s] = S],
         S.request_id = rid(s), S.is_interrupted = slot[s].is_interrupted,
         pc' \notin {"fill", "emit"}, S.state \in Busy => Held(s)
  PROVE  SameRequests /\ SameFlags /\ (S.state \notin Busy => ~Held(s)')
<1>1. slot'[s] = S /\ \A t \in Slots : t # s => slot'[t] = slot[t]
  BY DEF TypeOK
<1>. QED
  BY <1>1 DEF SameRequests, SameFlags, rid, Held, InHand

(* What cancel_request writes: the flag, then the state.                   *)
LEMMA CancelWrites ==
  ASSUME TypeOK, NEW c \in Clients, CancelInterrupt(c) \/ CancelDone(c)
  PROVE  LET s == cancelling[c].slot
         IN /\ s \in Slots /\ cancelling[c].id \in Ids
            /\ SameRequests /\ UNCHANGED <<pc, scan>>
            /\ \A t \in Slots : t # s => slot'[t] = slot[t]
            /\ CancelInterrupt(c) => slot'[s] = Interrupted(s) /\ Interrupted(s).is_interrupted
                                     /\ \A t \in Slots : slot'[t].state = slot[t].state
            /\ CancelDone(c) => slot'[s] = Stopped(s) /\ slot'[s].state = "DONE" /\ SameFlags
<1>. DEFINE s == cancelling[c].slot
<1>1. /\ s \in Slots /\ cancelling[c].id \in Ids /\ UNCHANGED <<pc, scan>>
      /\ slot' = [slot EXCEPT ![s] = Interrupted(s)] \/ slot' = [slot EXCEPT ![s] = Stopped(s)]
  BY CancelType DEF CancelInterrupt, CancelDone, loop
<1>2. slot[s] \in SlotRecord /\ DOMAIN slot = Slots
  BY <1>1 DEF TypeOK
<1>3. /\ Interrupted(s).request_id = slot[s].request_id /\ Interrupted(s).state = slot[s].state
      /\ Interrupted(s).is_interrupted
      /\ Stopped(s).request_id = slot[s].request_id /\ Stopped(s).state = "DONE"
      /\ Stopped(s).is_interrupted = slot[s].is_interrupted
  BY <1>2 DEF Interrupted, Stopped, SlotRecord
<1>4. ASSUME CancelInterrupt(c)
      PROVE  SameRequests /\ slot'[s] = Interrupted(s)
             /\ \A t \in Slots : slot'[t].state = slot[t].state
  <2>1. slot' = [slot EXCEPT ![s] = Interrupted(s)]
    BY <1>4 DEF CancelInterrupt
  <2>2. slot'[s] = Interrupted(s) /\ \A t \in Slots : t # s => slot'[t] = slot[t]
    BY <1>1, <1>2, <2>1
  <2>. HIDE DEF s
  <2>. QED
    BY <1>1, <1>3, <2>2 DEF SameRequests, rid, Held, InHand
<1>5. ASSUME CancelDone(c)
      PROVE  SameRequests /\ slot'[s] = Stopped(s) /\ SameFlags
  <2>1. slot' = [slot EXCEPT ![s] = Stopped(s)]
    BY <1>5 DEF CancelDone
  <2>2. slot'[s] = Stopped(s) /\ \A t \in Slots : t # s => slot'[t] = slot[t]
    BY <1>1, <1>2, <2>1
  <2>. HIDE DEF s
  <2>. QED
    BY <1>1, <1>3, <2>2 DEF SameRequests, SameFlags, rid, Held, InHand
<1>6. \A t \in Slots : t # s => slot'[t] = slot[t]
  BY <1>1, <1>2
<1>. QED
  BY <1>1, <1>3, <1>4, <1>5, <1>6

LEMMA PlacementCaller ==
  ASSUME TypeOK, Placement,
         \/ \E shape \in Shapes : QueueRequest(shape) \/ AnswerAtOnce(shape)
         \/ \E c \in Clients : CancelEffect(c) \/ \E r \in Ids : CancelLookup(c, r)
  PROVE  Placement'
<1>1. ASSUME NEW shape \in Shapes, QueueRequest(shape) PROVE Placement'
  <2>. DEFINE q == [id |-> next_request_id, shape |-> shape]
              n == Len(queue_requests)
  <2>1. /\ q.id = next_request_id
        /\ queue_requests' = Append(queue_requests, q)
        /\ next_request_id' = next_request_id + 1
        /\ UNCHANGED <<slot, pc, scan, answers>>
    BY <1>1 DEF QueueRequest, pool, loop
  <2>2. /\ n \in Nat /\ DOMAIN queue_requests = 1 .. n
        /\ DOMAIN queue_requests' = 1 .. n + 1
        /\ queue_requests'[n + 1] = q
        /\ \A i \in 1 .. n : queue_requests'[i] = queue_requests[i]
    BY <2>1 DEF TypeOK
  <2>. HIDE DEF q, n
  <2>3. \A r : Queued(r)' <=> Queued(r) \/ r = next_request_id
    BY <2>1, <2>2 DEF Queued
  <2>4. \A t \in Slots : rid(t)' = rid(t) /\ Held(t)' = Held(t)
    BY <2>1 DEF rid, Held, InHand
  <2>5. next_request_id \in Ids /\ answers[next_request_id] = 0
    BY <1>1, QueueTypes DEF QueueRequest, Placement, NotYet, TypeOK
  <2>6. OneSlot' /\ InSlot' /\ InService'
    BY <2>1, <2>3, <2>4, QueueTypes DEF Placement, OneSlot, InSlot, InService
  <2>7. InQueue'
    BY <2>1, <2>2, <2>5, QueueTypes DEF Placement, InQueue
  <2>8. QueuedOnce'
    BY <2>1, <2>2, QueueTypes DEF Placement, QueuedOnce, InQueue
  <2>9. NotYet' /\ AnsweredAtMostOnce'
    BY <2>1, QueueTypes DEF Placement, NotYet, AnsweredAtMostOnce
  <2>. QED
    BY <2>6, <2>7, <2>8, <2>9 DEF Placement
<1>2. ASSUME NEW shape \in Shapes, AnswerAtOnce(shape) PROVE Placement'
  <2>1. /\ next_request_id' = next_request_id + 1 /\ next_request_id \in Ids
        /\ UNCHANGED <<slot, pc, scan, queue_requests>>
    BY <1>2, QueueTypes DEF AnswerAtOnce, pool, loop, TypeOK
  <2>2. \A r \in Ids : answers'[r] = IF r = next_request_id THEN 1 ELSE answers[r]
    BY <1>2, QueueTypes DEF AnswerAtOnce, Answer, TypeOK, Placement, NotYet
  <2>3. \A t \in Slots : rid(t)' = rid(t) /\ Held(t)' = Held(t)
    BY <2>1 DEF rid, Held, InHand
  <2>4. \A r : Queued(r)' = Queued(r)
    BY <2>1 DEF Queued
  <2>5. OneSlot' /\ InSlot'
    BY <2>1, <2>3, <2>4, QueueTypes DEF Placement, OneSlot, InSlot
  <2>6. InService'
    BY <2>2, <2>3, QueueTypes DEF Placement, InSlot, InService
  <2>7. InQueue' /\ QueuedOnce'
    BY <2>1, <2>2, QueueTypes DEF Placement, InQueue, QueuedOnce
  <2>8. NotYet' /\ AnsweredAtMostOnce'
    BY <2>1, <2>2, QueueTypes DEF Placement, NotYet, AnsweredAtMostOnce
  <2>. QED
    BY <2>5, <2>6, <2>7, <2>8 DEF Placement
<1>3. ASSUME NEW c \in Clients, NEW r \in Ids, CancelLookup(c, r) PROVE Placement'
  BY <1>3, PlacementKept DEF CancelLookup, pool, loop, SameRequests, rid, Held, InHand
<1>4. ASSUME NEW c \in Clients, CancelInterrupt(c) \/ CancelDone(c) PROVE Placement'
  <2>1. SameRequests /\ UNCHANGED <<next_request_id, queue_requests, answers>>
    BY <1>4, CancelWrites DEF CancelInterrupt, CancelDone
  <2>. QED
    BY <2>1, PlacementKept
<1>5. ASSUME NEW c \in Clients, CancelPending(c) PROVE Placement'
  <2>1. PICK k \in DOMAIN queue_requests : queue_requests' = Erased(k)
    BY <1>5 DEF CancelPending
  <2>2. UNCHANGED <<slot, pc, scan, next_request_id, answers>>
    BY <1>5 DEF CancelPending, pool, loop
  <2>. DEFINE n == Len(queue_requests)
              at(j) == IF j < k THEN j ELSE j + 1
  <2>3. n \in Nat /\ DOMAIN queue_requests = 1 .. n /\ k \in 1 .. n
    BY <2>1 DEF TypeOK
  <2>4. /\ DOMAIN queue_requests' = 1 .. n - 1
        /\ \A j \in 1 .. n - 1 : at(j) \in 1 .. n /\ queue_requests'[j] = queue_requests[at(j)]
        /\ \A i, j \in 1 .. n - 1 : at(i) = at(j) => i = j
    BY <2>1, <2>3 DEF Erased
  <2>. HIDE DEF n, at
  <2>5. \A r : Queued(r)' => Queued(r)
    BY <2>3, <2>4 DEF Queued
  <2>6. \A t \in Slots : rid(t)' = rid(t) /\ Held(t)' = Held(t)
    BY <2>2 DEF rid, Held, InHand
  <2>7. OneSlot' /\ InSlot' /\ InService'
    BY <2>2, <2>5, <2>6 DEF Placement, OneSlot, InSlot, InService
  <2>8. InQueue' /\ QueuedOnce'
    BY <2>2, <2>3, <2>4 DEF Placement, InQueue, QueuedOnce
  <2>9. NotYet' /\ AnsweredAtMostOnce'
    BY <2>2 DEF Placement, NotYet, AnsweredAtMostOnce
  <2>. QED
    BY <2>7, <2>8, <2>9 DEF Placement
<1>6. ASSUME NEW c \in Clients, CancelMissing(c) PROVE Placement'
  BY <1>6, PlacementKept DEF CancelMissing, pool, loop, SameRequests, rid, Held, InHand
<1>. QED
  BY <1>1, <1>2, <1>3, <1>4, <1>5, <1>6 DEF CancelEffect

(* The request at the head of the queue enters slot s.                     *)
LEMMA PlacementEnter ==
  ASSUME TypeOK, Placement, NEW s \in Slots, queue_requests # <<>>, Oldest(s),
         pc \notin {"fill", "emit"}, pc' = pc, UNCHANGED next_request_id,
         NEW S, slot' = [slot EXCEPT ![s] = S],
         S.request_id = Head(queue_requests).id,
         queue_requests' = Tail(queue_requests),
         \/ S.state \in Busy /\ UNCHANGED answers
         \/ S.state \notin Busy /\ Answer(Head(queue_requests).id)
  PROVE  Placement'
<1>. DEFINE r == Head(queue_requests).id
            n == Len(queue_requests)
<1>1. /\ n \in Nat \ {0} /\ DOMAIN queue_requests = 1 .. n
      /\ r = queue_requests[1].id /\ r \in Ids
      /\ DOMAIN queue_requests' = 1 .. n - 1
      /\ \A i \in 1 .. n - 1 : queue_requests'[i] = queue_requests[i + 1]
  <2>1. queue_requests \in Seq(Request)
    BY DEF TypeOK
  <2>2. n \in Nat \ {0} /\ DOMAIN queue_requests = 1 .. n /\ r = queue_requests[1].id
    BY <2>1
  <2>3. /\ DOMAIN queue_requests' = 1 .. n - 1
        /\ \A i \in 1 .. n - 1 : queue_requests'[i] = queue_requests[i + 1]
    BY <2>1, <2>2
  <2>4. r \in Ids
    BY <2>2, QueueTypes
  <2>. QED
    BY <2>2, <2>3, <2>4
<1>2. /\ S.request_id = r
      /\ \/ S.state \in Busy /\ UNCHANGED answers
         \/ S.state \notin Busy /\ answers' = [answers EXCEPT ![r] = @ + 1]
  BY DEF Answer
<1>3. slot'[s] = S /\ \A t \in Slots : t # s => slot'[t] = slot[t]
  BY DEF TypeOK
<1>. HIDE DEF r, n
<1>4. r < next_request_id /\ answers[r] = 0 /\ Queued(r)
  BY <1>1 DEF Placement, InQueue, Queued
<1>5. \A x : Queued(x)' <=> Queued(x) /\ x # r
  <2>1. \A i \in 1 .. n : i # 1 => queue_requests[i].id # r
    BY <1>1 DEF Placement, QueuedOnce
  <2>2. ASSUME NEW x, NEW j \in 1 .. n - 1, queue_requests'[j].id = x
        PROVE  Queued(x) /\ x # r
    <3>1. j + 1 \in 1 .. n /\ j + 1 # 1 /\ queue_requests[j + 1].id = x
      BY <1>1, <2>2
    <3>. QED
      BY <1>1, <2>1, <3>1 DEF Queued
  <2>3. ASSUME NEW x, NEW i \in 1 .. n, queue_requests[i].id = x, x # r
        PROVE  Queued(x)'
    <3>1. i - 1 \in 1 .. n - 1 /\ queue_requests'[i - 1].id = x
      BY <1>1, <2>3
    <3>. QED
      BY <1>1, <3>1 DEF Queued
  <2>4. \A x : Queued(x)' => \E j \in 1 .. n - 1 : queue_requests'[j].id = x
    BY <1>1 DEF Queued
  <2>5. \A x : Queued(x) => \E i \in 1 .. n : queue_requests[i].id = x
    BY <1>1 DEF Queued
  <2>. QED
    BY <2>2, <2>3, <2>4, <2>5
<1>6. /\ rid(s)' = r /\ (Held(s)' => S.state \in Busy)
      /\ \A t \in Slots : t # s => rid(t)' = rid(t) /\ (Held(t)' => Held(t))
  BY <1>2, <1>3 DEF rid, Held, InHand
<1>7. \A t \in Slots : t # s => rid(t) # r
  BY <1>4, <1>1 DEF Placement, InSlot
<1>8. OneSlot' /\ InSlot'
  <2>1. OneSlot'
    BY <1>6, <1>7, <1>1 DEF Placement, OneSlot
  <2>2. InSlot'
    BY <1>4, <1>5, <1>6, <1>7 DEF Placement, InSlot
  <2>. QED
    BY <2>1, <2>2
<1>9. \A x \in Ids : x # r => answers'[x] = answers[x]
  BY <1>2, <1>1 DEF TypeOK
<1>10. InService'
  <2>1. Held(s)' => rid(s)' # 0 /\ answers'[rid(s)'] = 0
    BY <1>1, <1>2, <1>4, <1>6
  <2>2. ASSUME NEW t \in Slots, t # s, Held(t)' PROVE rid(t)' # 0 /\ answers'[rid(t)'] = 0
    BY <2>2, <1>6, <1>7, <1>9, QueueTypes DEF Placement, InService
  <2>. QED
    BY <2>1, <2>2 DEF InService
<1>11. InQueue' /\ QueuedOnce'
  <2>1. \A i \in 1 .. n : i # 1 => queue_requests[i].id # r /\ queue_requests[i].id \in Ids
    <3>1. \A i \in 1 .. n : queue_requests[i].id \in Ids
      BY <1>1, QueueTypes
    <3>2. 1 \in 1 .. n
      BY <1>1
    <3>. QED
      BY <1>1, <3>1, <3>2 DEF Placement, QueuedOnce
  <2>2. \A i \in 1 .. n - 1 : i + 1 \in 1 .. n /\ i + 1 # 1
    BY <1>1
  <2>3. InQueue'
    BY <1>1, <1>9, <2>1, <2>2 DEF Placement, InQueue
  <2>4. QueuedOnce'
    BY <1>1, <2>2 DEF Placement, QueuedOnce
  <2>. QED
    BY <2>3, <2>4
<1>12. NotYet' /\ AnsweredAtMostOnce'
  <2>1. answers'[r] <= 1
    BY <1>1, <1>2, <1>4 DEF TypeOK
  <2>2. AnsweredAtMostOnce'
    BY <1>9, <2>1 DEF Placement, AnsweredAtMostOnce
  <2>3. ~(r >= next_request_id)
    BY <1>1, <1>4, QueueTypes
  <2>. QED
    BY <1>9, <2>2, <2>3 DEF Placement, NotYet
<1>. QED
  BY <1>8, <1>10, <1>11, <1>12 DEF Placement

(* What a step that serves slot s or none leaves alone.                    *)
Untouched == UNCHANGED <<next_request_id, cancelling, cancelled, queue_requests, active_requests>>
Kept == Untouched /\ SameRequests /\ SameFlags /\ UNCHANGED answers

(* Every step on a slot but those that move a request in or out keeps the  *)
(* requests, and may answer the one of the slot when it ends.              *)
LEMMA Serving ==
  ASSUME TypeOK, NEW s \in Slots,
         \/ PromptSlot(s) \/ FillText(s) \/ FillMedia(s) \/ FailMedia(s) \/ FailSlot(s)
         \/ SampleSkip(s) \/ SampleSlot(s) \/ EmitEog(s) \/ EmitLast(s) \/ EmitToken(s)
         \/ EmitEmbedding(s) \/ EmitScores(s) \/ NextDocument(s)
  PROVE  \/ Kept
         \/ Untouched /\ SameRequests /\ SameFlags /\ Held(s) /\ Answer(rid(s)) /\ ~Held(s)'
<1>. DEFINE Answered ==
       Untouched /\ SameRequests /\ SameFlags /\ Held(s) /\ Answer(rid(s)) /\ ~Held(s)'
<1>a. slot[s] \in SlotRecord /\ rid(s) = slot[s].request_id
  BY DEF TypeOK, rid
<1>b. /\ [slot[s] EXCEPT !.state = "DONE"].request_id = rid(s)
      /\ [slot[s] EXCEPT !.state = "DONE"].is_interrupted = slot[s].is_interrupted
      /\ [slot[s] EXCEPT !.state = "DONE"].state = "DONE"
  BY <1>a DEF SlotRecord
<1>1. ASSUME PromptSlot(s) PROVE Kept \/ Answered
  <2>1. SameRequests /\ SameFlags
    BY <1>1 DEF PromptSlot, Next_slot, pool, SameRequests, SameFlags, rid, Held, InHand
  <2>. QED
    BY <1>1, <2>1 DEF Kept, Untouched, PromptSlot, caller, pool
<1>2. ASSUME FillText(s) PROVE Kept \/ Answered
  <2>1. Filled(s).request_id = rid(s) /\ Filled(s).is_interrupted = slot[s].is_interrupted
    <3>1. \A n, st : LET S == [slot[s] EXCEPT !.n_past = n, !.state = st]
                     IN S.request_id = rid(s) /\ S.is_interrupted = slot[s].is_interrupted
      BY <1>a DEF SlotRecord
    <3>. QED
      BY <3>1 DEF Filled
  <2>2. SameRequests /\ SameFlags
    BY <1>2, <2>1, HeldOthers DEF FillText, Held, InHand
  <2>. QED
    BY <1>2, <2>2 DEF Kept, Untouched, FillText, caller
<1>3. ASSUME FillMedia(s) PROVE Kept \/ Answered
  <2>1. /\ MediaFilled(s).request_id = rid(s)
        /\ MediaFilled(s).is_interrupted = slot[s].is_interrupted
    BY <1>a DEF MediaFilled, SlotRecord
  <2>2. SameRequests /\ SameFlags
    BY <1>3, <2>1, HeldOthers DEF FillMedia, Held, InHand
  <2>. QED
    BY <1>3, <2>2 DEF Kept, Untouched, FillMedia, caller
<1>4. ASSUME FailMedia(s) PROVE Kept \/ Answered
  <2>1. PICK n \in 0 .. slot[s].num_prompt_tokens : slot' = [slot EXCEPT ![s] = MediaFailed(s, n)]
    BY <1>4 DEF FailMedia
  <2>2. /\ MediaFailed(s, n).request_id = rid(s)
        /\ MediaFailed(s, n).is_interrupted = slot[s].is_interrupted
        /\ MediaFailed(s, n).state = "DONE"
    BY <1>a DEF MediaFailed, SlotRecord
  <2>3. Held(s) /\ Answer(rid(s)) /\ pc' = "prompt"
    BY <1>4 DEF FailMedia, Held, InHand, rid
  <2>4. ~Held(s)' /\ SameRequests /\ SameFlags
    BY <2>1, <2>2, <2>3, HeldOthers
  <2>. QED
    BY <1>4, <2>3, <2>4 DEF Answered, Untouched, FailMedia, caller
<1>5. ASSUME FailSlot(s) PROVE Kept \/ Answered
  <2>. DEFINE S == [slot[s] EXCEPT !.state = "DONE", !.incomplete = TRUE]
  <2>1. S.request_id = rid(s) /\ S.is_interrupted = slot[s].is_interrupted /\ S.state = "DONE"
    BY <1>a DEF SlotRecord
  <2>2. slot' = [slot EXCEPT ![s] = S] /\ pc' = "failed" /\ Held(s)
    BY <1>5 DEF FailSlot, Next_slot, Held
  <2>. HIDE DEF S
  <2>3. ~Held(s)' /\ SameRequests /\ SameFlags
    BY <2>1, <2>2, HeldOthers
  <2>4. CASE slot[s].task_type = "completion"
    BY <1>5, <2>2, <2>3, <2>4 DEF Answered, Untouched, FailSlot, caller, rid
  <2>5. CASE slot[s].task_type # "completion"
    BY <1>5, <2>2, <2>3, <2>5 DEF Kept, Untouched, FailSlot, caller
  <2>. QED
    BY <2>4, <2>5
<1>6. ASSUME SampleSkip(s) PROVE Kept \/ Answered
  <2>1. slot' = [slot EXCEPT ![s] = [slot[s] EXCEPT !.state = "DONE"]] /\ pc' = "sample"
    BY <1>6 DEF SampleSkip
  <2>2. SameRequests /\ SameFlags
    BY <1>b, <2>1, HeldOthers
  <2>. QED
    BY <1>6, <2>2 DEF Kept, Untouched, SampleSkip, caller
<1>7. ASSUME SampleSlot(s) PROVE Kept \/ Answered
  <2>1. SameRequests /\ SameFlags
    BY <1>7 DEF SampleSlot, Next_slot, pool, SameRequests, SameFlags, rid, Held, InHand
  <2>. QED
    BY <1>7, <2>1 DEF Kept, Untouched, SampleSlot, caller, pool
<1>c. ASSUME NEW task, Emitting(s, task)
      PROVE  Held(s) /\ pc' = "sample" /\ Untouched
  BY <1>c DEF Emitting, Untouched, Held, InHand, caller
<1>d. ASSUME NEW task, Emitting(s, task), Finish(s) PROVE Kept \/ Answered
  <2>1. slot' = [slot EXCEPT ![s] = [slot[s] EXCEPT !.state = "DONE"]] /\ Answer(rid(s))
    BY <1>d DEF Finish, rid
  <2>2. ~Held(s)' /\ SameRequests /\ SameFlags
    BY <1>b, <1>c, <1>d, <2>1, HeldOthers
  <2>. QED
    BY <1>c, <1>d, <2>1, <2>2 DEF Answered, Untouched
<1>8. ASSUME EmitEog(s) \/ EmitEmbedding(s) \/ EmitScores(s) PROVE Kept \/ Answered
  BY <1>8, <1>d DEF EmitEog, EmitEmbedding, EmitScores
<1>e. Sampled(s).request_id = rid(s) /\ Sampled(s).is_interrupted = slot[s].is_interrupted
      /\ [Sampled(s) EXCEPT !.state = "DONE"].request_id = rid(s)
      /\ [Sampled(s) EXCEPT !.state = "DONE"].is_interrupted = slot[s].is_interrupted
      /\ [Sampled(s) EXCEPT !.state = "DONE"].state = "DONE"
  BY <1>a DEF Sampled, SlotRecord
<1>9. ASSUME EmitLast(s) PROVE Kept \/ Answered
  <2>1. slot' = [slot EXCEPT ![s] = [Sampled(s) EXCEPT !.state = "DONE"]] /\ Answer(rid(s))
        /\ Emitting(s, "completion")
    BY <1>9 DEF EmitLast, rid
  <2>2. ~Held(s)' /\ SameRequests /\ SameFlags
    BY <1>c, <1>e, <2>1, HeldOthers
  <2>. QED
    BY <1>c, <2>1, <2>2 DEF Answered, Untouched
<1>10. ASSUME EmitToken(s) PROVE Kept \/ Answered
  <2>1. slot' = [slot EXCEPT ![s] = Sampled(s)] /\ Emitting(s, "completion")
        /\ UNCHANGED answers
    BY <1>10 DEF EmitToken
  <2>2. SameRequests /\ SameFlags
    BY <1>c, <1>e, <2>1, HeldOthers
  <2>. QED
    BY <1>c, <2>1, <2>2 DEF Kept, Untouched
<1>11. ASSUME NextDocument(s) PROVE Kept \/ Answered
  <2>1. PICK n : slot' = [slot EXCEPT ![s] = Reloaded(s, n)]
    BY <1>11 DEF NextDocument
  <2>2. Emitting(s, "rerank") /\ UNCHANGED answers
    BY <1>11 DEF NextDocument
  <2>3. /\ Reloaded(s, n).request_id = rid(s)
        /\ Reloaded(s, n).is_interrupted = slot[s].is_interrupted
    BY <1>a DEF Reloaded, SlotRecord
  <2>4. SameRequests /\ SameFlags
    BY <1>c, <2>1, <2>2, <2>3, HeldOthers
  <2>. QED
    BY <1>c, <2>2, <2>4 DEF Kept, Untouched
<1>. QED
  BY <1>1, <1>2, <1>3, <1>4, <1>5, <1>6, <1>7, <1>8, <1>9, <1>10, <1>11

LEMMA PlacementSlot ==
  ASSUME TypeOK, Placement, NEW s \in Slots, SlotStep(s)
  PROVE  Placement'
<1>a. slot[s] \in SlotRecord /\ rid(s) = slot[s].request_id
  BY DEF TypeOK, rid
<1>1. ASSUME Assign(s) PROVE Placement'
  <2>1. PICK n \in Reusable(s, Head(queue_requests)) :
               slot' = [slot EXCEPT ![s] = Loaded(s, Head(queue_requests), n)]
    BY <1>1 DEF Assign
  <2>2. /\ Loaded(s, Head(queue_requests), n).request_id = Head(queue_requests).id
        /\ Loaded(s, Head(queue_requests), n).state \in Busy
    BY DEF Loaded
  <2>. QED
    BY <1>1, <2>1, <2>2, PlacementEnter DEF Assign, caller, loop
<1>2. ASSUME FailLoad(s) PROVE Placement'
  <2>1. /\ LoadFailed(s, Head(queue_requests)).request_id = Head(queue_requests).id
        /\ LoadFailed(s, Head(queue_requests)).state \notin Busy
    BY <1>a DEF LoadFailed, SlotRecord
  <2>. QED
    BY <1>2, <2>1, PlacementEnter DEF FailLoad, caller, loop
<1>3. ASSUME ReleaseSlot(s) PROVE Placement'
  <2>1. /\ slot'[s] = Fresh /\ \A t \in Slots : t # s => slot'[t] = slot[t]
        /\ pc' = "release" /\ UNCHANGED <<next_request_id, queue_requests, answers>>
    BY <1>3 DEF ReleaseSlot, Reset, TypeOK, caller
  <2>2. rid(s)' = 0 /\ ~Held(s)'
    BY <2>1 DEF Fresh, rid, Held, InHand
  <2>3. \A t \in Slots : t # s => rid(t)' = rid(t) /\ (Held(t)' => Held(t))
    BY <2>1 DEF rid, Held, InHand
  <2>4. \A r : Queued(r)' = Queued(r)
    BY <2>1 DEF Queued
  <2>5. OneSlot' /\ InSlot' /\ InService'
    BY <2>1, <2>2, <2>3, <2>4 DEF Placement, OneSlot, InSlot, InService
  <2>6. InQueue' /\ QueuedOnce' /\ NotYet' /\ AnsweredAtMostOnce'
    BY <2>1 DEF Placement, InQueue, QueuedOnce, NotYet, AnsweredAtMostOnce
  <2>. QED
    BY <2>5, <2>6 DEF Placement
<1>4. ASSUME ~Assign(s), ~FailLoad(s), ~ReleaseSlot(s) PROVE Placement'
  BY <1>4, Serving, PlacementKept, PlacementAnswered DEF SlotStep, Kept, Untouched
<1>. QED
  BY <1>1, <1>2, <1>3, <1>4

(* The steps that touch no request at all.                                 *)
LEMMA Idling ==
  ASSUME TypeOK,
         \/ BuildGenerating \/ SaveCheckpoints \/ UNCHANGED vars
         \/ PendingDone \/ CheckActive \/ PromptDone \/ Decode \/ DecodeFails
         \/ FailDone \/ SampleDone \/ ReleaseDone \/ Loop \/ WakeUp
  PROVE  Kept
<1>1. ASSUME \/ PendingDone \/ CheckActive \/ PromptDone \/ Decode \/ DecodeFails
             \/ FailDone \/ SampleDone \/ ReleaseDone \/ Loop \/ WakeUp
      PROVE  Kept
  <2>1. Untouched /\ UNCHANGED <<slot, answers>> /\ pc' \notin {"fill", "emit"}
    BY <1>1 DEF PendingDone, CheckActive, PromptDone, Decode, DecodeFails, FailDone,
                SampleDone, ReleaseDone, Loop, WakeUp, caller, pool, Untouched
  <2>. QED
    BY <2>1 DEF Kept, SameRequests, SameFlags, rid, Held, InHand
<1>2. ASSUME BuildGenerating \/ SaveCheckpoints PROVE Kept
  <2>1. \A t \in Slots : /\ slot'[t].request_id = slot[t].request_id
                         /\ slot'[t].state = slot[t].state
                         /\ slot'[t].is_interrupted = slot[t].is_interrupted
    <3>1. \A t \in Slots : slot[t] \in SlotRecord
      BY DEF TypeOK
    <3>2. CASE BuildGenerating
      BY <3>1, <3>2 DEF BuildGenerating, SlotRecord
    <3>3. CASE SaveCheckpoints
      BY <3>1, <3>3 DEF SaveCheckpoints, SlotRecord
    <3>. QED
      BY <1>2, <3>2, <3>3
  <2>2. Untouched /\ UNCHANGED answers /\ pc' \notin {"fill", "emit"}
    BY <1>2 DEF BuildGenerating, SaveCheckpoints, caller, Untouched
  <2>. QED
    BY <2>1, <2>2 DEF Kept, SameRequests, SameFlags, rid, Held, InHand
<1>3. ASSUME UNCHANGED vars PROVE Kept
  BY <1>3 DEF vars, caller, pool, loop, Kept, Untouched, SameRequests, SameFlags,
              rid, Held, InHand
<1>. QED
  BY <1>1, <1>2, <1>3

LEMMA PlacementStep == TypeOK /\ Placement /\ [Next]_vars => Placement'
BY Idling, PlacementKept, PlacementCaller, PlacementSlot DEF Next, Process, Kept, Untouched

LEMMA PlacementInit == Init => Placement
BY DEF Init, Fresh, Placement, OneSlot, InSlot, InService, InQueue, QueuedOnce, NotYet,
       AnsweredAtMostOnce, rid, Held, InHand, Queued

LEMMA Placed == Spec => [](TypeOK /\ Placement)
BY TypeInit, TypeStep, PlacementInit, PlacementStep, PTL DEF Spec

(* No request gets a second final callback, however decode failures, load  *)
(* failures and cancellations fall.                                        *)
THEOREM AnsweredOnce == Spec => []AnsweredAtMostOnce
BY Placed, PTL DEF Placement

(* A request waits in one queue entry or is served by one slot, and has    *)
(* not been answered as long as it is.                                     *)
THEOREM InOnePlace == Spec => []OnePlace
<1>1. TypeOK /\ Placement => OnePlace
  <2>. SUFFICES ASSUME TypeOK, Placement PROVE OnePlace
    OBVIOUS
  <2>1. \A s, t \in Slots : Held(s) /\ Held(t) /\ slot[s].request_id = slot[t].request_id => s = t
    BY DEF Placement, OneSlot, InService, rid
  <2>2. \A s \in Slots : Held(s) => ~Queued(slot[s].request_id) /\ answers[slot[s].request_id] = 0
    BY DEF Placement, InSlot, InService, rid
  <2>. QED
    BY <2>1, <2>2 DEF OnePlace, Placement, InQueue, QueuedOnce
<1>. QED
  BY <1>1, Placed, PTL
-----------------------------------------------------------------------------
(* Tracking.                                                               *)

LEMMA TrackingKept ==
  ASSUME TypeOK, Tracking, Untouched, SameRequests, SameFlags
  PROVE  Tracking'
<1>1. \A r : Queued(r)' = Queued(r)
  BY DEF Untouched, Queued
<1>2. EntryGiven' /\ CancelledGiven' /\ LookupGiven'
  BY <1>1 DEF Untouched, Tracking, EntryGiven, CancelledGiven, LookupGiven
<1>3. EntryRight' /\ LookupRight'
  BY DEF Untouched, SameRequests, Tracking, EntryRight, LookupRight
<1>4. Tracked' /\ CancelledIsInterrupted'
  BY DEF Untouched, SameRequests, SameFlags, Tracking, Tracked, CancelledIsInterrupted, rid
<1>. QED
  BY <1>2, <1>3, <1>4 DEF Tracking

LEMMA TrackingCaller ==
  ASSUME TypeOK, Placement, Halfway, Tracking,
         \/ \E shape \in Shapes : QueueRequest(shape) \/ AnswerAtOnce(shape)
         \/ \E c \in Clients : CancelEffect(c) \/ \E r \in Ids : CancelLookup(c, r)
  PROVE  Tracking'
<1>a. ASSUME UNCHANGED <<slot, pc, scan>> PROVE SameRequests /\ SameFlags
  BY <1>a DEF SameRequests, SameFlags, rid, Held, InHand
<1>b. /\ \A c \in Clients : cancelling[c].id \in Nat
      /\ \A s \in Slots : Held(s) => rid(s) \in Ids /\ rid(s) < next_request_id /\ ~Queued(rid(s))
  <2>1. \A c \in Clients : cancelling[c].id \in Nat
    BY CancelType
  <2>2. \A s \in Slots : Held(s) => rid(s) \in Ids /\ rid(s) < next_request_id /\ ~Queued(rid(s))
    BY QueueTypes DEF Placement, InSlot, InService
  <2>. QED
    BY <2>1, <2>2
<1>1. ASSUME NEW shape \in Shapes, QueueRequest(shape) \/ AnswerAtOnce(shape) PROVE Tracking'
  <2>1. /\ next_request_id' = next_request_id + 1
        /\ UNCHANGED <<slot, active_requests, pc, scan, cancelling, cancelled>>
    BY <1>1 DEF QueueRequest, AnswerAtOnce, pool, loop
  <2>2. \A r : Queued(r)' => Queued(r) \/ r = next_request_id
    <3>1. CASE QueueRequest(shape)
      <4>. DEFINE q == [id |-> next_request_id, shape |-> shape]
      <4>1. queue_requests' = Append(queue_requests, q) /\ queue_requests \in Seq(Request)
        BY <3>1 DEF QueueRequest, TypeOK
      <4>2. q.id = next_request_id
        OBVIOUS
      <4>. HIDE DEF q
      <4>3. \A i \in DOMAIN queue_requests' :
              queue_requests'[i] = q \/ \E j \in DOMAIN queue_requests : queue_requests'[i] = queue_requests[j]
        BY <4>1
      <4>. QED
        BY <4>2, <4>3 DEF Queued
    <3>2. CASE AnswerAtOnce(shape)
      BY <3>2 DEF AnswerAtOnce, Queued
    <3>. QED
      BY <1>1, <3>1, <3>2
  <2>3. SameRequests /\ SameFlags
    BY <2>1, <1>a
  <2>4. EntryGiven' /\ CancelledGiven' /\ LookupGiven'
    <3>1. next_request_id \in Nat /\ cancelled \subseteq Ids
      BY DEF TypeOK
    <3>2. EntryGiven'
      BY <2>1, <2>2, <3>1 DEF Tracking, EntryGiven
    <3>3. CancelledGiven'
      BY <2>1, <2>2, <3>1 DEF Tracking, CancelledGiven
    <3>4. \A c \in Clients : cancelling[c].id < next_request_id + 1
                             /\ cancelling[c].id # next_request_id
      BY <3>1, <1>b DEF Tracking, LookupGiven
    <3>5. LookupGiven'
      BY <2>1, <2>2, <3>4 DEF Tracking, LookupGiven
    <3>. QED
      BY <3>2, <3>3, <3>5
  <2>5. EntryRight' /\ LookupRight' /\ Tracked' /\ CancelledIsInterrupted'
    BY <2>1, <2>3 DEF SameRequests, SameFlags, Tracking, EntryRight, LookupRight, Tracked,
                      CancelledIsInterrupted, rid
  <2>. QED
    BY <2>4, <2>5 DEF Tracking
<1>2. ASSUME NEW c \in Clients, NEW r \in Ids, CancelLookup(c, r) PROVE Tracking'
  <2>1. /\ r < next_request_id
        /\ cancelling' = [cancelling EXCEPT ![c] = [id |-> r, slot |-> active_requests[r],
                                                    half |-> FALSE]]
        /\ UNCHANGED <<slot, active_requests, pc, scan, next_request_id, cancelled, queue_requests>>
    BY <1>2 DEF CancelLookup, pool, loop
  <2>2. /\ \A d \in Clients : d # c => cancelling'[d] = cancelling[d]
        /\ cancelling'[c].id = r /\ cancelling'[c].slot = active_requests[r]
    BY <2>1 DEF TypeOK
  <2>3. (\A x : Queued(x)' = Queued(x)) /\ SameRequests /\ SameFlags
    BY <2>1, <1>a DEF Queued
  <2>4. EntryGiven' /\ CancelledGiven' /\ LookupGiven'
    BY <2>1, <2>2, <2>3 DEF Tracking, EntryGiven, CancelledGiven, LookupGiven
  <2>5. EntryRight' /\ LookupRight'
    BY <2>1, <2>2, <2>3 DEF SameRequests, Tracking, EntryRight, LookupRight
  <2>6. Tracked' /\ CancelledIsInterrupted'
    BY <2>1, <2>3 DEF SameRequests, SameFlags, Tracking, Tracked, CancelledIsInterrupted, rid
  <2>. QED
    BY <2>4, <2>5, <2>6 DEF Tracking
<1>3. ASSUME NEW c \in Clients, CancelInterrupt(c) PROVE Tracking'
  <2>. DEFINE s == cancelling[c].slot
              r == cancelling[c].id
  <2>1. /\ s \in Slots /\ r \in Ids /\ SameRequests /\ slot'[s].is_interrupted
        /\ \A t \in Slots : t # s => slot'[t] = slot[t]
    BY <1>3, CancelWrites
  <2>2. /\ cancelled' = cancelled \cup {r}
        /\ UNCHANGED <<next_request_id, queue_requests, active_requests>>
    BY <1>3 DEF CancelInterrupt
  <2>3. \A d \in Clients : /\ cancelling'[d].id = cancelling[d].id
                           /\ cancelling'[d].slot = cancelling[d].slot
    <3>1. cancelling[c] \in Cancel /\ DOMAIN cancelling = Clients
      BY <1>3, CancelType DEF CancelInterrupt, TypeOK
    <3>2. cancelling' = [cancelling EXCEPT ![c].half = TRUE]
      BY <1>3 DEF CancelInterrupt
    <3>3. [cancelling[c] EXCEPT !.half = TRUE].id = cancelling[c].id
          /\ [cancelling[c] EXCEPT !.half = TRUE].slot = cancelling[c].slot
      BY <3>1 DEF Cancel
    <3>. QED
      BY <3>1, <3>2, <3>3
  <2>4. \A t \in Slots : Held(t) /\ rid(t) = r => t = s
    BY <2>1 DEF Tracking, LookupRight
  <2>5. \A x : Queued(x)' = Queued(x)
    BY <2>2 DEF Queued
  <2>6. r < next_request_id /\ ~Queued(r)
    <3>1. LookupGiven /\ s # 0
      BY <2>1 DEF Tracking
    <3>. QED
      BY <3>1 DEF LookupGiven
  <2>. HIDE DEF s, r
  <2>7. EntryGiven' /\ CancelledGiven' /\ LookupGiven'
    BY <2>2, <2>3, <2>5, <2>6 DEF Tracking, EntryGiven, CancelledGiven, LookupGiven
  <2>8. EntryRight' /\ LookupRight'
    BY <2>1, <2>2, <2>3 DEF SameRequests, Tracking, EntryRight, LookupRight
  <2>9. Tracked'
    BY <2>1, <2>2 DEF SameRequests, Tracking, Tracked, rid
  <2>10. CancelledIsInterrupted'
    BY <2>1, <2>2, <2>4 DEF SameRequests, Tracking, CancelledIsInterrupted, rid
  <2>. QED
    BY <2>7, <2>8, <2>9, <2>10 DEF Tracking
<1>6. ASSUME NEW c \in Clients, CancelDone(c) PROVE Tracking'
  <2>. DEFINE s == cancelling[c].slot
              r == cancelling[c].id
  <2>1. s \in Slots /\ r \in Ids /\ SameRequests /\ SameFlags
    BY <1>6, CancelWrites
  <2>2. /\ active_requests' = [active_requests EXCEPT ![r] = 0]
        /\ cancelling' = [cancelling EXCEPT ![c] = NoCancel]
        /\ UNCHANGED <<next_request_id, queue_requests, cancelled>>
    BY <1>6 DEF CancelDone
  <2>3. r \in cancelled
    BY <1>6 DEF CancelDone, Halfway
  <2>4. /\ active_requests'[r] = 0
        /\ \A x \in Ids : x # r => active_requests'[x] = active_requests[x]
        /\ cancelling'[c].id = 0 /\ cancelling'[c].slot = 0
        /\ \A d \in Clients : d # c => cancelling'[d] = cancelling[d]
    BY <2>1, <2>2 DEF TypeOK, NoCancel
  <2>5. \A x : Queued(x)' = Queued(x)
    BY <2>2 DEF Queued
  <2>. HIDE DEF s, r
  <2>6. EntryGiven' /\ CancelledGiven'
    BY <2>2, <2>4, <2>5 DEF Tracking, EntryGiven, CancelledGiven
  <2>7. LookupGiven'
    <3>1. 0 < next_request_id
      BY DEF TypeOK
    <3>. QED
      BY <2>2, <2>4, <2>5, <3>1 DEF Tracking, LookupGiven
  <2>8. EntryRight' /\ LookupRight'
    BY <1>b, <2>1, <2>4 DEF SameRequests, Tracking, EntryRight, LookupRight
  <2>9. Tracked'
    BY <1>b, <2>1, <2>3, <2>4 DEF SameRequests, SameFlags, Tracking, Tracked,
                                  CancelledIsInterrupted, rid
  <2>10. CancelledIsInterrupted'
    BY <2>1, <2>2 DEF SameRequests, SameFlags, Tracking, CancelledIsInterrupted, rid
  <2>. QED
    BY <2>6, <2>7, <2>8, <2>9, <2>10 DEF Tracking
<1>4. ASSUME NEW c \in Clients, CancelPending(c) PROVE Tracking'
  <2>. DEFINE r == cancelling[c].id
  <2>1. PICK k \in DOMAIN queue_requests : queue_requests[k].id = r /\ queue_requests' = Erased(k)
    BY <1>4 DEF CancelPending
  <2>2. /\ cancelled' = cancelled \cup {r} /\ cancelling' = [cancelling EXCEPT ![c] = NoCancel]
        /\ UNCHANGED <<slot, pc, scan, next_request_id, active_requests>>
    BY <1>4 DEF CancelPending, pool, loop
  <2>3. cancelling'[c].id = 0 /\ cancelling'[c].slot = 0
        /\ \A d \in Clients : d # c => cancelling'[d] = cancelling[d]
    BY <2>2 DEF TypeOK, NoCancel
  <2>4. \A x : Queued(x)' => Queued(x) /\ x # r
    <3>. DEFINE n == Len(queue_requests)
    <3>1. n \in Nat /\ DOMAIN queue_requests = 1 .. n /\ k \in 1 .. n
      BY <2>1 DEF TypeOK
    <3>2. /\ DOMAIN queue_requests' = 1 .. n - 1
          /\ \A j \in 1 .. n - 1 : \E i \in 1 .. n : i # k /\ queue_requests'[j] = queue_requests[i]
      <4>1. DOMAIN queue_requests' = 1 .. n - 1
        BY <2>1, <3>1 DEF Erased
      <4>2. ASSUME NEW j \in 1 .. n - 1
            PROVE  \E i \in 1 .. n : i # k /\ queue_requests'[j] = queue_requests[i]
        <5>1. queue_requests'[j] = queue_requests[IF j < k THEN j ELSE j + 1]
          BY <2>1, <3>1 DEF Erased
        <5>. QED
          BY <3>1, <5>1
      <4>. QED
        BY <4>1, <4>2
    <3>3. \A i \in 1 .. n : i # k => queue_requests[i].id # r
      BY <2>1, <3>1 DEF Placement, QueuedOnce
    <3>. HIDE DEF n
    <3>. QED
      BY <3>1, <3>2, <3>3 DEF Queued
  <2>5. Queued(r) /\ r < next_request_id
    BY <2>1 DEF Queued, Placement, InQueue
  <2>6. SameRequests /\ SameFlags
    BY <2>2, <1>a
  <2>7. \A t \in Slots : Held(t) => rid(t) # r
    BY <1>b, <2>5
  <2>. HIDE DEF r
  <2>8. EntryGiven' /\ CancelledGiven'
    BY <2>2, <2>4, <2>5 DEF Tracking, EntryGiven, CancelledGiven
  <2>9. LookupGiven'
    BY <2>2, <2>3, <2>4 DEF Tracking, LookupGiven, TypeOK
  <2>10. EntryRight' /\ LookupRight'
    BY <1>b, <2>2, <2>3, <2>6 DEF SameRequests, Tracking, EntryRight, LookupRight
  <2>11. Tracked' /\ CancelledIsInterrupted'
    BY <2>2, <2>6, <2>7 DEF SameRequests, SameFlags, Tracking, Tracked, CancelledIsInterrupted, rid
  <2>. QED
    BY <2>8, <2>9, <2>10, <2>11 DEF Tracking
<1>5. ASSUME NEW c \in Clients, CancelMissing(c) PROVE Tracking'
  <2>1. /\ cancelling' = [cancelling EXCEPT ![c] = NoCancel]
        /\ UNCHANGED <<slot, pc, scan, next_request_id, active_requests, queue_requests, cancelled>>
    BY <1>5 DEF CancelMissing, pool, loop
  <2>2. cancelling'[c].id = 0 /\ cancelling'[c].slot = 0
        /\ \A d \in Clients : d # c => cancelling'[d] = cancelling[d]
    BY <2>1 DEF TypeOK, NoCancel
  <2>3. (\A x : Queued(x)' = Queued(x)) /\ SameRequests /\ SameFlags
    BY <2>1, <1>a DEF Queued
  <2>4. EntryGiven' /\ CancelledGiven'
    BY <2>1, <2>3 DEF Tracking, EntryGiven, CancelledGiven
  <2>5. LookupGiven'
    BY <2>1, <2>2, <2>3 DEF Tracking, LookupGiven, TypeOK
  <2>6. EntryRight' /\ LookupRight'
    BY <1>b, <2>1, <2>2, <2>3 DEF SameRequests, Tracking, EntryRight, LookupRight
  <2>7. Tracked' /\ CancelledIsInterrupted'
    BY <2>1, <2>3 DEF SameRequests, SameFlags, Tracking, Tracked, CancelledIsInterrupted, rid
  <2>. QED
    BY <2>4, <2>5, <2>6, <2>7 DEF Tracking
<1>. QED
  BY <1>1, <1>2, <1>3, <1>4, <1>5, <1>6 DEF CancelEffect

LEMMA TrackingSlot ==
  ASSUME TypeOK, Placement, Tracking, NEW s \in Slots, SlotStep(s)
  PROVE  Tracking'
<1>a. slot[s] \in SlotRecord
  BY DEF TypeOK
<1>. DEFINE q == Head(queue_requests)
            r == q.id
            n == Len(queue_requests)
<1>b. ASSUME Assign(s) \/ FailLoad(s)
      PROVE  /\ r \in Ids /\ r < next_request_id /\ Queued(r)
             /\ \A x : Queued(x)' => Queued(x) /\ x # r
             /\ pc \notin {"fill", "emit"} /\ pc' = pc
             /\ UNCHANGED <<next_request_id, cancelling, cancelled>>
  <2>1. /\ queue_requests # <<>> /\ queue_requests' = Tail(queue_requests)
        /\ pc \notin {"fill", "emit"} /\ pc' = pc
        /\ UNCHANGED <<next_request_id, cancelling, cancelled>>
    BY <1>b DEF Assign, FailLoad, caller, loop
  <2>2. queue_requests \in Seq(Request)
    BY DEF TypeOK
  <2>3. n \in Nat \ {0} /\ DOMAIN queue_requests = 1 .. n /\ r = queue_requests[1].id
    BY <2>1, <2>2
  <2>4. /\ DOMAIN queue_requests' = 1 .. n - 1
        /\ \A i \in 1 .. n - 1 : queue_requests'[i] = queue_requests[i + 1]
    BY <2>1, <2>2, <2>3
  <2>5. r \in Ids
    BY <2>3, QueueTypes
  <2>. HIDE DEF r, n
  <2>6. r < next_request_id /\ Queued(r)
    BY <2>3 DEF Placement, InQueue, Queued
  <2>7. \A i \in 1 .. n - 1 : i + 1 \in 1 .. n /\ queue_requests[i + 1].id # r
    BY <2>3 DEF Placement, QueuedOnce
  <2>8. \A x : Queued(x)' => Queued(x) /\ x # r
    BY <2>3, <2>4, <2>7 DEF Queued
  <2>. QED
    BY <2>1, <2>5, <2>6, <2>8
<1>c. \A t \in Slots : Held(t) => rid(t) \in Ids /\ ~Queued(rid(t))
  BY QueueTypes DEF Placement, InSlot, InService
<1>1. ASSUME Assign(s) PROVE Tracking'
  <2>1. PICK m \in Reusable(s, q) : slot' = [slot EXCEPT ![s] = Loaded(s, q, m)]
    BY <1>1 DEF Assign
  <2>2. /\ slot'[s] = Loaded(s, q, m) /\ \A t \in Slots : t # s => slot'[t] = slot[t]
        /\ Loaded(s, q, m).request_id = r /\ Loaded(s, q, m).is_interrupted = FALSE
    BY <2>1 DEF TypeOK, Loaded
  <2>3. active_requests' = [active_requests EXCEPT ![r] = s]
    BY <1>1 DEF Assign
  <2>. HIDE DEF q, r, n
  <2>4. active_requests'[r] = s /\ \A x \in Ids : x # r => active_requests'[x] = active_requests[x]
    BY <1>b, <1>1, <2>3 DEF TypeOK
  <2>5. /\ rid(s)' = r /\ slot'[s].is_interrupted = FALSE
        /\ \A t \in Slots : t # s => /\ rid(t)' = rid(t) /\ (Held(t)' => Held(t))
                                     /\ slot'[t].is_interrupted = slot[t].is_interrupted
    BY <1>b, <1>1, <2>2 DEF rid, Held, InHand
  <2>6. EntryGiven' /\ CancelledGiven' /\ LookupGiven'
    BY <1>b, <1>1, <2>4 DEF Tracking, EntryGiven, CancelledGiven, LookupGiven
  <2>7. EntryRight'
    BY <1>b, <1>c, <1>1, <2>4, <2>5 DEF Tracking, EntryRight
  <2>8. \A c \in Clients : cancelling[c].id = r => cancelling[c].slot = 0
    BY <1>b, <1>1 DEF Tracking, LookupGiven
  <2>9. LookupRight'
    BY <1>b, <1>1, <2>5, <2>8 DEF Tracking, LookupRight
  <2>10. Tracked'
    BY <1>b, <1>c, <1>1, <2>4, <2>5 DEF Tracking, Tracked, rid
  <2>11. r \notin cancelled
    BY <1>b, <1>1 DEF Tracking, CancelledGiven
  <2>12. CancelledIsInterrupted'
    BY <1>b, <1>1, <2>5, <2>11 DEF Tracking, CancelledIsInterrupted, rid
  <2>. QED
    BY <2>6, <2>7, <2>9, <2>10, <2>12 DEF Tracking
<1>2. ASSUME FailLoad(s) PROVE Tracking'
  <2>1. /\ slot'[s] = LoadFailed(s, q) /\ \A t \in Slots : t # s => slot'[t] = slot[t]
        /\ LoadFailed(s, q).state \notin Busy
        /\ UNCHANGED active_requests
    BY <1>2, <1>a DEF FailLoad, LoadFailed, TypeOK, SlotRecord
  <2>. HIDE DEF q, r, n
  <2>2. ~Held(s)' /\ \A t \in Slots : t # s => /\ rid(t)' = rid(t) /\ (Held(t)' => Held(t))
                                               /\ slot'[t].is_interrupted = slot[t].is_interrupted
    BY <1>b, <1>2, <2>1 DEF rid, Held, InHand
  <2>3. EntryGiven' /\ CancelledGiven' /\ LookupGiven'
    BY <1>b, <1>2, <2>1 DEF Tracking, EntryGiven, CancelledGiven, LookupGiven
  <2>4. EntryRight' /\ LookupRight'
    BY <1>b, <1>2, <2>1, <2>2 DEF Tracking, EntryRight, LookupRight
  <2>5. Tracked' /\ CancelledIsInterrupted'
    BY <1>b, <1>2, <2>1, <2>2 DEF Tracking, Tracked, CancelledIsInterrupted, rid
  <2>. QED
    BY <2>3, <2>4, <2>5 DEF Tracking
<1>3. ASSUME ReleaseSlot(s) PROVE Tracking'
  <2>. HIDE DEF q, r, n
  <2>1. /\ slot'[s] = Fresh /\ \A t \in Slots : t # s => slot'[t] = slot[t]
        /\ pc' = "release" /\ UNCHANGED <<next_request_id, queue_requests, cancelling, cancelled>>
    BY <1>3 DEF ReleaseSlot, Reset, TypeOK, caller
  <2>2. ~Held(s)' /\ \A t \in Slots : t # s => /\ rid(t)' = rid(t) /\ (Held(t)' => Held(t))
                                               /\ slot'[t].is_interrupted = slot[t].is_interrupted
    BY <2>1 DEF Fresh, rid, Held, InHand
  <2>3. \A x \in Ids : active_requests'[x] = IF x = rid(s) THEN 0 ELSE active_requests[x]
    BY <1>3 DEF ReleaseSlot, Untracked, rid
  <2>4. \A t \in Slots : t # s /\ Held(t) => rid(t) # rid(s)
    BY DEF Placement, OneSlot, InService
  <2>5. \A x : Queued(x)' = Queued(x)
    BY <2>1 DEF Queued
  <2>6. EntryGiven' /\ CancelledGiven' /\ LookupGiven'
    BY <2>1, <2>3, <2>5 DEF Tracking, EntryGiven, CancelledGiven, LookupGiven
  <2>7. EntryRight' /\ LookupRight'
    BY <1>c, <2>1, <2>2, <2>3, <2>4 DEF Tracking, EntryRight, LookupRight
  <2>8. Tracked' /\ CancelledIsInterrupted'
    BY <1>c, <2>1, <2>2, <2>3, <2>4 DEF Tracking, Tracked, CancelledIsInterrupted, rid
  <2>. QED
    BY <2>6, <2>7, <2>8 DEF Tracking
<1>4. ASSUME ~Assign(s), ~FailLoad(s), ~ReleaseSlot(s) PROVE Tracking'
  BY <1>4, Serving, TrackingKept DEF SlotStep, Kept
<1>. QED
  BY <1>1, <1>2, <1>3, <1>4

(* A request is in cancelled once cancel_request has written its flag.     *)
LEMMA HalfwayStep == TypeOK /\ Halfway /\ [Next]_vars => Halfway'
<1>. SUFFICES ASSUME TypeOK, Halfway, [Next]_vars, NEW c \in Clients, cancelling'[c].half
              PROVE  (cancelling[c].slot # 0 /\ cancelling[c].id \in cancelled)'
  BY DEF Halfway
<1>a. ASSUME cancelling'[c] = cancelling[c], cancelled \subseteq cancelled'
      PROVE  (cancelling[c].slot # 0 /\ cancelling[c].id \in cancelled)'
  BY <1>a DEF Halfway
<1>b. DOMAIN cancelling = Clients
  BY DEF TypeOK
<1>1. CASE \E shape \in Shapes : QueueRequest(shape) \/ AnswerAtOnce(shape)
  BY <1>1, <1>a DEF QueueRequest, AnswerAtOnce
<1>2. ASSUME NEW d \in Clients, NEW r \in Ids, CancelLookup(d, r)
      PROVE  cancelling'[c] = cancelling[c] /\ cancelled' = cancelled
  <2>1. cancelling' = [cancelling EXCEPT ![d] = [id |-> r, slot |-> active_requests[r],
                                                half |-> FALSE]]
        /\ cancelled' = cancelled
    BY <1>2 DEF CancelLookup
  <2>. QED
    BY <1>b, <2>1
<1>3. ASSUME NEW d \in Clients, CancelDone(d) \/ CancelPending(d) \/ CancelMissing(d)
      PROVE  cancelling'[c] = cancelling[c] /\ cancelled \subseteq cancelled'
  <2>1. cancelling' = [cancelling EXCEPT ![d] = NoCancel] /\ cancelled \subseteq cancelled'
    BY <1>3 DEF CancelDone, CancelPending, CancelMissing
  <2>. QED
    BY <1>b, <2>1 DEF NoCancel
<1>4. ASSUME NEW d \in Clients, CancelInterrupt(d)
      PROVE  (cancelling[c].slot # 0 /\ cancelling[c].id \in cancelled)'
  <2>1. /\ cancelling' = [cancelling EXCEPT ![d].half = TRUE] /\ cancelling[d].slot # 0
        /\ cancelled' = cancelled \cup {cancelling[d].id}
    BY <1>4 DEF CancelInterrupt
  <2>2. CASE c = d
    <3>1. cancelling[d] \in Cancel
      BY <2>1, CancelType
    <3>2. [cancelling[d] EXCEPT !.half = TRUE].id = cancelling[d].id
          /\ [cancelling[d] EXCEPT !.half = TRUE].slot = cancelling[d].slot
      BY <3>1 DEF Cancel
    <3>. QED
      BY <1>b, <2>1, <2>2, <3>2
  <2>3. CASE c # d
    BY <1>a, <1>b, <2>1, <2>3
  <2>. QED
    BY <2>2, <2>3
<1>5. ASSUME NEW s \in Slots, SlotStep(s) PROVE UNCHANGED <<cancelling, cancelled>>
  <2>1. CASE Assign(s) \/ FailLoad(s) \/ ReleaseSlot(s)
    BY <2>1 DEF Assign, FailLoad, ReleaseSlot, caller
  <2>2. CASE ~(Assign(s) \/ FailLoad(s) \/ ReleaseSlot(s))
    BY <1>5, <2>2, Serving DEF SlotStep, Kept, Untouched
  <2>. QED
    BY <2>1, <2>2
<1>6. CASE \/ BuildGenerating \/ SaveCheckpoints \/ UNCHANGED vars
           \/ PendingDone \/ CheckActive \/ PromptDone \/ Decode \/ DecodeFails
           \/ FailDone \/ SampleDone \/ ReleaseDone \/ Loop \/ WakeUp
  BY <1>6, <1>a, Idling DEF Kept, Untouched
<1>. QED
  BY <1>1, <1>2, <1>3, <1>4, <1>5, <1>6, <1>a DEF Next, Process, CancelEffect

LEMMA HalfwayInit == Init => Halfway
BY DEF Init, NoCancel, Halfway

LEMMA Half == Spec => [](TypeOK /\ Placement /\ Halfway)
BY TypeInit, TypeStep, PlacementInit, PlacementStep, HalfwayInit, HalfwayStep, PTL DEF Spec

LEMMA TrackingStep == TypeOK /\ Placement /\ Halfway /\ Tracking /\ [Next]_vars => Tracking'
BY Idling, TrackingKept, TrackingCaller, TrackingSlot DEF Next, Process, Kept

LEMMA TrackingInit == Init => Tracking
<1>. SUFFICES ASSUME Init PROVE Tracking
  OBVIOUS
<1>1. \A s \in Slots : ~Held(s)
  BY DEF Init, Fresh, Held, InHand
<1>2. EntryGiven /\ CancelledGiven /\ LookupGiven
  BY DEF Init, NoCancel, EntryGiven, CancelledGiven, LookupGiven
<1>. QED
  BY <1>1, <1>2 DEF Tracking, EntryRight, LookupRight, Tracked, CancelledIsInterrupted

(* Whoever wants to cancel a request that is served finds its slot.        *)
THEOREM Cancellable == Spec => []Tracked
BY Half, TrackingInit, TrackingStep, PTL DEF Spec, Tracking

(* A request that was cancelled while it waited is never served, and one   *)
(* that is still served after its cancellation carries the interrupt flag. *)
THEOREM CancelTakesEffect == Spec => []CancelledIsInterrupted
BY Half, TrackingInit, TrackingStep, PTL DEF Spec, Tracking
-----------------------------------------------------------------------------
(* Prefill.                                                                *)

(* A step that changes the state of one slot at most: to be shown for the  *)
(* record S it gets.                                                       *)
LEMMA PrefillSlot ==
  ASSUME TypeOK, Prefill, NEW s \in Slots, NEW S, slot' = [slot EXCEPT ![s] = S],
         Ready(S),
         pc' # "fill", pc' # "emit", pc' = "sample" => pc \in {"sample", "emit"},
         pc' = "sample" /\ S.state = "GENERATING" => S.checkpoint = 0
  PROVE  Prefill'
<1>1. slot'[s] = S /\ \A t \in Slots : t # s => slot'[t] = slot[t]
  BY DEF TypeOK
<1>2. AllReady'
  BY <1>1 DEF Prefill, AllReady
<1>3. Saved'
  BY <1>1 DEF Prefill, Saved, InHand
<1>. QED
  BY <1>2, <1>3 DEF Prefill, Filling

LEMMA PrefillCaller ==
  ASSUME TypeOK, Prefill,
         \/ \E shape \in Shapes : QueueRequest(shape) \/ AnswerAtOnce(shape)
         \/ \E c \in Clients : CancelEffect(c) \/ \E r \in Ids : CancelLookup(c, r)
  PROVE  Prefill'
<1>1. CASE UNCHANGED <<slot, pc, scan>>
  BY <1>1 DEF Prefill, AllReady, Filling, Saved, InHand
<1>2. ASSUME NEW c \in Clients, CancelInterrupt(c) \/ CancelDone(c) PROVE Prefill'
  <2>. DEFINE s == cancelling[c].slot
  <2>1. /\ s \in Slots /\ UNCHANGED <<pc, scan>>
        /\ \A t \in Slots : t # s => slot'[t] = slot[t]
        /\ slot'[s] = Interrupted(s) \/ slot'[s] = Stopped(s)
    BY <1>2, CancelWrites
  <2>2. slot[s] \in SlotRecord
    BY <2>1 DEF TypeOK
  <2>3. /\ slot'[s].state \in {slot[s].state, "DONE"}
        /\ slot'[s].checkpoint = slot[s].checkpoint /\ slot'[s].n_past = slot[s].n_past
        /\ slot'[s].num_prompt_tokens = slot[s].num_prompt_tokens
        /\ slot'[s].n_decoded = slot[s].n_decoded
    BY <2>1, <2>2 DEF Interrupted, Stopped, SlotRecord
  <2>. HIDE DEF s
  <2>4. AllReady'
    BY <2>1, <2>3 DEF Prefill, AllReady, Ready
  <2>. QED
    BY <2>1, <2>3, <2>4 DEF Prefill, Filling, Saved, InHand
<1>3. ASSUME NEW shape \in Shapes, QueueRequest(shape) \/ AnswerAtOnce(shape)
      PROVE  UNCHANGED <<slot, pc, scan>>
  BY <1>3 DEF QueueRequest, AnswerAtOnce, pool, loop, batch
<1>4. ASSUME NEW c \in Clients, CancelPending(c) \/ CancelMissing(c)
                                \/ \E r \in Ids : CancelLookup(c, r)
      PROVE  UNCHANGED <<slot, pc, scan>>
  BY <1>4 DEF CancelPending, CancelMissing, CancelLookup, pool, loop, batch
<1>. QED
  BY <1>1, <1>2, <1>3, <1>4 DEF CancelEffect

LEMMA PrefillServe ==
  ASSUME TypeOK, Prefill, NEW s \in Slots, SlotStep(s)
  PROVE  Prefill'
<1>a. slot[s] \in SlotRecord /\ Ready(slot[s])
  BY DEF TypeOK, Prefill, AllReady
<1>b. /\ [slot[s] EXCEPT !.state = "DONE"].state = "DONE"
      /\ Ready([slot[s] EXCEPT !.state = "DONE"])
  BY <1>a DEF SlotRecord, Ready
<1>. DEFINE q == Head(queue_requests)
<1>1. ASSUME Assign(s) PROVE Prefill'
  <2>1. PICK n \in Reusable(s, q) : slot' = [slot EXCEPT ![s] = Loaded(s, q, n)]
    BY <1>1 DEF Assign
  <2>2. q \in Request
    BY <1>1 DEF Assign, TypeOK
  <2>3. q.shape.prompt \in Nat
    BY <2>2 DEF Request, Shape
  <2>. HIDE DEF q
  <2>4. Ready(Loaded(s, q, n)) /\ Loaded(s, q, n).state # "GENERATING"
    BY <2>3 DEF Loaded, Ready, CheckpointTarget
  <2>5. pc' = pc /\ pc \in {"pending", "pending2"}
    BY <1>a, <1>1 DEF Assign, batch, loop
  <2>. QED
    BY <2>1, <2>4, <2>5, PrefillSlot
<1>2. ASSUME FailLoad(s) PROVE Prefill'
  <2>. HIDE DEF q
  <2>1. Ready(LoadFailed(s, q)) /\ LoadFailed(s, q).state # "GENERATING"
    BY <1>a DEF LoadFailed, Ready, SlotRecord
  <2>2. slot' = [slot EXCEPT ![s] = LoadFailed(s, q)]
    BY <1>2 DEF FailLoad, q
  <2>3. pc' = pc /\ pc \in {"pending", "pending2"}
    BY <1>a, <1>2 DEF FailLoad, batch, loop
  <2>. QED
    BY <2>1, <2>2, <2>3, PrefillSlot
<1>3. ASSUME PromptSlot(s) PROVE Prefill'
  BY <1>3 DEF PromptSlot, Next_slot, pool, batch, Prefill, AllReady,
              Filling, Saved
<1>4. ASSUME FillText(s) PROVE Prefill'
  <2>. DEFINE n == slot[s].n_past + Taken(s)
              st == IF n >= slot[s].num_prompt_tokens THEN "GENERATING" ELSE slot[s].state
  <2>1. Taken(s) \in Nat
    BY TakenType
  <2>2. slot[s].state # "GENERATING"
    BY <1>4 DEF FillText, Prefill, Filling
  <2>3. n \in Nat /\ (st = "GENERATING" => n >= slot[s].num_prompt_tokens)
    BY <1>a, <2>1, <2>2 DEF SlotRecord
  <2>4. Filled(s) = [slot[s] EXCEPT !.n_past = n, !.state = st]
    BY DEF Filled
  <2>. HIDE DEF n, st
  <2>5. Ready([slot[s] EXCEPT !.n_past = n, !.state = st])
    BY <1>a, <2>3 DEF Ready, SlotRecord
  <2>6. slot' = [slot EXCEPT ![s] = Filled(s)] /\ pc' = "prompt"
    BY <1>4 DEF FillText
  <2>. QED
    BY <2>1, <2>4, <2>5, <2>6, PrefillSlot
<1>5. ASSUME FillMedia(s) PROVE Prefill'
  <2>1. Ready(MediaFilled(s))
    BY <1>a DEF MediaFilled, Ready, SlotRecord
  <2>2. slot' = [slot EXCEPT ![s] = MediaFilled(s)] /\ pc' = "prompt"
    BY <1>a, <1>5 DEF FillMedia, batch
  <2>. QED
    BY <2>1, <2>2, PrefillSlot
<1>6. ASSUME FailMedia(s) PROVE Prefill'
  <2>1. PICK n \in 0 .. slot[s].num_prompt_tokens : slot' = [slot EXCEPT ![s] = MediaFailed(s, n)]
    BY <1>6 DEF FailMedia
  <2>2. Ready(MediaFailed(s, n))
    BY <1>a DEF MediaFailed, Ready, SlotRecord
  <2>3. pc' = "prompt"
    BY <1>a, <1>6 DEF FailMedia, batch
  <2>. QED
    BY <2>1, <2>2, <2>3, PrefillSlot
<1>7. ASSUME FailSlot(s) PROVE Prefill'
  <2>. DEFINE S == [slot[s] EXCEPT !.state = "DONE", !.incomplete = TRUE]
  <2>1. Ready(S)
    BY <1>a DEF Ready, SlotRecord
  <2>2. slot' = [slot EXCEPT ![s] = S] /\ pc' = "failed"
    BY <1>a, <1>7 DEF FailSlot, batch
  <2>. HIDE DEF S
  <2>. QED
    BY <2>1, <2>2, PrefillSlot
<1>8. ASSUME SampleSkip(s) PROVE Prefill'
  <2>1. slot' = [slot EXCEPT ![s] = [slot[s] EXCEPT !.state = "DONE"]]
        /\ pc = "sample" /\ pc' = "sample"
    BY <1>a, <1>8 DEF SampleSkip, batch
  <2>. QED
    BY <1>b, <2>1, PrefillSlot
<1>9. ASSUME SampleSlot(s) PROVE Prefill'
  BY <1>9 DEF SampleSlot, Next_slot, pool, batch, Prefill, AllReady,
              Filling, Saved, InHand
<1>c. ASSUME NEW task, Emitting(s, task)
      PROVE  /\ pc = "emit" /\ pc' = "sample"
             /\ slot[s].checkpoint = 0
  BY <1>a, <1>c DEF Emitting, batch, Prefill, Saved, InHand
<1>10. ASSUME EmitEog(s) \/ EmitEmbedding(s) \/ EmitScores(s) PROVE Prefill'
  <2>1. PICK task : Emitting(s, task) /\ Finish(s)
    BY <1>10 DEF EmitEog, EmitEmbedding, EmitScores
  <2>2. slot' = [slot EXCEPT ![s] = [slot[s] EXCEPT !.state = "DONE"]]
    BY <2>1 DEF Finish
  <2>. QED
    BY <1>b, <1>c, <2>1, <2>2, PrefillSlot
<1>d. ASSUME slot[s].checkpoint = 0
      PROVE  /\ Ready(Sampled(s)) /\ Sampled(s).checkpoint = 0
             /\ Ready([Sampled(s) EXCEPT !.state = "DONE"])
             /\ [Sampled(s) EXCEPT !.state = "DONE"].state = "DONE"
  BY <1>a, <1>d DEF Sampled, Ready, SlotRecord
<1>11. ASSUME EmitLast(s) PROVE Prefill'
  BY <1>11, <1>c, <1>d, PrefillSlot DEF EmitLast
<1>12. ASSUME EmitToken(s) PROVE Prefill'
  BY <1>12, <1>c, <1>d, PrefillSlot DEF EmitToken
<1>13. ASSUME NextDocument(s) PROVE Prefill'
  <2>1. PICK n : slot' = [slot EXCEPT ![s] = Reloaded(s, n)]
    BY <1>13 DEF NextDocument
  <2>2. Ready(Reloaded(s, n)) /\ Reloaded(s, n).state # "GENERATING"
    BY <1>a DEF Reloaded, Ready, SlotRecord, CheckpointTarget
  <2>. QED
    BY <1>13, <1>c, <2>1, <2>2, PrefillSlot DEF NextDocument
<1>14. ASSUME ReleaseSlot(s) PROVE Prefill'
  <2>1. slot' = [slot EXCEPT ![s] = Fresh] /\ pc' = "release"
    BY <1>a, <1>14 DEF ReleaseSlot, Reset, batch
  <2>2. Ready(Fresh)
    BY DEF Ready, Fresh
  <2>. QED
    BY <2>1, <2>2, PrefillSlot
<1>. QED
  BY <1>1, <1>2, <1>3, <1>4, <1>5, <1>6, <1>7, <1>8, <1>9, <1>10, <1>11,
     <1>12, <1>13, <1>14 DEF SlotStep

LEMMA PrefillStep == TypeOK /\ Prefill /\ [Next]_vars => Prefill'
<1>. SUFFICES ASSUME TypeOK, Prefill, [Next]_vars PROVE Prefill'
  OBVIOUS
<1>a. \A s \in Slots : slot[s] \in SlotRecord /\ Ready(slot[s])
  BY DEF TypeOK, Prefill, AllReady
<1>1. ASSUME BuildGenerating PROVE Prefill'
  <2>1. pc' = "prompt"
    BY <1>1 DEF BuildGenerating
  <2>2. \A s \in Slots : Ready([slot[s] EXCEPT !.n_past = @ + 1])
    BY <1>a DEF Ready, SlotRecord
  <2>3. \A s \in Slots : Ready(slot'[s])
    BY <1>a, <1>1, <2>2 DEF BuildGenerating
  <2>. QED
    BY <2>1, <2>3 DEF Prefill, AllReady, Filling, Saved
<1>2. ASSUME SaveCheckpoints PROVE Prefill'
  <2>1. \A s \in Slots : /\ Ready([slot[s] EXCEPT !.checkpoint = 0])
                         /\ [slot[s] EXCEPT !.checkpoint = 0].checkpoint = 0
                         /\ [slot[s] EXCEPT !.checkpoint = 0].state = slot[s].state
    BY <1>a DEF Ready, SlotRecord
  <2>2. \A s \in Slots : ~CheckpointDue(s) /\ slot[s].state = "GENERATING" => slot[s].checkpoint = 0
    BY <1>a DEF CheckpointDue, Ready, SlotRecord
  <2>3. \A s \in Slots : Ready(slot'[s])
                         /\ (slot'[s].state = "GENERATING" => slot'[s].checkpoint = 0)
    BY <1>a, <1>2, <2>1, <2>2 DEF SaveCheckpoints
  <2>4. pc' = "sample"
    BY <1>2 DEF SaveCheckpoints
  <2>. QED
    BY <2>3, <2>4 DEF Prefill, AllReady, Filling, Saved, InHand
<1>3. ASSUME \/ PendingDone \/ CheckActive \/ PromptDone \/ Decode \/ DecodeFails
             \/ FailDone \/ SampleDone \/ ReleaseDone \/ Loop \/ WakeUp
      PROVE  Prefill'
  <2>1. UNCHANGED slot /\ pc' \notin {"fill", "emit", "sample"}
    BY <1>3 DEF PendingDone, CheckActive, PromptDone, Decode, DecodeFails, FailDone,
                SampleDone, ReleaseDone, Loop, WakeUp, pool, batch
  <2>. QED
    BY <2>1 DEF Prefill, AllReady, Filling, Saved
<1>4. ASSUME UNCHANGED vars PROVE Prefill'
  BY <1>4 DEF vars, pool, batch, loop, Prefill, AllReady, Filling,
              Saved, InHand
<1>. QED
  BY <1>1, <1>2, <1>3, <1>4, PrefillCaller, PrefillServe DEF Next, Process

LEMMA PrefillInit == Init => Prefill
BY DEF Init, Fresh, Prefill, AllReady, Ready, Filling, Saved

(* The state of a prompt is saved before the first token is generated.     *)
THEOREM CheckpointSaved == Spec => []CheckpointNotMissed
<1>1. Prefill => CheckpointNotMissed
  BY DEF Prefill, AllReady, Ready, CheckpointNotMissed
<1>. QED
  BY <1>1, TypeInit, TypeStep, PrefillInit, PrefillStep, PTL DEF Spec
-----------------------------------------------------------------------------
(* The batch.  The first pass adds a token for every slot that generates;  *)
(* a slot whose prompt went through a batch had at least one entry in the  *)
(* batch in which the prompt ended, so these slots are never more than the *)
(* batch has entries.                                                      *)

Reading == {s \in Slots : slot[s].state = "GENERATING" /\ s \notin Mediated}

(* A prompt that is read has tokens left, and so does one that is given to *)
(* the second pass, whatever cancel_request writes meanwhile.              *)
PromptLeft ==
  \A s \in Slots : slot[s].state = "PROCESSING_PROMPT" \/ (pc = "fill" /\ scan = s) =>
    slot[s].n_past < slot[s].num_prompt_tokens
Known == \A s \in Slots : Held(s) => slot[s].num_prompt_tokens > 0

(* The thread has passed slot s since its prompt was read.                 *)
Behind(s) == /\ pc \notin {"prompt", "fill", "decode", "checkpoint"}
             /\ pc \in {"sample", "emit", "failed"} => s < scan
Begun == \A s \in Slots : Behind(s) /\ slot[s].state = "GENERATING" => slot[s].text # {}

Counted == /\ Cardinality(Reading) <= NBatch
           /\ pc \in {"prompt", "fill"} => Cardinality(Reading) <= n_tokens

Batching == PromptLeft /\ Known /\ Begun /\ Counted /\ BatchWithinCapacity

(* What most steps do to slot t: its prompt and its media stay, and it     *)
(* does not start to generate.                                             *)
Calm(t) ==
  /\ slot'[t].state \in {slot[t].state, "DONE"}
  /\ slot'[t].num_prompt_tokens = slot[t].num_prompt_tokens
  /\ slot'[t].media = slot[t].media
  /\ slot'[t].state = "PROCESSING_PROMPT" \/ (pc' = "fill" /\ scan' = t) =>
       slot'[t].n_past = slot[t].n_past
  /\ pc' = "fill" /\ scan' = t =>
       slot[t].state = "PROCESSING_PROMPT" \/ (pc = "fill" /\ scan = t)
  /\ InHand(t)' => Held(t)
  /\ Behind(t)' /\ slot'[t].state = "GENERATING" =>
       slot'[t].text # {} \/ (Behind(t) /\ slot'[t].text = slot[t].text)

(* A slot that gets a prompt to read, or is freed.                         *)
Anew(t) ==
  /\ ~InHand(t)'
  /\ slot'[t].state \in {"PROCESSING_PROMPT", "IDLE"}
  /\ slot'[t].state = "PROCESSING_PROMPT" => slot'[t].n_past < slot'[t].num_prompt_tokens
                                            /\ slot'[t].num_prompt_tokens > 0

LEMMA ReadingSize ==
  /\ \A S \in SUBSET Slots : IsFiniteSet(S) /\ Cardinality(S) \in Nat /\ Cardinality(S) <= NSlots
  /\ \A S, T \in SUBSET Slots : S \subseteq T => Cardinality(S) <= Cardinality(T)
  /\ \A S \in SUBSET Slots, s \in Slots : Cardinality(S \cup {s}) <= Cardinality(S) + 1
  /\ \A S, T \in SUBSET Slots : Cardinality(S \cup T) <= Cardinality(S) + Cardinality(T)
<1>1. IsFiniteSet(Slots) /\ Cardinality(Slots) = NSlots
  BY FS_Interval
<1>2. \A S \in SUBSET Slots : IsFiniteSet(S) /\ Cardinality(S) \in Nat /\ Cardinality(S) <= NSlots
  BY <1>1, FS_Subset, FS_CardinalityType
<1>3. \A S, T \in SUBSET Slots : S \subseteq T => Cardinality(S) <= Cardinality(T)
  BY <1>2, FS_Subset
<1>4. ASSUME NEW S \in SUBSET Slots, NEW s \in Slots
      PROVE  Cardinality(S \cup {s}) <= Cardinality(S) + 1
  BY <1>2, FS_AddElement
<1>5. ASSUME NEW S \in SUBSET Slots, NEW T \in SUBSET Slots
      PROVE  Cardinality(S \cup T) <= Cardinality(S) + Cardinality(T)
  <2>1. S \cap T \in SUBSET Slots /\ S \cup T \in SUBSET Slots
    OBVIOUS
  <2>2. Cardinality(S \cap T) \in Nat /\ Cardinality(S \cup T) \in Nat
        /\ Cardinality(S) \in Nat /\ Cardinality(T) \in Nat
    BY <1>2, <2>1
  <2>3. Cardinality(S \cup T) = Cardinality(S) + Cardinality(T) - Cardinality(S \cap T)
    BY <1>2, FS_Union
  <2>. QED
    BY <2>2, <2>3
<1>. QED
  BY <1>2, <1>3, <1>4, <1>5

LEMMA ReadingType == Reading \in SUBSET Slots /\ Mediated \in SUBSET Slots
                     /\ Reading' \in SUBSET Slots /\ Mediated' \in SUBSET Slots
BY DEF Reading, Mediated

(* The parts that speak of one slot, for steps after which every slot is   *)
(* calm or anew.                                                           *)
LEMMA BatchSlots ==
  ASSUME TypeOK, Batching, \A t \in Slots : Calm(t) \/ Anew(t)
  PROVE  /\ PromptLeft' /\ Known' /\ Begun' /\ Reading' \subseteq Reading
         /\ (\A t \in Slots : Calm(t)) => Mediated' = Mediated
<1>1. PromptLeft'
  BY DEF Batching, PromptLeft, Calm, Anew, InHand
<1>2. Known'
  BY DEF Batching, Known, Calm, Anew, Held
<1>3. Begun'
  BY DEF Batching, Begun, Calm, Anew
<1>4. ASSUME NEW t \in Reading' PROVE t \in Reading
  <2>1. t \in Slots /\ slot'[t].state = "GENERATING" /\ t \notin Mediated'
    BY DEF Reading
  <2>2. Calm(t)
    BY <2>1 DEF Anew
  <2>. QED
    BY <2>1, <2>2 DEF Calm, Reading, Mediated
<1>5. (\A t \in Slots : Calm(t)) => Mediated' = Mediated
  BY DEF Calm, Mediated
<1>. QED
  BY <1>1, <1>2, <1>3, <1>4, <1>5

(* Outside build_batch the batch does not matter.                          *)
LEMMA BatchIdle ==
  ASSUME TypeOK, Batching, \A t \in Slots : Calm(t) \/ Anew(t),
         pc' \notin {"prompt", "fill", "decode"}
  PROVE  Batching'
<1>1. Cardinality(Reading') <= Cardinality(Reading)
  BY BatchSlots, ReadingSize, ReadingType
<1>2. Cardinality(Reading) \in Nat /\ Cardinality(Reading)' \in Nat
  BY ReadingSize, ReadingType
<1>3. Counted'
  BY <1>1, <1>2 DEF Batching, Counted
<1>. QED
  BY <1>3, BatchSlots DEF Batching, BatchWithinCapacity

(* Within it, a step that adds nothing.                                    *)
LEMMA BatchKept ==
  ASSUME TypeOK, Batching, \A t \in Slots : Calm(t), UNCHANGED n_tokens,
         pc' \in {"prompt", "fill"} => pc \in {"prompt", "fill"},
         pc' = "decode" => pc \in {"prompt", "fill", "decode"}
  PROVE  Batching'
<1>1. Cardinality(Reading') <= Cardinality(Reading)
  BY BatchSlots, ReadingSize, ReadingType
<1>2. Cardinality(Reading) \in Nat /\ Cardinality(Reading)' \in Nat
  BY ReadingSize, ReadingType
<1>3. n_tokens \in Nat
  BY DEF TypeOK
<1>4. Counted'
  BY <1>1, <1>2, <1>3 DEF Batching, Counted
<1>5. Mediated' = Mediated
  BY BatchSlots
<1>6. BatchWithinCapacity'
  BY <1>5 DEF Batching, BatchWithinCapacity
<1>. QED
  BY <1>4, <1>6, BatchSlots DEF Batching

(* The steps of one slot that do not touch the batch.                      *)
LEMMA BatchServe ==
  ASSUME TypeOK, Batching, NEW s \in Slots,
         SlotStep(s), ~FillText(s), ~FillMedia(s)
  PROVE  Batching'
<1>a. slot[s] \in SlotRecord /\ DOMAIN slot = Slots
  BY DEF TypeOK
<1>b. ASSUME NEW S, slot' = [slot EXCEPT ![s] = S]
      PROVE  slot'[s] = S /\ \A t \in Slots : t # s => slot'[t] = slot[t]
  BY <1>a, <1>b
<1>. DEFINE q == Head(queue_requests)
<1>1. ASSUME Assign(s) PROVE Batching'
  <2>1. PICK n \in Reusable(s, q) : slot' = [slot EXCEPT ![s] = Loaded(s, q, n)]
    BY <1>1 DEF Assign
  <2>2. q \in Request
    BY <1>1 DEF Assign, TypeOK
  <2>3. q.shape.prompt \in Nat \ {0}
    BY <2>2 DEF Request, Shape
  <2>4. pc' = pc /\ pc \in {"pending", "pending2"} /\ scan' = scan
    BY <1>1 DEF Assign, loop
  <2>. HIDE DEF q
  <2>5. n < q.shape.prompt
    BY <2>3 DEF Reusable
  <2>6. /\ Loaded(s, q, n).state = "PROCESSING_PROMPT" /\ Loaded(s, q, n).n_past = n
        /\ Loaded(s, q, n).num_prompt_tokens = q.shape.prompt
    BY DEF Loaded
  <2>7. slot'[s] = Loaded(s, q, n) /\ \A t \in Slots : t # s => slot'[t] = slot[t]
    BY <2>1, <1>b
  <2>8. Anew(s)
    BY <2>3, <2>4, <2>5, <2>6, <2>7 DEF Anew, InHand
  <2>9. \A t \in Slots : t # s => Calm(t)
    BY <2>4, <2>7 DEF Calm, InHand, Behind
  <2>. QED
    BY <2>4, <2>8, <2>9, BatchIdle
<1>2. ASSUME FailLoad(s) PROVE Batching'
  <2>1. slot' = [slot EXCEPT ![s] = LoadFailed(s, q)]
    BY <1>2 DEF FailLoad
  <2>2. pc' = pc /\ pc \in {"pending", "pending2"} /\ scan' = scan
    BY <1>2 DEF FailLoad, loop
  <2>. HIDE DEF q
  <2>3. /\ LoadFailed(s, q).state = "DONE" /\ LoadFailed(s, q).n_past = slot[s].n_past
        /\ LoadFailed(s, q).num_prompt_tokens = slot[s].num_prompt_tokens
        /\ LoadFailed(s, q).media = slot[s].media
    BY <1>a DEF LoadFailed, SlotRecord
  <2>4. slot'[s] = LoadFailed(s, q) /\ \A t \in Slots : t # s => slot'[t] = slot[t]
    BY <2>1, <1>b
  <2>5. \A t \in Slots : Calm(t)
    BY <2>2, <2>3, <2>4 DEF Calm, InHand, Behind
  <2>. QED
    BY <2>2, <2>5, BatchIdle
<1>3. ASSUME PromptSlot(s) PROVE Batching'
  <2>1. UNCHANGED <<slot, n_tokens>> /\ pc = "prompt" /\ pc' = "fill" /\ scan' = s
        /\ slot[s].state = "PROCESSING_PROMPT"
    BY <1>3 DEF PromptSlot, Next_slot, pool, batch
  <2>2. \A t \in Slots : Calm(t)
    BY <2>1 DEF Calm, InHand, Held, Behind
  <2>. QED
    BY <2>1, <2>2, BatchKept
<1>4. ASSUME FailMedia(s) PROVE Batching'
  <2>1. PICK n \in 0 .. slot[s].num_prompt_tokens : slot' = [slot EXCEPT ![s] = MediaFailed(s, n)]
    BY <1>4 DEF FailMedia
  <2>2. UNCHANGED n_tokens /\ pc = "fill" /\ pc' = "prompt"
    BY <1>4 DEF FailMedia, batch
  <2>3. /\ MediaFailed(s, n).state = "DONE"
        /\ MediaFailed(s, n).num_prompt_tokens = slot[s].num_prompt_tokens
        /\ MediaFailed(s, n).media = slot[s].media
    BY <1>a DEF MediaFailed, SlotRecord
  <2>4. slot'[s] = MediaFailed(s, n) /\ \A t \in Slots : t # s => slot'[t] = slot[t]
    BY <2>1, <1>b
  <2>5. \A t \in Slots : Calm(t)
    BY <2>2, <2>3, <2>4 DEF Calm, InHand, Behind
  <2>. QED
    BY <2>2, <2>5, BatchKept
<1>c. ASSUME NEW S, slot' = [slot EXCEPT ![s] = S], S.state = "DONE",
             S.num_prompt_tokens = slot[s].num_prompt_tokens,
             S.media = slot[s].media,
             \/ pc = "failed" /\ pc' = "failed" /\ Next_slot(Busy, s) /\ scan' = s + 1
             \/ pc = "sample" /\ pc' = "sample" /\ Next_slot({"GENERATING"}, s) /\ scan' = s + 1
             \/ pc = "emit" /\ pc' = "sample" /\ scan = s /\ scan' = s + 1
      PROVE  Batching'
  <2>1. slot'[s] = S /\ \A t \in Slots : t # s => slot'[t] = slot[t]
    BY <1>c, <1>b
  <2>2. Calm(s)
    BY <1>c, <2>1 DEF Calm, InHand
  <2>3. ASSUME NEW t \in Slots, t # s PROVE Calm(t)
    <3>1. slot[t].state = "GENERATING" /\ t < s + 1 => t < scan
      BY <1>c, <2>3 DEF Next_slot, TypeOK
    <3>. QED
      BY <1>c, <2>1, <2>3, <3>1 DEF Calm, InHand, Behind
  <2>. QED
    BY <1>c, <2>2, <2>3, BatchIdle
<1>d. /\ [slot[s] EXCEPT !.state = "DONE"].state = "DONE"
      /\ [slot[s] EXCEPT !.state = "DONE"].num_prompt_tokens = slot[s].num_prompt_tokens
      /\ [slot[s] EXCEPT !.state = "DONE"].media = slot[s].media
  BY <1>a DEF SlotRecord
<1>5. ASSUME FailSlot(s) PROVE Batching'
  <2>. DEFINE S == [slot[s] EXCEPT !.state = "DONE", !.incomplete = TRUE]
  <2>1. S.state = "DONE" /\ S.num_prompt_tokens = slot[s].num_prompt_tokens
        /\ S.media = slot[s].media
    BY <1>a DEF SlotRecord
  <2>2. slot' = [slot EXCEPT ![s] = S] /\ pc = "failed" /\ pc' = "failed"
        /\ Next_slot(Busy, s) /\ scan' = s + 1
    BY <1>5 DEF FailSlot
  <2>. HIDE DEF S
  <2>. QED
    BY <1>c, <2>1, <2>2
<1>6. ASSUME SampleSkip(s) PROVE Batching'
  <2>1. slot' = [slot EXCEPT ![s] = [slot[s] EXCEPT !.state = "DONE"]]
        /\ pc = "sample" /\ pc' = "sample"
        /\ Next_slot({"GENERATING"}, s) /\ scan' = s + 1
    BY <1>6 DEF SampleSkip
  <2>. QED
    BY <1>c, <1>d, <2>1
<1>7. ASSUME SampleSlot(s) PROVE Batching'
  <2>1. UNCHANGED slot /\ pc = "sample" /\ pc' = "emit" /\ scan' = s
        /\ Next_slot({"GENERATING"}, s)
    BY <1>7 DEF SampleSlot, pool
  <2>2. ASSUME NEW t \in Slots PROVE Calm(t)
    <3>1. slot[t].state = "GENERATING" /\ t < s => t < scan
      BY <2>1 DEF Next_slot, TypeOK
    <3>. QED
      BY <2>1, <3>1 DEF Calm, InHand, Held, Behind, Next_slot
  <2>. QED
    BY <2>1, <2>2, BatchIdle
<1>e. ASSUME NEW task, Emitting(s, task)
      PROVE  pc = "emit" /\ pc' = "sample" /\ scan = s /\ scan' = s + 1
  BY <1>e DEF Emitting
<1>8. ASSUME EmitEog(s) \/ EmitEmbedding(s) \/ EmitScores(s) PROVE Batching'
  <2>1. PICK task : Emitting(s, task) /\ Finish(s)
    BY <1>8 DEF EmitEog, EmitEmbedding, EmitScores
  <2>2. slot' = [slot EXCEPT ![s] = [slot[s] EXCEPT !.state = "DONE"]]
    BY <2>1 DEF Finish
  <2>. QED
    BY <1>c, <1>d, <1>e, <2>1, <2>2
<1>f. /\ Sampled(s).text = slot[s].text \cup {slot[s].request_id}
      /\ Sampled(s).state = slot[s].state /\ Sampled(s).n_past = slot[s].n_past
      /\ Sampled(s).num_prompt_tokens = slot[s].num_prompt_tokens
      /\ Sampled(s).media = slot[s].media
      /\ Sampled(s) = [slot[s] EXCEPT !.text = Sampled(s).text,
            !.n_decoded = Sampled(s).n_decoded, !.n_remaining = Sampled(s).n_remaining]
  BY <1>a DEF Sampled, SlotRecord
<1>9. ASSUME EmitLast(s) PROVE Batching'
  <2>. DEFINE S == [Sampled(s) EXCEPT !.state = "DONE"]
  <2>1. S.state = "DONE" /\ S.num_prompt_tokens = slot[s].num_prompt_tokens
        /\ S.media = slot[s].media
    BY <1>a DEF Sampled, SlotRecord
  <2>2. slot' = [slot EXCEPT ![s] = S] /\ Emitting(s, "completion")
    BY <1>9 DEF EmitLast
  <2>. HIDE DEF S
  <2>. QED
    BY <1>c, <1>e, <2>1, <2>2
<1>10. ASSUME EmitToken(s) PROVE Batching'
  <2>1. slot' = [slot EXCEPT ![s] = Sampled(s)] /\ Emitting(s, "completion")
    BY <1>10 DEF EmitToken
  <2>2. slot'[s] = Sampled(s) /\ \A t \in Slots : t # s => slot'[t] = slot[t]
    BY <2>1, <1>b
  <2>3. Calm(s)
    BY <1>e, <1>f, <2>1, <2>2 DEF Calm, InHand
  <2>4. ASSUME NEW t \in Slots, t # s PROVE Calm(t)
    <3>1. t < s + 1 => t < s
      BY <2>4
    <3>. QED
      BY <1>e, <2>1, <2>2, <2>4, <3>1 DEF Calm, InHand, Behind
  <2>. QED
    BY <1>e, <2>1, <2>3, <2>4, BatchIdle
<1>11. ASSUME NextDocument(s) PROVE Batching'
  <2>1. PICK n \in (IF slot[s].load THEN 0 .. slot[s].num_prompt_tokens - 1 ELSE {0}) :
               slot' = [slot EXCEPT ![s] = Reloaded(s, n)]
    BY <1>11 DEF NextDocument
  <2>2. Emitting(s, "rerank")
    BY <1>11 DEF NextDocument
  <2>3. slot[s].num_prompt_tokens > 0 /\ slot[s].num_prompt_tokens \in Nat
    BY <1>a, <1>e, <2>2 DEF Batching, Known, Held, InHand, SlotRecord
  <2>4. n < slot[s].num_prompt_tokens
    BY <2>3
  <2>5. /\ Reloaded(s, n).state = "PROCESSING_PROMPT" /\ Reloaded(s, n).n_past = n
        /\ Reloaded(s, n).num_prompt_tokens = slot[s].num_prompt_tokens
    BY <1>a DEF Reloaded, SlotRecord
  <2>6. slot'[s] = Reloaded(s, n) /\ \A t \in Slots : t # s => slot'[t] = slot[t]
    BY <2>1, <1>b
  <2>7. Anew(s)
    BY <1>e, <2>2, <2>3, <2>4, <2>5, <2>6 DEF Anew, InHand
  <2>8. ASSUME NEW t \in Slots, t # s PROVE Calm(t)
    <3>1. t < s + 1 => t < s
      BY <2>8
    <3>. QED
      BY <1>e, <2>2, <2>6, <2>8, <3>1 DEF Calm, InHand, Behind
  <2>. QED
    BY <1>e, <2>2, <2>7, <2>8, BatchIdle
<1>12. ASSUME ReleaseSlot(s) PROVE Batching'
  <2>1. slot' = [slot EXCEPT ![s] = Fresh] /\ pc = "release" /\ pc' = "release"
    BY <1>12 DEF ReleaseSlot, Reset
  <2>2. slot'[s] = Fresh /\ \A t \in Slots : t # s => slot'[t] = slot[t]
    BY <2>1, <1>b
  <2>3. Anew(s)
    BY <2>1, <2>2 DEF Anew, InHand, Fresh
  <2>4. \A t \in Slots : t # s => Calm(t)
    BY <2>1, <2>2 DEF Calm, InHand, Behind
  <2>. QED
    BY <2>1, <2>3, <2>4, BatchIdle
<1>. QED
  BY <1>1, <1>2, <1>3, <1>4, <1>5, <1>6, <1>7, <1>8, <1>9, <1>10, <1>11, <1>12 DEF SlotStep

(* The end of a prompt takes an entry of the batch, ...                    *)
LEMMA BatchFill ==
  ASSUME TypeOK, Batching, Filling, NEW s \in Slots, FillText(s)
  PROVE  Batching'
<1>. DEFINE n == slot[s].n_past + Taken(s)
            st == IF n >= slot[s].num_prompt_tokens THEN "GENERATING" ELSE slot[s].state
            S == [slot[s] EXCEPT !.n_past = n, !.state = st]
<1>1. slot[s] \in SlotRecord /\ DOMAIN slot = Slots
  BY DEF TypeOK
<1>2. /\ pc = "fill" /\ scan = s /\ pc' = "prompt" /\ n_tokens' = n_tokens + Taken(s)
      /\ slot' = [slot EXCEPT ![s] = S]
  BY DEF FillText, Filled
<1>3. /\ Taken(s) \in Nat /\ n_tokens \in Nat /\ slot[s].n_past \in Nat
      /\ slot[s].num_prompt_tokens \in Nat
      /\ n_tokens + Taken(s) <= NBatch \/ Taken(s) = 0
  BY <1>1, TakenType DEF TypeOK, SlotRecord
<1>4. slot[s].n_past < slot[s].num_prompt_tokens /\ slot[s].num_prompt_tokens > 0
      /\ slot[s].state # "GENERATING"
  BY <1>2 DEF Batching, PromptLeft, Known, Held, InHand, Filling
<1>5. /\ S.state = st /\ S.n_past = n /\ S.num_prompt_tokens = slot[s].num_prompt_tokens
      /\ S.media = slot[s].media
  BY <1>1 DEF SlotRecord
<1>6. /\ st = "PROCESSING_PROMPT" => n < slot[s].num_prompt_tokens
      /\ st # slot[s].state => st = "GENERATING" /\ Taken(s) > 0
  BY <1>3, <1>4
<1>7. slot'[s] = S /\ \A t \in Slots : t # s => slot'[t] = slot[t]
  BY <1>1, <1>2
<1>. HIDE DEF n, st, S
<1>8. PromptLeft' /\ Begun'
  BY <1>2, <1>5, <1>6, <1>7 DEF Batching, PromptLeft, Begun, Behind
<1>9. Known'
  BY <1>2, <1>4, <1>5, <1>7 DEF Batching, Known, Held, InHand
<1>10. Mediated' = Mediated
  BY <1>5, <1>7 DEF Mediated
<1>11. Reading' \subseteq Reading \cup {s} /\ (Taken(s) = 0 => Reading' \subseteq Reading)
  BY <1>5, <1>6, <1>7, <1>10 DEF Reading
<1>12. Cardinality(Reading) \in Nat /\ Cardinality(Reading') \in Nat
       /\ Cardinality(Reading') <= Cardinality(Reading) + 1
       /\ (Taken(s) = 0 => Cardinality(Reading') <= Cardinality(Reading))
  <2>1. Reading \cup {s} \in SUBSET Slots
    BY ReadingType
  <2>2. Cardinality(Reading \cup {s}) \in Nat
        /\ Cardinality(Reading) \in Nat /\ Cardinality(Reading') \in Nat
    BY <2>1, ReadingType, ReadingSize
  <2>3. Cardinality(Reading \cup {s}) <= Cardinality(Reading) + 1
    BY ReadingType, ReadingSize
  <2>4. Cardinality(Reading') <= Cardinality(Reading \cup {s})
    BY <1>11, <2>1, ReadingType, ReadingSize
  <2>5. Taken(s) = 0 => Cardinality(Reading') <= Cardinality(Reading)
    BY <1>11, ReadingType, ReadingSize
  <2>. QED
    BY <2>2, <2>3, <2>4, <2>5
<1>13. Cardinality(Reading) <= NBatch /\ Cardinality(Reading) <= n_tokens
  BY <1>2 DEF Batching, Counted
<1>14. Cardinality(Reading') <= NBatch /\ Cardinality(Reading') <= n_tokens'
  BY <1>2, <1>3, <1>12, <1>13
<1>15. Counted'
  BY <1>14 DEF Counted
<1>16. BatchWithinCapacity'
  BY <1>2, <1>3, <1>10 DEF Batching, BatchWithinCapacity
<1>. QED
  BY <1>8, <1>9, <1>15, <1>16 DEF Batching

(* ... while media are decoded aside.                                      *)
LEMMA BatchMedia ==
  ASSUME TypeOK, Batching, NEW s \in Slots, FillMedia(s)
  PROVE  Batching'
<1>1. slot[s] \in SlotRecord /\ DOMAIN slot = Slots
  BY DEF TypeOK
<1>2. /\ pc = "fill" /\ scan = s /\ pc' = "prompt" /\ n_tokens' = n_tokens
      /\ slot' = [slot EXCEPT ![s] = MediaFilled(s)] /\ slot[s].media
  BY DEF FillMedia, HasMedia, batch
<1>3. /\ MediaFilled(s).state = "GENERATING"
      /\ MediaFilled(s).num_prompt_tokens = slot[s].num_prompt_tokens
      /\ MediaFilled(s).media = slot[s].media
  BY <1>1 DEF MediaFilled, SlotRecord
<1>4. slot'[s] = MediaFilled(s) /\ \A t \in Slots : t # s => slot'[t] = slot[t]
  BY <1>1, <1>2
<1>5. PromptLeft' /\ Begun'
  BY <1>2, <1>3, <1>4 DEF Batching, PromptLeft, Begun, Behind
<1>6. Known'
  BY <1>2, <1>3, <1>4 DEF Batching, Known, Held, InHand
<1>7. Mediated \subseteq Mediated' /\ s \in Mediated'
  BY <1>2, <1>3, <1>4 DEF Mediated
<1>8. Reading' \subseteq Reading
  BY <1>4, <1>7 DEF Reading, Mediated
<1>9. /\ Cardinality(Reading') <= Cardinality(Reading)
      /\ Cardinality(Mediated) <= Cardinality(Mediated')
      /\ Cardinality(Reading) \in Nat /\ Cardinality(Reading') \in Nat
      /\ Cardinality(Mediated) \in Nat /\ Cardinality(Mediated') \in Nat
  BY <1>7, <1>8, ReadingType, ReadingSize
<1>10. n_tokens \in Nat
  BY DEF TypeOK
<1>11. Counted'
  BY <1>2, <1>9, <1>10 DEF Batching, Counted
<1>12. Cardinality(Mediated)' = Cardinality(Mediated')
  OBVIOUS
<1>13. BatchWithinCapacity'
  BY <1>2, <1>9, <1>10, <1>12 DEF Batching, BatchWithinCapacity
<1>. QED
  BY <1>5, <1>6, <1>11, <1>13 DEF Batching

(* The first pass adds what generates, read or decoded aside.              *)
LEMMA BatchBuild ==
  ASSUME TypeOK, Batching, BuildGenerating
  PROVE  Batching'
<1>1. /\ pc = "build" /\ pc' = "prompt" /\ n_tokens' = Cardinality(Continuing)
      /\ \A t \in Slots : slot'[t] = IF t \in Continuing
                                      THEN [slot[t] EXCEPT !.n_past = @ + 1] ELSE slot[t]
  BY DEF BuildGenerating
<1>2. \A t \in Slots : slot[t] \in SlotRecord
  BY DEF TypeOK
<1>3. ASSUME NEW t \in Slots PROVE Calm(t)
  <2>1. /\ slot'[t].state = slot[t].state /\ slot'[t].media = slot[t].media
        /\ slot'[t].num_prompt_tokens = slot[t].num_prompt_tokens
        /\ slot[t].state = "PROCESSING_PROMPT" => slot'[t].n_past = slot[t].n_past
    BY <1>1, <1>2 DEF SlotRecord, Continuing
  <2>. QED
    BY <1>1, <2>1 DEF Calm, InHand, Behind
<1>4. PromptLeft' /\ Known' /\ Begun' /\ Reading' \subseteq Reading /\ Mediated' = Mediated
  BY <1>3, BatchSlots
<1>5. Reading \subseteq Continuing /\ Continuing \subseteq Reading \cup Mediated
  BY <1>1 DEF Batching, Begun, Behind, Reading, Continuing
<1>6. Continuing \in SUBSET Slots /\ Reading \cup Mediated \in SUBSET Slots
  BY ReadingType DEF Continuing
<1>7. /\ Cardinality(Reading) \in Nat /\ Cardinality(Reading') \in Nat
      /\ Cardinality(Mediated) \in Nat /\ Cardinality(Continuing) \in Nat
      /\ Cardinality(Reading \cup Mediated) \in Nat
  BY <1>6, ReadingType, ReadingSize
<1>8. /\ Cardinality(Reading') <= Cardinality(Reading)
      /\ Cardinality(Reading) <= Cardinality(Continuing)
  BY <1>4, <1>5, <1>6, ReadingType, ReadingSize
<1>9. Cardinality(Continuing) <= Cardinality(Reading) + Cardinality(Mediated)
  <2>1. Cardinality(Continuing) <= Cardinality(Reading \cup Mediated)
    BY <1>5, <1>6, ReadingSize
  <2>2. Cardinality(Reading \cup Mediated) <= Cardinality(Reading) + Cardinality(Mediated)
    BY ReadingType, ReadingSize
  <2>. QED
    BY <1>7, <2>1, <2>2
<1>10. Cardinality(Continuing) <= NSlots
  BY <1>6, ReadingSize
<1>11. Cardinality(Reading) <= NBatch
  BY DEF Batching, Counted
<1>12. Counted'
  BY <1>1, <1>7, <1>8, <1>11 DEF Counted
<1>13. BatchWithinCapacity'
  BY <1>1, <1>4, <1>7, <1>9, <1>10, <1>11 DEF BatchWithinCapacity
<1>. QED
  BY <1>4, <1>12, <1>13 DEF Batching

LEMMA BatchCaller ==
  ASSUME TypeOK, Batching,
         \/ \E shape \in Shapes : QueueRequest(shape) \/ AnswerAtOnce(shape)
         \/ \E c \in Clients : CancelEffect(c) \/ \E r \in Ids : CancelLookup(c, r)
  PROVE  Batching'
<1>1. ASSUME UNCHANGED <<slot, pc, scan, n_tokens>> PROVE Batching'
  <2>1. \A t \in Slots : Calm(t)
    BY <1>1 DEF Calm, InHand, Held, Behind
  <2>. QED
    BY <1>1, <2>1, BatchKept
<1>2. ASSUME NEW c \in Clients, CancelInterrupt(c) \/ CancelDone(c) PROVE Batching'
  <2>. DEFINE s == cancelling[c].slot
  <2>1. /\ s \in Slots /\ UNCHANGED <<pc, scan>>
        /\ \A t \in Slots : t # s => slot'[t] = slot[t]
        /\ slot'[s] = Interrupted(s) \/ slot'[s] = Stopped(s)
    BY <1>2, CancelWrites
  <2>2. slot[s] \in SlotRecord
    BY <2>1 DEF TypeOK
  <2>3. /\ slot'[s].state \in {slot[s].state, "DONE"}
        /\ slot'[s].n_past = slot[s].n_past /\ slot'[s].text = slot[s].text
        /\ slot'[s].num_prompt_tokens = slot[s].num_prompt_tokens
        /\ slot'[s].media = slot[s].media
    BY <2>1, <2>2 DEF Interrupted, Stopped, SlotRecord
  <2>4. UNCHANGED n_tokens
    BY <1>2 DEF CancelInterrupt, CancelDone, batch
  <2>. HIDE DEF s
  <2>5. \A t \in Slots : Calm(t)
    BY <2>1, <2>3 DEF Calm, InHand, Held, Behind
  <2>. QED
    BY <2>1, <2>4, <2>5, BatchKept
<1>3. ASSUME NEW shape \in Shapes, QueueRequest(shape) \/ AnswerAtOnce(shape)
      PROVE  UNCHANGED <<slot, pc, scan, n_tokens>>
  BY <1>3 DEF QueueRequest, AnswerAtOnce, pool, loop, batch
<1>4. ASSUME NEW c \in Clients, CancelPending(c) \/ CancelMissing(c)
                                \/ \E r \in Ids : CancelLookup(c, r)
      PROVE  UNCHANGED <<slot, pc, scan, n_tokens>>
  BY <1>4 DEF CancelPending, CancelMissing, CancelLookup, pool, loop, batch
<1>. QED
  BY <1>1, <1>2, <1>3, <1>4 DEF CancelEffect

LEMMA BatchStep == TypeOK /\ Prefill /\ Batching /\ [Next]_vars => Batching'
<1>. SUFFICES ASSUME TypeOK, Prefill, Batching, [Next]_vars PROVE Batching'
  OBVIOUS
<1>1. ASSUME NEW s \in Slots, SlotStep(s) PROVE Batching'
  BY <1>1, BatchServe, BatchFill, BatchMedia DEF Prefill
<1>2. ASSUME SaveCheckpoints PROVE Batching'
  <2>1. pc = "checkpoint" /\ pc' = "sample" /\ scan' = 1
        /\ \A t \in Slots : slot'[t] = IF CheckpointDue(t)
                                        THEN [slot[t] EXCEPT !.checkpoint = 0] ELSE slot[t]
    BY <1>2 DEF SaveCheckpoints
  <2>2. \A t \in Slots : slot[t] \in SlotRecord
    BY DEF TypeOK
  <2>3. ASSUME NEW t \in Slots PROVE Calm(t)
    <3>1. /\ slot'[t].state = slot[t].state /\ slot'[t].media = slot[t].media
          /\ slot'[t].num_prompt_tokens = slot[t].num_prompt_tokens
          /\ slot'[t].n_past = slot[t].n_past
      BY <2>1, <2>2 DEF SlotRecord
    <3>. QED
      BY <2>1, <3>1 DEF Calm, InHand, Behind
  <2>. QED
    BY <2>1, <2>3, BatchIdle
<1>3. ASSUME \/ PendingDone \/ CheckActive \/ Decode \/ DecodeFails
             \/ ReleaseDone \/ Loop \/ WakeUp
      PROVE  Batching'
  <2>1. /\ UNCHANGED slot /\ pc' \notin {"prompt", "fill", "decode", "emit", "sample"}
        /\ pc \in {"prompt", "fill", "decode", "checkpoint", "sample", "emit", "failed"} =>
             pc' = "checkpoint" \/ (pc' = "failed" /\ scan' = 1)
        /\ pc' = "failed" => scan' = 1
    BY <1>3 DEF PendingDone, CheckActive, Decode, DecodeFails, ReleaseDone, Loop, WakeUp, pool
  <2>2. \A t \in Slots : Calm(t)
    BY <2>1 DEF Calm, InHand, Behind
  <2>. QED
    BY <2>1, <2>2, BatchIdle
<1>4. ASSUME PromptDone PROVE Batching'
  <2>1. UNCHANGED <<slot, n_tokens>> /\ pc = "prompt" /\ pc' \in {"decode", "checkpoint"}
    BY <1>4 DEF PromptDone, pool, batch
  <2>2. \A t \in Slots : Calm(t)
    BY <2>1 DEF Calm, InHand, Behind
  <2>. QED
    BY <2>1, <2>2, BatchKept
<1>5. ASSUME FailDone \/ SampleDone PROVE Batching'
  <2>1. UNCHANGED slot /\ pc' \in {"loop", "release"}
        /\ pc \in {"failed", "sample"} /\ None_left({"GENERATING"})
    BY <1>5 DEF FailDone, SampleDone, None_left, pool
  <2>2. ASSUME NEW t \in Slots PROVE Calm(t)
    <3>1. slot[t].state = "GENERATING" => t < scan
      BY <2>1 DEF None_left, TypeOK
    <3>. QED
      BY <2>1, <3>1 DEF Calm, InHand, Behind
  <2>. QED
    BY <2>1, <2>2, BatchIdle
<1>6. ASSUME UNCHANGED vars PROVE Batching'
  <2>1. UNCHANGED <<slot, pc, scan, n_tokens>>
    BY <1>6 DEF vars, pool, loop, batch
  <2>2. \A t \in Slots : Calm(t)
    BY <2>1 DEF Calm, InHand, Held, Behind
  <2>. QED
    BY <2>1, <2>2, BatchKept
<1>. QED
  BY <1>1, <1>2, <1>3, <1>4, <1>5, <1>6, BatchBuild, BatchCaller DEF Next, Process

LEMMA BatchInit == Init => Batching
<1>. SUFFICES ASSUME Init PROVE Batching
  OBVIOUS
<1>1. \A s \in Slots : slot[s] = Fresh
  BY DEF Init
<1>2. pc = "pending"
  BY DEF Init
<1>3. Reading = {} /\ \A s \in Slots : slot[s].state = "IDLE"
  BY <1>1 DEF Reading, Fresh
<1>4. Cardinality(Reading) = 0
  BY <1>3, FS_EmptySet
<1>. QED
  BY <1>2, <1>3, <1>4 DEF Batching, PromptLeft, Known, Held, InHand, Begun, Counted,
                          BatchWithinCapacity

(* The batch never holds more tokens than it was allocated for, whatever   *)
(* n_parallel and n_batch are, but for the slots of requests with media    *)
(* when there are more slots than entries.                                 *)
THEOREM BatchFits == Spec => []BatchWithinCapacity
<1>1. Batching => BatchWithinCapacity
  BY DEF Batching
<1>. QED
  BY <1>1, TypeInit, TypeStep, PrefillInit, PrefillStep, BatchInit, BatchStep, PTL DEF Spec
-----------------------------------------------------------------------------
(* Refinement: every step is one of the abstract service or changes        *)
(* nothing the service has, by Placement.                                  *)

NoneMoves == \A t \in Slots : rid(t)' = rid(t) /\ Held(t)' = Held(t)
OthersStay(s) == \A t \in Slots : t # s => rid(t)' = rid(t) /\ Held(t)' = Held(t)

LEMMA RunningKept ==
  ASSUME NoneMoves
  PROVE  Running' = Running
BY DEF NoneMoves, Running, rid

LEMMA RunningLess ==
  ASSUME TypeOK, Placement, NEW s \in Slots, Held(s), ~Held(s)', OthersStay(s)
  PROVE  rid(s) \in Ids /\ rid(s) \in Running /\ Running' = Running \ {rid(s)}
<1>1. rid(s) \in Ids /\ \A t \in Slots : Held(t) /\ rid(t) = rid(s) => t = s
  BY QueueTypes DEF Placement, InService, OneSlot
<1>2. rid(s) \in Running
  BY DEF Running, rid
<1>3. \A x : x \in Running' <=> \E t \in Slots : Held(t)' /\ rid(t)' = x
  BY DEF Running, rid
<1>4. \A x : x \in Running <=> \E t \in Slots : Held(t) /\ rid(t) = x
  BY DEF Running, rid
<1>5. \A x : x \in Running' <=> \E t \in Slots : t # s /\ Held(t) /\ rid(t) = x
  BY <1>3 DEF OthersStay
<1>6. Running' = Running \ {rid(s)}
  BY <1>1, <1>4, <1>5
<1>. QED
  BY <1>1, <1>2, <1>6

LEMMA SameCardinality == \A S : Service!Cardinality(S) = Cardinality(S)
BY DEF Service!Cardinality, Cardinality

(* A slot that holds no request leaves room for one.                       *)
LEMMA Room ==
  ASSUME NEW s \in Slots, ~Held(s)
  PROVE  Cardinality(Running) < NSlots
<1>. DEFINE H == {t \in Slots : Held(t)}
            f == [t \in H |-> slot[t].request_id]
<1>1. IsFiniteSet(Slots) /\ Cardinality(Slots) = NSlots
  BY FS_Interval
<1>2. IsFiniteSet(Slots \ {s}) /\ Cardinality(Slots \ {s}) = NSlots - 1
  <2>1. Cardinality(Slots \ {s}) = Cardinality(Slots) - 1 /\ IsFiniteSet(Slots \ {s})
    BY <1>1, FS_RemoveElement
  <2>. QED
    BY <1>1, <2>1
<1>3. H \subseteq Slots \ {s}
  OBVIOUS
<1>4. /\ IsFiniteSet(H) /\ Cardinality(H) <= NSlots - 1
      /\ Cardinality(H) \in Nat
  BY <1>2, <1>3, FS_Subset, FS_CardinalityType
<1>5. f \in Surjection(H, Running)
  BY DEF Running, Surjection
<1>6. IsFiniteSet(Running) /\ Cardinality(Running) <= Cardinality(H)
  BY <1>4, <1>5, FS_Surjection
<1>. QED
  BY <1>4, <1>6, FS_CardinalityType

(* The queue as the service sees it.                                       *)
LEMMA WaitingType ==
  ASSUME TypeOK
  PROVE  /\ Waiting \in Seq(Ids) /\ Len(Waiting) = Len(queue_requests)
         /\ Len(Waiting) \in Nat
         /\ \A i \in 1 .. Len(Waiting) : Waiting[i] = queue_requests[i].id
<1>1. queue_requests \in Seq(Request) /\ Len(queue_requests) \in Nat
  BY DEF TypeOK
<1>2. \A i \in DOMAIN queue_requests : queue_requests[i].id \in Ids
  BY QueueTypes
<1>. QED
  BY <1>1, <1>2 DEF Waiting

LEMMA SeqElements ==
  ASSUME NEW S, NEW q \in Seq(S), NEW n, Len(q) = n
  PROVE  q = [i \in 1 .. n |-> q[i]]
OBVIOUS

LEMMA WaitingLess ==
  ASSUME TypeOK, queue_requests # <<>>, queue_requests' = Tail(queue_requests)
  PROVE  /\ Waiting # <<>> /\ Head(Waiting) = Head(queue_requests).id
         /\ Waiting' = Tail(Waiting)
<1>1. /\ queue_requests \in Seq(Request) /\ Len(queue_requests) \in Nat \ {0}
  BY DEF TypeOK
<1>2. /\ Waiting \in Seq(Ids) /\ Len(Waiting) = Len(queue_requests)
      /\ \A i \in 1 .. Len(Waiting) : Waiting[i] = queue_requests[i].id
  BY WaitingType
<1>3. /\ Waiting # <<>> /\ Head(Waiting) = Head(queue_requests).id
  BY <1>1, <1>2
<1>4. /\ Len(Tail(Waiting)) = Len(Waiting) - 1 /\ Tail(Waiting) \in Seq(Ids)
      /\ \A i \in 1 .. Len(Waiting) - 1 : Tail(Waiting)[i] = Waiting[i + 1]
  BY <1>2, <1>3, HeadTailProperties
<1>5. /\ DOMAIN queue_requests' = 1 .. Len(queue_requests) - 1
      /\ \A i \in 1 .. Len(queue_requests) - 1 : queue_requests'[i] = queue_requests[i + 1]
  BY <1>1, HeadTailProperties
<1>6. Waiting' = [i \in 1 .. Len(Waiting) - 1 |-> Waiting[i + 1]]
  BY <1>1, <1>2, <1>5 DEF Waiting
<1>7. Tail(Waiting) = [i \in 1 .. Len(Waiting) - 1 |-> Waiting[i + 1]]
  <2>. DEFINE T == Tail(Waiting)
              m == Len(Waiting) - 1
  <2>1. T \in Seq(Ids) /\ Len(T) = m /\ \A i \in 1 .. m : T[i] = Waiting[i + 1]
    BY <1>4
  <2>. HIDE DEF T, m
  <2>2. T = [i \in 1 .. m |-> T[i]]
    BY <2>1, SeqElements
  <2>3. T = [i \in 1 .. m |-> Waiting[i + 1]]
    BY <2>1, <2>2
  <2>. QED
    BY <2>3 DEF T, m
<1>. QED
  BY <1>3, <1>6, <1>7

(* Erasing the k-th entry is what the service calls withdrawing.           *)
LEMMA WaitingErased ==
  ASSUME TypeOK, NEW k \in DOMAIN queue_requests, queue_requests' = Erased(k)
  PROVE  /\ k \in DOMAIN Waiting /\ Waiting[k] = queue_requests[k].id
         /\ Waiting' = SubSeq(Waiting, 1, k - 1) \o SubSeq(Waiting, k + 1, Len(Waiting))
<1>. DEFINE W == Waiting
            n == Len(W)
            A == SubSeq(W, 1, k - 1)
            B == SubSeq(W, k + 1, n)
            at(j) == IF j < k THEN j ELSE j + 1
<1>1. /\ W \in Seq(Ids) /\ n = Len(queue_requests) /\ n \in Nat
      /\ \A i \in 1 .. n : W[i] = queue_requests[i].id
  BY WaitingType
<1>2. DOMAIN queue_requests = 1 .. n /\ DOMAIN W = 1 .. n /\ k \in 1 .. n
  BY <1>1 DEF TypeOK
<1>3. Waiting' = [j \in 1 .. n - 1 |-> W[at(j)]]
  <2>1. queue_requests' = [j \in 1 .. n - 1 |-> queue_requests[at(j)]]
    BY <1>1 DEF Erased
  <2>2. \A j \in 1 .. n - 1 : at(j) \in 1 .. n
    BY <1>2
  <2>. HIDE DEF n, W, at
  <2>. QED
    BY <1>1, <2>1, <2>2 DEF Waiting
<1>. HIDE DEF W, n
<1>4. A \in Seq(Ids) /\ Len(A) = k - 1 /\ \A i \in 1 .. k - 1 : A[i] = W[i]
  <2>1. \A i \in 1 .. k - 1 : W[i] \in Ids
    BY <1>1, <1>2
  <2>2. 1 \in Int /\ k - 1 \in Int
    BY <1>2
  <2>. QED
    BY <1>2, <2>1, <2>2, SubSeqProperties
<1>5. B \in Seq(Ids) /\ Len(B) = n - k /\ \A i \in 1 .. n - k : B[i] = W[k + i]
  <2>1. \A i \in k + 1 .. n : W[i] \in Ids
    BY <1>1, <1>2
  <2>2. n \in Int /\ k + 1 \in Int
    BY <1>1, <1>2
  <2>3. /\ B \in Seq(Ids) /\ Len(B) = IF k + 1 <= n THEN n - (k + 1) + 1 ELSE 0
        /\ \A i \in 1 .. n - (k + 1) + 1 : B[i] = W[k + 1 + i - 1]
    BY <2>1, <2>2, SubSeqProperties
  <2>4. /\ n - (k + 1) + 1 = n - k /\ (IF k + 1 <= n THEN n - k ELSE 0) = n - k
        /\ \A i \in 1 .. n - k : k + 1 + i - 1 = k + i
    BY <1>1, <1>2
  <2>. HIDE DEF B
  <2>5. B \in Seq(Ids) /\ Len(B) = n - k
    BY <2>3, <2>4
  <2>6. \A i \in 1 .. n - k : B[i] = W[k + i]
    BY <2>3, <2>4
  <2>. QED
    BY <2>5, <2>6
<1>. HIDE DEF A, B
<1>6. /\ A \o B \in Seq(Ids) /\ Len(A \o B) = n - 1
      /\ \A i \in 1 .. n - 1 : (A \o B)[i] = W[at(i)]
  <2>1. /\ A \o B \in Seq(Ids) /\ Len(A \o B) = Len(A) + Len(B)
        /\ \A i \in 1 .. Len(A) + Len(B) :
             (A \o B)[i] = IF i <= Len(A) THEN A[i] ELSE B[i - Len(A)]
    BY <1>4, <1>5, ConcatProperties
  <2>2. Len(A) + Len(B) = n - 1
    <3>1. k \in Int /\ n \in Int
      BY <1>1, <1>2
    <3>2. (k - 1) + (n - k) = n - 1
      BY <3>1
    <3>. QED
      BY <1>4, <1>5, <3>2
  <2>3. ASSUME NEW i \in 1 .. n - 1 PROVE (A \o B)[i] = W[at(i)]
    <3>1. CASE i <= k - 1
      BY <1>2, <1>4, <2>1, <2>2, <3>1
    <3>2. CASE ~(i <= k - 1)
      <4>1. (A \o B)[i] = B[i - (k - 1)] /\ i - (k - 1) \in 1 .. n - k
        <5>1. i \in Int /\ k \in Int /\ n \in Int /\ i <= n - 1
          BY <1>1, <1>2
        <5>2. i - (k - 1) \in 1 .. n - k
          BY <3>2, <5>1
        <5>3. ~(i <= Len(A)) /\ Len(A) = k - 1 /\ i \in 1 .. Len(A) + Len(B)
          BY <1>4, <2>2, <3>2
        <5>. QED
          BY <2>1, <5>2, <5>3
      <4>2. k + (i - (k - 1)) = at(i)
        BY <1>2, <3>2
      <4>. QED
        BY <1>5, <4>1, <4>2
    <3>. QED
      BY <3>1, <3>2
  <2>. QED
    BY <2>1, <2>2, <2>3
<1>7. A \o B = [j \in 1 .. n - 1 |-> W[at(j)]]
  <2>1. A \o B = [j \in 1 .. n - 1 |-> (A \o B)[j]]
    BY <1>6, SeqElements
  <2>. HIDE DEF at
  <2>. QED
    BY <1>6, <2>1
<1>. QED
  BY <1>1, <1>2, <1>3, <1>7 DEF A, B, W, n

(* A step on slot s leaves the other slots alone.                          *)
LEMMA OthersUntouched ==
  ASSUME TypeOK, NEW s \in Slots, SlotStep(s), NEW t \in Slots, t # s
  PROVE  slot'[t] = slot[t] /\ ~InHand(t) /\ ~InHand(t)'
<1>a. DOMAIN slot = Slots
  BY DEF TypeOK
<1>1. CASE Assign(s) \/ FailLoad(s)
  BY <1>a, <1>1 DEF Assign, FailLoad, InHand, loop
<1>2. CASE PromptSlot(s) \/ SampleSlot(s)
  BY <1>a, <1>2 DEF PromptSlot, SampleSlot, InHand, pool
<1>3. CASE FillText(s) \/ FillMedia(s) \/ FailMedia(s)
  BY <1>a, <1>3 DEF FillText, FillMedia, FailMedia, InHand
<1>4. CASE FailSlot(s) \/ SampleSkip(s) \/ ReleaseSlot(s)
  BY <1>a, <1>4 DEF FailSlot, SampleSkip, ReleaseSlot, InHand
<1>5. CASE EmitEog(s) \/ EmitEmbedding(s) \/ EmitScores(s)
  BY <1>a, <1>5 DEF EmitEog, EmitEmbedding, EmitScores, Emitting, Finish, InHand
<1>6. CASE EmitLast(s) \/ EmitToken(s) \/ NextDocument(s)
  BY <1>a, <1>6 DEF EmitLast, EmitToken, NextDocument, Emitting, InHand
<1>. QED
  BY <1>1, <1>2, <1>3, <1>4, <1>5, <1>6 DEF SlotStep

LEMMA OthersAlone ==
  ASSUME TypeOK, NEW s \in Slots, SlotStep(s)
  PROVE  OthersStay(s)
BY OthersUntouched DEF OthersStay, rid, Held

(* The request of a slot ends without an answer, or nothing does.          *)
LEMMA EndsQuietly ==
  ASSUME TypeOK, Placement, UNCHANGED <<next_request_id, queue_requests, answers>>,
         NEW s \in Slots, OthersStay(s), SameRequests
  PROVE  [Service!Next]_Service!vars
<1>1. UNCHANGED <<Submitted, Waiting, answers>>
  BY DEF Submitted, Waiting
<1>2. CASE Held(s)' = Held(s)
  <2>1. NoneMoves
    BY <1>2 DEF NoneMoves, OthersStay, SameRequests
  <2>. QED
    BY <1>1, <2>1, RunningKept DEF Service!vars
<1>3. CASE Held(s)' # Held(s)
  <2>1. Held(s) /\ ~Held(s)'
    BY <1>3 DEF SameRequests, Held, InHand
  <2>2. rid(s) \in Ids /\ Service!Drop(rid(s))
    BY <1>1, <2>1, RunningLess DEF Service!Drop
  <2>. QED
    BY <2>2 DEF Service!Next
<1>. QED
  BY <1>2, <1>3

(* ... or with its one answer.                                             *)
LEMMA EndsAnswered ==
  ASSUME TypeOK, Placement, UNCHANGED <<next_request_id, queue_requests>>,
         NEW s \in Slots, OthersStay(s), Held(s), ~Held(s)', Answer(rid(s))
  PROVE  Service!Next
<1>1. UNCHANGED <<Submitted, Waiting>>
  BY DEF Submitted, Waiting
<1>2. rid(s) \in Ids /\ rid(s) \in Running /\ Running' = Running \ {rid(s)}
  BY RunningLess
<1>3. answers[rid(s)] = 0
  BY DEF Placement, InService
<1>4. Service!Answer(rid(s))
  BY <1>3 DEF Answer, Service!Answer
<1>5. Service!Finish(rid(s))
  BY <1>1, <1>2, <1>4 DEF Service!Finish
<1>. QED
  BY <1>2, <1>5 DEF Service!Next

(* The request at the head of the queue enters a slot, or is answered.     *)
LEMMA Starts ==
  ASSUME TypeOK, Placement, NEW s \in Slots, Assign(s)
  PROVE  Service!Next
<1>. DEFINE r == Head(queue_requests).id
<1>1. /\ queue_requests # <<>> /\ Oldest(s) /\ pc \notin {"fill", "emit"}
      /\ queue_requests' = Tail(queue_requests)
      /\ UNCHANGED <<next_request_id, answers, pc, scan>>
  BY DEF Assign, caller, loop
<1>2. PICK n \in Reusable(s, Head(queue_requests)) :
             slot' = [slot EXCEPT ![s] = Loaded(s, Head(queue_requests), n)]
  BY DEF Assign
<1>3. /\ slot'[s].request_id = r /\ slot'[s].state \in Busy
      /\ \A t \in Slots : t # s => slot'[t] = slot[t]
  BY <1>2 DEF TypeOK, Loaded
<1>4. ~Held(s) /\ Held(s)' /\ \A t \in Slots : t # s => Held(t)' = Held(t)
  BY <1>1, <1>3 DEF Oldest, Held, InHand
<1>. HIDE DEF r
<1>5. Running' = Running \cup {r}
  <2>1. \A x : x \in Running' <=> \E t \in Slots : Held(t)' /\ slot'[t].request_id = x
    BY DEF Running
  <2>2. \A x : x \in Running <=> \E t \in Slots : Held(t) /\ slot[t].request_id = x
    BY DEF Running
  <2>. QED
    BY <1>3, <1>4, <2>1, <2>2
<1>6. Service!HasRoom
  <2>1. Cardinality(Running) < NSlots
    BY <1>4, Room
  <2>2. Waiting # <<>>
    BY <1>1, WaitingLess
  <2>. QED
    BY <2>1, <2>2, SameCardinality DEF Service!HasRoom
<1>7. Waiting' = Tail(Waiting) /\ Head(Waiting) = r
  BY <1>1, WaitingLess DEF r
<1>8. UNCHANGED <<Submitted, answers>>
  BY <1>1 DEF Submitted
<1>. QED
  BY <1>5, <1>6, <1>7, <1>8 DEF Service!Next, Service!Start

LEMMA StartFails ==
  ASSUME TypeOK, Placement, NEW s \in Slots, FailLoad(s)
  PROVE  Service!Next
<1>. DEFINE r == Head(queue_requests).id
<1>1. /\ queue_requests # <<>> /\ Oldest(s) /\ pc \notin {"fill", "emit"}
      /\ queue_requests' = Tail(queue_requests) /\ Answer(r)
      /\ slot' = [slot EXCEPT ![s] = LoadFailed(s, Head(queue_requests))]
      /\ UNCHANGED <<next_request_id, pc, scan>>
  BY DEF FailLoad, caller, loop
<1>2. slot'[s].state \notin Busy /\ \A t \in Slots : t # s => slot'[t] = slot[t]
  <2>1. slot[s] \in SlotRecord /\ slot'[s] = LoadFailed(s, Head(queue_requests))
        /\ \A t \in Slots : t # s => slot'[t] = slot[t]
    BY <1>1 DEF TypeOK
  <2>. QED
    BY <2>1 DEF LoadFailed, SlotRecord
<1>3. ~Held(s) /\ ~Held(s)' /\ \A t \in Slots : t # s => Held(t)' = Held(t)
  BY <1>1, <1>2 DEF Oldest, Held, InHand
<1>4. Running' = Running
  <2>1. \A x : x \in Running' <=> \E t \in Slots : Held(t)' /\ slot'[t].request_id = x
    BY DEF Running
  <2>2. \A x : x \in Running <=> \E t \in Slots : Held(t) /\ slot[t].request_id = x
    BY DEF Running
  <2>3. \A t \in Slots : Held(t) => Held(t)' /\ slot'[t] = slot[t]
    BY <1>2, <1>3
  <2>4. \A t \in Slots : Held(t)' => Held(t) /\ slot'[t] = slot[t]
    BY <1>2, <1>3
  <2>. QED
    BY <2>1, <2>2, <2>3, <2>4
<1>5. Service!HasRoom
  <2>1. Cardinality(Running) < NSlots
    BY <1>3, Room
  <2>2. Waiting # <<>>
    BY <1>1, WaitingLess
  <2>. QED
    BY <2>1, <2>2, SameCardinality DEF Service!HasRoom
<1>6. Waiting' = Tail(Waiting) /\ Head(Waiting) = r
  BY <1>1, WaitingLess
<1>7. answers[r] = 0
  <2>1. 1 \in DOMAIN queue_requests /\ r = queue_requests[1].id
    BY <1>1 DEF TypeOK
  <2>. QED
    BY <2>1 DEF Placement, InQueue
<1>8. Service!Answer(r)
  BY <1>1, <1>7 DEF Answer, Service!Answer
<1>9. UNCHANGED Submitted
  BY <1>1 DEF Submitted
<1>. HIDE DEF r
<1>. QED
  BY <1>4, <1>5, <1>6, <1>8, <1>9 DEF Service!Next, Service!FailToStart

LEMMA CallerImplements ==
  ASSUME TypeOK, Placement,
         \/ \E shape \in Shapes : QueueRequest(shape) \/ AnswerAtOnce(shape)
         \/ \E c \in Clients : CancelEffect(c) \/ \E r \in Ids : CancelLookup(c, r)
  PROVE  [Service!Next]_Service!vars
<1>a. ASSUME UNCHANGED <<slot, pc, scan>> PROVE Running' = Running
  BY <1>a, RunningKept DEF NoneMoves, rid, Held, InHand
<1>b. ASSUME next_request_id <= MaxRequests, next_request_id' = next_request_id + 1
      PROVE  /\ next_request_id \in Ids /\ next_request_id \notin Submitted
             /\ Submitted' = Submitted \cup {next_request_id}
  BY <1>b DEF TypeOK, Submitted, ConstantsAssumption
<1>1. ASSUME NEW shape \in Shapes, QueueRequest(shape) PROVE Service!Next
  <2>. DEFINE q == [id |-> next_request_id, shape |-> shape]
              n == Len(queue_requests)
  <2>1. /\ queue_requests' = Append(queue_requests, q) /\ q.id = next_request_id
        /\ UNCHANGED <<slot, pc, scan, answers>>
        /\ next_request_id <= MaxRequests /\ next_request_id' = next_request_id + 1
    BY <1>1 DEF QueueRequest, pool, loop
  <2>2. /\ n \in Nat /\ DOMAIN queue_requests' = 1 .. n + 1
        /\ queue_requests'[n + 1] = q
        /\ \A i \in 1 .. n : queue_requests'[i] = queue_requests[i]
    BY <2>1 DEF TypeOK
  <2>3. /\ Waiting \in Seq(Ids) /\ Len(Waiting) = n
        /\ \A i \in 1 .. n : Waiting[i] = queue_requests[i].id
    BY WaitingType
  <2>. HIDE DEF q, n
  <2>4. Waiting' = [i \in 1 .. n + 1 |-> IF i = n + 1 THEN next_request_id ELSE Waiting[i]]
    BY <2>1, <2>2, <2>3 DEF Waiting
  <2>5. /\ Append(Waiting, next_request_id) \in Seq(Ids)
        /\ Len(Append(Waiting, next_request_id)) = n + 1
        /\ Append(Waiting, next_request_id)[n + 1] = next_request_id
        /\ \A i \in 1 .. n : Append(Waiting, next_request_id)[i] = Waiting[i]
    BY <1>b, <2>1, <2>3, AppendProperties
  <2>6. Append(Waiting, next_request_id) =
          [i \in 1 .. n + 1 |-> IF i = n + 1 THEN next_request_id ELSE Waiting[i]]
    <3>. DEFINE W == Append(Waiting, next_request_id)
    <3>1. W \in Seq(Ids) /\ Len(W) = n + 1 /\ W[n + 1] = next_request_id
          /\ \A i \in 1 .. n : W[i] = Waiting[i]
      BY <2>5
    <3>. HIDE DEF W
    <3>2. W = [i \in 1 .. n + 1 |-> W[i]]
      BY <3>1, SeqElements
    <3>3. \A i \in 1 .. n + 1 : W[i] = IF i = n + 1 THEN next_request_id ELSE Waiting[i]
      BY <2>2, <3>1
    <3>4. W = [i \in 1 .. n + 1 |-> IF i = n + 1 THEN next_request_id ELSE Waiting[i]]
      BY <3>2, <3>3
    <3>. QED
      BY <3>4 DEF W
  <2>7. Service!Submit(next_request_id)
    BY <1>a, <1>b, <2>1, <2>4, <2>6 DEF Service!Submit
  <2>. QED
    BY <1>b, <2>1, <2>7 DEF Service!Next
<1>2. ASSUME NEW shape \in Shapes, AnswerAtOnce(shape) PROVE Service!Next
  <2>1. /\ UNCHANGED <<slot, pc, scan, queue_requests>> /\ Answer(next_request_id)
        /\ next_request_id <= MaxRequests /\ next_request_id' = next_request_id + 1
    BY <1>2 DEF AnswerAtOnce, pool, loop
  <2>2. next_request_id \in Ids /\ answers[next_request_id] = 0
    BY <1>b, <2>1, QueueTypes DEF Placement, NotYet
  <2>3. Service!Answer(next_request_id)
    BY <2>1, <2>2 DEF Answer, Service!Answer
  <2>4. Running' = Running /\ Waiting' = Waiting
    BY <1>a, <2>1 DEF Waiting
  <2>5. Service!Refuse(next_request_id)
    BY <1>b, <2>1, <2>3, <2>4 DEF Service!Refuse
  <2>. QED
    BY <2>2, <2>5 DEF Service!Next
<1>3. ASSUME NEW c \in Clients, CancelMissing(c) \/ \E r \in Ids : CancelLookup(c, r)
      PROVE  UNCHANGED Service!vars
  <2>1. UNCHANGED <<slot, pc, scan, queue_requests, next_request_id, answers>>
    BY <1>3 DEF CancelMissing, CancelLookup, pool, loop
  <2>. QED
    BY <1>a, <2>1 DEF Service!vars, Submitted, Waiting
<1>4. ASSUME NEW c \in Clients, CancelInterrupt(c) \/ CancelDone(c)
      PROVE  [Service!Next]_Service!vars
  <2>. DEFINE s == cancelling[c].slot
  <2>1. /\ s \in Slots /\ UNCHANGED <<pc, scan>> /\ SameRequests
        /\ \A t \in Slots : t # s => slot'[t] = slot[t]
    BY <1>4, CancelWrites
  <2>2. UNCHANGED <<next_request_id, queue_requests, answers>>
    BY <1>4 DEF CancelInterrupt, CancelDone
  <2>. HIDE DEF s
  <2>3. OthersStay(s)
    BY <2>1 DEF OthersStay, rid, Held, InHand
  <2>. QED
    BY <2>1, <2>2, <2>3, EndsQuietly
<1>5. ASSUME NEW c \in Clients, CancelPending(c) PROVE Service!Next
  <2>. DEFINE r == cancelling[c].id
  <2>1. PICK k \in DOMAIN queue_requests :
               queue_requests[k].id = r /\ queue_requests' = Erased(k)
    BY <1>5 DEF CancelPending
  <2>2. UNCHANGED <<slot, pc, scan, next_request_id, answers>>
    BY <1>5 DEF CancelPending, pool, loop
  <2>3. r \in Ids
    BY <2>1, QueueTypes
  <2>4. Service!Withdraw(r)
    BY <1>a, <2>1, <2>2, WaitingErased DEF Service!Withdraw, Submitted
  <2>. QED
    BY <2>3, <2>4 DEF Service!Next
<1>. QED
  BY <1>1, <1>2, <1>3, <1>4, <1>5 DEF CancelEffect

LEMMA SlotImplements ==
  ASSUME TypeOK, Placement, NEW s \in Slots, SlotStep(s)
  PROVE  [Service!Next]_Service!vars
<1>a. OthersStay(s)
  BY OthersAlone
<1>1. CASE Assign(s)
  BY <1>1, Starts
<1>2. CASE FailLoad(s)
  BY <1>2, StartFails
<1>3. CASE ReleaseSlot(s)
  <2>1. ~Held(s) /\ ~Held(s)' /\ UNCHANGED <<next_request_id, queue_requests, answers>>
    BY <1>3 DEF ReleaseSlot, Next_slot, Reset, Fresh, Held, InHand, TypeOK, caller
  <2>2. Running' = Running
    <3>1. \A x : x \in Running' <=> \E t \in Slots : Held(t)' /\ rid(t)' = x
      BY DEF Running, rid
    <3>2. \A x : x \in Running <=> \E t \in Slots : Held(t) /\ rid(t) = x
      BY DEF Running, rid
    <3>. QED
      BY <1>a, <2>1, <3>1, <3>2 DEF OthersStay
  <2>. QED
    BY <2>1, <2>2 DEF Service!vars, Submitted, Waiting
<1>4. CASE ~Assign(s) /\ ~FailLoad(s) /\ ~ReleaseSlot(s)
  BY <1>4, <1>a, Serving, EndsQuietly, EndsAnswered DEF SlotStep, Kept, Untouched
<1>. QED
  BY <1>1, <1>2, <1>3, <1>4

LEMMA IdleImplements ==
  ASSUME TypeOK,
         \/ BuildGenerating \/ SaveCheckpoints \/ UNCHANGED vars
         \/ PendingDone \/ CheckActive \/ PromptDone \/ Decode \/ DecodeFails
         \/ FailDone \/ SampleDone \/ ReleaseDone \/ Loop \/ WakeUp
  PROVE  UNCHANGED Service!vars
<1>1. Untouched /\ UNCHANGED answers /\ \A t \in Slots : rid(t)' = rid(t)
  BY Idling DEF Kept, SameRequests
<1>2. \A t \in Slots : slot'[t].state = slot[t].state
  <2>1. \A t \in Slots : slot[t] \in SlotRecord
    BY DEF TypeOK
  <2>2. CASE BuildGenerating
    BY <2>1, <2>2 DEF BuildGenerating, SlotRecord
  <2>3. CASE SaveCheckpoints
    BY <2>1, <2>3 DEF SaveCheckpoints, SlotRecord
  <2>4. CASE ~BuildGenerating /\ ~SaveCheckpoints
    BY <2>4 DEF PendingDone, CheckActive, PromptDone, Decode, DecodeFails, FailDone,
                SampleDone, ReleaseDone, Loop, WakeUp, vars, pool
  <2>. QED
    BY <2>2, <2>3, <2>4
<1>3. \A t \in Slots : InHand(t)' = InHand(t)
  BY DEF PendingDone, CheckActive, BuildGenerating, PromptDone, Decode, DecodeFails, FailDone,
         SaveCheckpoints, SampleDone, ReleaseDone, Loop, WakeUp, vars, loop, InHand
<1>4. NoneMoves
  BY <1>1, <1>2, <1>3 DEF NoneMoves, Held
<1>. QED
  BY <1>1, <1>4, RunningKept DEF Untouched, Service!vars, Submitted, Waiting

LEMMA ServiceInit == Init => Service!Init
<1>. SUFFICES ASSUME Init PROVE Service!Init
  OBVIOUS
<1>1. Submitted = {}
  BY DEF Init, Submitted
<1>2. Running = {}
  BY DEF Init, Fresh, Running, Held, InHand
<1>3. Waiting = <<>>
  BY DEF Init, Waiting
<1>4. answers = [r \in Ids |-> 0]
  BY DEF Init
<1>. QED
  BY <1>1, <1>2, <1>3, <1>4 DEF Service!Init

LEMMA ServiceStep == TypeOK /\ Placement /\ [Next]_vars => [Service!Next]_Service!vars
BY CallerImplements, SlotImplements, IdleImplements DEF Next, Process

(* ServiceSpec: whatever the slots, batches, failures and cancellations    *)
(* do, callers see a service that takes requests from the front of the     *)
(* queue, serves at most n_parallel at once and answers each at most once. *)
THEOREM ImplementsService == Spec => ServiceSpec
<1>1. TypeOK /\ Placement /\ [Next]_vars => [Service!Next]_Service!vars
  BY ServiceStep
<1>. QED
  BY <1>1, ServiceInit, Placed, PTL DEF Spec, ServiceSpec, Service!Spec

-----------------------------------------------------------------------------
(* The output of a request is its own.                                     *)

(* No request asks for a state file and no decode fails.                   *)
QuietService == ~DecodeMayFail /\ \A shape \in Shapes : ~shape.load

(* A slot holds text of its request only, and none while it is idle; only  *)
(* a slot that is done has the incomplete flag or an error message.        *)
OwnText(S) == /\ S.text \subseteq {S.request_id}
              /\ S.state = "IDLE" => S.text = {}
              /\ S.state # "DONE" => ~S.incomplete /\ ~S.error
AllOwn == \A s \in Slots : OwnText(slot[s])

(* A slot that is done is still to be released by this update_slots.       *)
Sweeps == {"fill", "prompt", "decode", "checkpoint", "sample", "emit", "release"}
Swept == \A s \in Slots : slot[s].state = "DONE" =>
           pc \in Sweeps /\ (pc = "release" => s >= scan)
AtWork == \A s \in Slots : InHand(s) => slot[s].state \in Busy
Clean == AllOwn /\ Swept /\ AtWork /\ pc # "failed"
OwnInv == cancelled = {} => Clean

LEMMA CleanSlot ==
  ASSUME TypeOK, Clean, NEW s \in Slots, NEW S, slot' = [slot EXCEPT ![s] = S],
         OwnText(S),
         \/ pc' \in {"prompt", "sample"} /\ pc \in Sweeps
         \/ pc \in {"pending", "pending2"} /\ pc' = pc /\ S.state # "DONE"
  PROVE  Clean'
<1>1. slot'[s] = S /\ \A t \in Slots : t # s => slot'[t] = slot[t]
  BY DEF TypeOK
<1>2. \A t \in Slots : OwnText(slot'[t])
  BY <1>1 DEF Clean, AllOwn
<1>3. \A t \in Slots : slot'[t].state = "DONE" => pc' \in Sweeps /\ pc' # "release"
  BY <1>1 DEF Clean, Swept, Sweeps
<1>4. pc' \notin {"fill", "emit", "failed"}
  OBVIOUS
<1>. QED
  BY <1>2, <1>3, <1>4 DEF Clean, AllOwn, Swept, AtWork, InHand

LEMMA OwnServe ==
  ASSUME TypeOK, QuietService, Clean, NEW s \in Slots, SlotStep(s)
  PROVE  Clean'
<1>a. /\ slot[s] \in SlotRecord /\ OwnText(slot[s])
      /\ slot[s].text \subseteq {slot[s].request_id}
  BY DEF TypeOK, Clean, AllOwn, OwnText
<1>b. OwnText([slot[s] EXCEPT !.state = "DONE"])
  BY <1>a DEF SlotRecord, OwnText
<1>. DEFINE q == Head(queue_requests)
<1>c. ASSUME queue_requests # <<>> PROVE q \in Request /\ ~q.shape.load
  <2>1. q \in Request
    BY <1>c DEF TypeOK
  <2>. HIDE DEF q
  <2>. QED
    BY <2>1 DEF Request, QuietService
<1>1. ASSUME Assign(s) PROVE Clean'
  <2>1. PICK n : slot' = [slot EXCEPT ![s] = Loaded(s, q, n)]
    BY <1>1 DEF Assign
  <2>2. pc \in {"pending", "pending2"} /\ pc' = pc /\ slot[s].state \in Avail
    BY <1>1 DEF Assign, Oldest, loop
  <2>3. slot[s].state = "IDLE" /\ slot[s].text = {} /\ ~slot[s].incomplete /\ ~slot[s].error
    BY <1>a, <2>2 DEF Clean, Swept, Sweeps, OwnText
  <2>. HIDE DEF q
  <2>4. OwnText(Loaded(s, q, n)) /\ Loaded(s, q, n).state # "DONE"
    BY <2>3 DEF Loaded, OwnText
  <2>. QED
    BY <2>1, <2>2, <2>4, CleanSlot
<1>2. ASSUME FailLoad(s) PROVE Clean'
  BY <1>2, <1>c DEF FailLoad
<1>3. ASSUME PromptSlot(s) \/ SampleSlot(s) PROVE Clean'
  <2>1. slot' = slot /\ slot[s].state \in Busy /\ pc' \in {"fill", "emit"} /\ scan' = s
        /\ pc \in {"prompt", "sample"}
    BY <1>3 DEF PromptSlot, SampleSlot, Next_slot, pool
  <2>. QED
    BY <2>1 DEF Clean, AllOwn, Swept, Sweeps, AtWork, InHand
<1>d. ASSUME pc = "fill" \/ pc = "emit", s = scan PROVE slot[s].state \in Busy
  BY <1>d DEF Clean, AtWork, InHand
<1>4. ASSUME FillText(s) PROVE Clean'
  <2>. DEFINE n == slot[s].n_past + Taken(s)
              st == IF n >= slot[s].num_prompt_tokens THEN "GENERATING" ELSE slot[s].state
  <2>1. slot' = [slot EXCEPT ![s] = Filled(s)] /\ pc' = "prompt" /\ pc = "fill" /\ s = scan
    BY <1>4 DEF FillText
  <2>2. st # "DONE" /\ (st = "IDLE" => slot[s].state = "IDLE")
    BY <1>d, <2>1
  <2>3. Filled(s) = [slot[s] EXCEPT !.n_past = n, !.state = st]
    BY DEF Filled
  <2>. HIDE DEF n, st
  <2>4. OwnText([slot[s] EXCEPT !.n_past = n, !.state = st])
    BY <1>a, <1>d, <2>1, <2>2 DEF OwnText, SlotRecord
  <2>. QED
    BY <2>1, <2>3, <2>4, CleanSlot DEF Sweeps
<1>5. ASSUME FillMedia(s) PROVE Clean'
  <2>1. slot' = [slot EXCEPT ![s] = MediaFilled(s)] /\ pc' = "prompt" /\ pc = "fill" /\ s = scan
    BY <1>5 DEF FillMedia
  <2>2. OwnText(MediaFilled(s))
    BY <1>a, <1>d, <2>1 DEF OwnText, SlotRecord, MediaFilled
  <2>. QED
    BY <2>1, <2>2, CleanSlot DEF Sweeps
<1>6. ASSUME FailMedia(s) PROVE Clean'
  <2>1. PICK n \in 0 .. slot[s].num_prompt_tokens : slot' = [slot EXCEPT ![s] = MediaFailed(s, n)]
    BY <1>6 DEF FailMedia
  <2>2. pc' = "prompt" /\ pc = "fill"
    BY <1>6 DEF FailMedia
  <2>3. OwnText(MediaFailed(s, n))
    BY <1>a DEF OwnText, SlotRecord, MediaFailed
  <2>. QED
    BY <2>1, <2>2, <2>3, CleanSlot DEF Sweeps
<1>7. ASSUME FailSlot(s) PROVE Clean'
  BY <1>7 DEF FailSlot, Clean
<1>8. ASSUME SampleSkip(s) PROVE Clean'
  <2>1. slot' = [slot EXCEPT ![s] = [slot[s] EXCEPT !.state = "DONE"]]
        /\ pc = "sample" /\ pc' = "sample"
    BY <1>8 DEF SampleSkip
  <2>. QED
    BY <1>b, <2>1, CleanSlot DEF Sweeps
<1>e. ASSUME NEW task, Emitting(s, task) PROVE pc = "emit" /\ pc' = "sample" /\ s = scan
  BY <1>e DEF Emitting
<1>9. ASSUME EmitEog(s) \/ EmitEmbedding(s) \/ EmitScores(s) PROVE Clean'
  <2>1. PICK task : Emitting(s, task) /\ Finish(s)
    BY <1>9 DEF EmitEog, EmitEmbedding, EmitScores
  <2>2. slot' = [slot EXCEPT ![s] = [slot[s] EXCEPT !.state = "DONE"]]
    BY <2>1 DEF Finish
  <2>. QED
    BY <1>b, <1>e, <2>1, <2>2, CleanSlot DEF Sweeps
<1>f. ASSUME slot[s].state \in Busy
      PROVE  OwnText(Sampled(s)) /\ OwnText([Sampled(s) EXCEPT !.state = "DONE"])
  BY <1>a, <1>f DEF OwnText, SlotRecord, Sampled
<1>10. ASSUME EmitLast(s) \/ EmitToken(s) PROVE Clean'
  <2>1. PICK S : S \in {Sampled(s), [Sampled(s) EXCEPT !.state = "DONE"]}
                 /\ slot' = [slot EXCEPT ![s] = S]
    BY <1>10 DEF EmitLast, EmitToken
  <2>2. Emitting(s, "completion")
    BY <1>10 DEF EmitLast, EmitToken
  <2>3. OwnText(S)
    BY <1>d, <1>e, <1>f, <2>1, <2>2
  <2>. QED
    BY <1>e, <2>1, <2>2, <2>3, CleanSlot DEF Sweeps
<1>11. ASSUME NextDocument(s) PROVE Clean'
  <2>1. PICK n : slot' = [slot EXCEPT ![s] = Reloaded(s, n)]
    BY <1>11 DEF NextDocument
  <2>2. Emitting(s, "rerank")
    BY <1>11 DEF NextDocument
  <2>3. slot[s].state # "DONE"
    BY <1>d, <1>e, <2>2
  <2>4. OwnText(Reloaded(s, n))
    BY <1>a, <2>3 DEF Reloaded, OwnText, SlotRecord
  <2>. QED
    BY <1>e, <2>1, <2>2, <2>4, CleanSlot DEF Sweeps
<1>12. ASSUME ReleaseSlot(s) PROVE Clean'
  <2>1. /\ slot' = [slot EXCEPT ![s] = Fresh] /\ pc = "release" /\ pc' = "release"
        /\ scan' = s + 1 /\ s >= scan
        /\ \A t \in Slots : scan <= t /\ t < s => slot[t].state # "DONE"
    BY <1>12 DEF ReleaseSlot, Reset, Next_slot
  <2>2. slot'[s] = Fresh /\ \A t \in Slots : t # s => slot'[t] = slot[t]
    BY <2>1 DEF TypeOK
  <2>3. OwnText(Fresh) /\ Fresh.state = "IDLE"
    BY DEF Fresh, OwnText
  <2>4. AllOwn'
    BY <2>2, <2>3 DEF Clean, AllOwn
  <2>5. \A t \in Slots : slot'[t].state = "DONE" => t >= s + 1
    <3>1. SUFFICES ASSUME NEW t \in Slots, slot'[t].state = "DONE" PROVE t >= s + 1
      OBVIOUS
    <3>2. t # s /\ slot[t].state = "DONE" /\ t >= scan /\ scan \in Int
      BY <2>1, <2>2, <2>3, <3>1 DEF Clean, Swept, TypeOK
    <3>. QED
      BY <2>1, <3>2
  <2>6. Swept'
    BY <2>1, <2>5 DEF Swept, Sweeps
  <2>7. AtWork' /\ pc' # "failed"
    BY <2>1 DEF AtWork, InHand
  <2>. QED
    BY <2>4, <2>6, <2>7 DEF Clean
<1>. QED
  BY <1>1, <1>2, <1>3, <1>4, <1>5, <1>6, <1>7, <1>8, <1>9, <1>10, <1>11, <1>12 DEF SlotStep

LEMMA OwnStep == QuietService /\ TypeOK /\ Halfway /\ OwnInv /\ [Next]_vars => OwnInv'
<1>. SUFFICES ASSUME QuietService, TypeOK, Halfway, OwnInv, [Next]_vars, cancelled' = {}
              PROVE  Clean'
  BY DEF OwnInv
<1>a. ASSUME cancelled = {} PROVE Clean /\ \A s \in Slots : slot[s] \in SlotRecord /\ OwnText(slot[s])
  BY <1>a DEF OwnInv, Clean, AllOwn, TypeOK
<1>1. ASSUME NEW s \in Slots, SlotStep(s) PROVE Clean'
  <2>1. cancelled' = cancelled
    BY <1>1 DEF SlotStep, Assign, FailLoad, PromptSlot, FillText, FillMedia, FailMedia, FailSlot,
                SampleSkip, SampleSlot, EmitEog, EmitLast, EmitToken, EmitEmbedding, EmitScores,
                NextDocument, Emitting, ReleaseSlot, caller
  <2>. QED
    BY <1>1, <1>a, <2>1, OwnServe
<1>2. ASSUME BuildGenerating PROVE Clean'
  <2>1. Clean /\ pc = "build" /\ pc' = "prompt"
    BY <1>2, <1>a DEF BuildGenerating, caller
  <2>2. \A s \in Slots : OwnText([slot[s] EXCEPT !.n_past = @ + 1])
                         /\ [slot[s] EXCEPT !.n_past = @ + 1].state = slot[s].state
    BY <2>1, <1>2, <1>a DEF BuildGenerating, caller, OwnText, SlotRecord
  <2>3. \A s \in Slots : OwnText(slot'[s]) /\ slot'[s].state = slot[s].state
    BY <1>2, <1>a, <2>2 DEF BuildGenerating, caller
  <2>. QED
    BY <2>1, <2>3 DEF Clean, AllOwn, Swept, Sweeps, AtWork, InHand
<1>3. ASSUME SaveCheckpoints PROVE Clean'
  <2>1. Clean /\ pc = "checkpoint" /\ pc' = "sample"
    BY <1>3, <1>a DEF SaveCheckpoints, caller
  <2>2. \A s \in Slots : OwnText([slot[s] EXCEPT !.checkpoint = 0])
                         /\ [slot[s] EXCEPT !.checkpoint = 0].state = slot[s].state
    BY <1>3, <1>a DEF SaveCheckpoints, caller, OwnText, SlotRecord
  <2>3. \A s \in Slots : OwnText(slot'[s]) /\ slot'[s].state = slot[s].state
    BY <1>3, <1>a, <2>2 DEF SaveCheckpoints, caller
  <2>. QED
    BY <2>1, <2>3 DEF Clean, AllOwn, Swept, Sweeps, AtWork, InHand
<1>4. ASSUME \/ PendingDone \/ CheckActive \/ PromptDone \/ Decode \/ DecodeFails
             \/ FailDone \/ SampleDone \/ ReleaseDone \/ Loop \/ WakeUp
      PROVE  Clean'
  <2>1. Clean /\ slot' = slot
    BY <1>4, <1>a DEF PendingDone, CheckActive, PromptDone, Decode, DecodeFails, FailDone,
                SampleDone, ReleaseDone, Loop, WakeUp, pool, caller
  <2>2. AllOwn'
    BY <2>1 DEF Clean, AllOwn
  <2>3. CASE PendingDone \/ CheckActive \/ Loop \/ WakeUp
    <3>1. pc \notin Sweeps /\ pc' \notin {"fill", "emit", "failed"}
      BY <2>3 DEF PendingDone, CheckActive, Loop, WakeUp, Sweeps
    <3>. QED
      BY <2>1, <2>2, <3>1 DEF Clean, Swept, AtWork, InHand
  <2>4. CASE PromptDone \/ Decode \/ SampleDone
    <3>1. pc' \in {"decode", "checkpoint", "release"} /\ (pc' = "release" => scan' = 1)
          /\ pc \in Sweeps
      BY <2>4 DEF PromptDone, Decode, SampleDone, Sweeps
    <3>. QED
      BY <2>1, <2>2, <3>1 DEF Clean, Swept, Sweeps, AtWork, InHand
  <2>5. CASE DecodeFails \/ FailDone
    BY <2>1, <2>5 DEF DecodeFails, FailDone, QuietService, Clean
  <2>6. CASE ReleaseDone
    <3>1. \A s \in Slots : scan <= s => slot[s].state # "DONE"
      BY <2>6 DEF ReleaseDone, None_left
    <3>2. \A s \in Slots : slot[s].state = "DONE" => s >= scan
      BY <2>1, <2>6 DEF Clean, Swept, ReleaseDone
    <3>3. \A s \in Slots : slot'[s].state # "DONE"
      BY <2>1, <3>1, <3>2 DEF TypeOK
    <3>4. pc' = "pending2"
      BY <2>6 DEF ReleaseDone
    <3>. QED
      BY <2>2, <3>3, <3>4 DEF Clean, Swept, AtWork, InHand
  <2>. QED
    BY <1>4, <2>3, <2>4, <2>5, <2>6
<1>5. ASSUME \/ \E shape \in Shapes : QueueRequest(shape) \/ AnswerAtOnce(shape)
             \/ \E c \in Clients : CancelMissing(c) \/ \E r \in Ids : CancelLookup(c, r)
             \/ UNCHANGED vars
      PROVE  Clean'
  <2>1. UNCHANGED <<slot, pc, scan, cancelled>>
    BY <1>5 DEF QueueRequest, AnswerAtOnce, CancelMissing, CancelLookup, pool, loop, vars, caller
  <2>. QED
    BY <1>a, <2>1 DEF Clean, AllOwn, Swept, AtWork, InHand
<1>6. ASSUME NEW c \in Clients, CancelInterrupt(c) \/ CancelDone(c) \/ CancelPending(c)
      PROVE  FALSE
  BY <1>6 DEF CancelInterrupt, CancelDone, CancelPending, Halfway
<1>. QED
  BY <1>1, <1>2, <1>3, <1>4, <1>5, <1>6 DEF Next, Process, CancelEffect

LEMMA OwnInit == Init => OwnInv
BY DEF Init, Fresh, OwnInv, Clean, AllOwn, OwnText, Swept, AtWork, InHand

(* Where no request loads a state file, no decode fails and nothing was    *)
(* cancelled so far, every request's text, tokens, incomplete flag and     *)
(* error message are its own: release_completed_slots has reset its slot   *)
(* before process_pending_queue gives it away.  In each of the other cases *)
(* a slot is given away without that.                                      *)
THEOREM OutputIsOwn == ASSUME QuietService PROVE Spec => [](cancelled = {} => OwnOutput)
<1>1. TypeOK /\ OwnInv => (cancelled = {} => OwnOutput)
  <2>1. ASSUME TypeOK, Clean, NEW s \in Slots, Held(s)
        PROVE  slot[s].text \subseteq {slot[s].request_id} /\ ~slot[s].incomplete /\ ~slot[s].error
    <3>1. slot[s].state # "DONE"
      BY <2>1 DEF Held, Clean, AtWork
    <3>. QED
      BY <2>1, <3>1 DEF Clean, AllOwn, OwnText
  <2>. QED
    BY <2>1 DEF OwnInv, OwnOutput
<1>2. TypeOK /\ Halfway /\ OwnInv /\ [Next]_vars => OwnInv'
  BY OwnStep
<1>. QED
  BY <1>1, <1>2, Half, OwnInit, PTL DEF Spec
-----------------------------------------------------------------------------
(* What becomes of a request: the safety part of EveryRequestAnswered.     *)
(* The service of RequestService may drop what it runs and withdraw what   *)
(* waits at any time; here is when the slot manager does.                  *)

Serves(s, r) == Held(s) /\ rid(s) = r
InCare(r) == Queued(r) \/ \E s \in Slots : Serves(s, r)

(* Those whose end nobody is told of although nobody cancelled them: a     *)
(* completion without sampler, and anything else when a decode fails.      *)
Mute(s) == IF slot[s].task_type = "completion" THEN ~slot[s].sampler ELSE pc = "failed"

(* A request with a sampler waits, or is served.                           *)
Asking(S) == S.task_type = "completion" /\ S.sampler
Owed(r) == AwaitsAnswer(r) \/ \E s \in Slots : Serves(s, r) /\ Asking(slot[s])

(* cancel_request has set the state of the slot, or is about to: the flag  *)
(* it wrote before may have been that of another request of the slot.      *)
Struck(s) == \/ slot[s].state \notin Busy
             \/ \E c \in Clients : cancelling[c].half /\ cancelling[c].slot = s

(* A slot that leaves the busy states under the processing thread's hands  *)
(* was cancelled.                                                          *)
Marked == \A s \in Slots : InHand(s) /\ slot[s].state \notin Busy => cancelled # {}

(* The steps on slot s that neither start nor clear it.                    *)
Serve(s) ==
  \/ PromptSlot(s) \/ FillText(s) \/ FillMedia(s) \/ FailMedia(s) \/ FailSlot(s)
  \/ SampleSkip(s) \/ SampleSlot(s) \/ EmitEog(s) \/ EmitLast(s) \/ EmitToken(s)
  \/ EmitEmbedding(s) \/ EmitScores(s) \/ NextDocument(s)

(* What such a step writes to its slot keeps the kind of the request, and  *)
(* its end is an answer, that of a cancelled slot or a silent one.         *)
LEMMA ServeEnds ==
  ASSUME TypeOK, Placement, NEW s \in Slots, Serve(s)
  PROVE  /\ slot'[s].task_type = slot[s].task_type /\ slot'[s].sampler = slot[s].sampler
         /\ Held(s) => \/ slot'[s].state \in Busy \/ InHand(s)'
                       \/ answers'[rid(s)] = 1
                       \/ slot[s].is_interrupted \/ Struck(s) \/ Mute(s)
         /\ slot'[s].state \in Busy \/ ~InHand(s)'
<1>. DEFINE Kind(S) == S.task_type = slot[s].task_type /\ S.sampler = slot[s].sampler
<1>a. slot[s] \in SlotRecord /\ DOMAIN slot = Slots
  BY DEF TypeOK
<1>b. ASSUME Answer(slot[s].request_id), Held(s) PROVE answers'[rid(s)] = 1
  <2>1. rid(s) \in Ids /\ answers[rid(s)] = 0 /\ DOMAIN answers = Ids
    BY <1>b, QueueTypes DEF Placement, InService, TypeOK
  <2>. QED
    BY <1>b, <2>1 DEF Answer, rid
<1>c. Kind([slot[s] EXCEPT !.state = "DONE"])
  BY <1>a DEF SlotRecord
<1>d. ASSUME pc' \notin {"fill", "emit"} PROVE ~InHand(s)'
  BY <1>d DEF InHand
<1>1. CASE PromptSlot(s) \/ SampleSlot(s)
  <2>1. slot'[s] = slot[s] /\ slot[s].state \in Busy
    BY <1>1 DEF PromptSlot, SampleSlot, Next_slot, pool, Busy
  <2>. QED
    BY <2>1
<1>2. CASE FillText(s)
  <2>1. slot'[s] = Filled(s) /\ pc' = "prompt" /\ InHand(s)
    BY <1>2, <1>a DEF FillText, InHand
  <2>2. \A n, st : LET S == [slot[s] EXCEPT !.n_past = n, !.state = st]
                   IN Kind(S) /\ S.state = st
    BY <1>a DEF SlotRecord
  <2>3. Kind(Filled(s)) /\ Filled(s).state \in {"GENERATING", slot[s].state}
    BY <2>2 DEF Filled
  <2>4. slot[s].state \in Busy \/ Struck(s)
    BY DEF Struck
  <2>. QED
    BY <1>d, <2>1, <2>3, <2>4 DEF Busy
<1>3. CASE FillMedia(s)
  <2>1. slot'[s] = MediaFilled(s) /\ pc' = "prompt"
    BY <1>3, <1>a DEF FillMedia
  <2>2. Kind(MediaFilled(s)) /\ MediaFilled(s).state = "GENERATING"
    BY <1>a DEF MediaFilled, SlotRecord
  <2>. QED
    BY <1>d, <2>1, <2>2 DEF Busy
<1>4. CASE FailMedia(s)
  <2>1. PICK n \in 0 .. slot[s].num_prompt_tokens : slot' = [slot EXCEPT ![s] = MediaFailed(s, n)]
    BY <1>4 DEF FailMedia
  <2>2. Kind(MediaFailed(s, n))
    BY <1>a DEF MediaFailed, SlotRecord
  <2>3. Answer(slot[s].request_id) /\ pc' = "prompt"
    BY <1>4 DEF FailMedia
  <2>. QED
    BY <1>a, <1>b, <1>d, <2>1, <2>2, <2>3
<1>5. CASE FailSlot(s)
  <2>1. slot'[s] = [slot[s] EXCEPT !.state = "DONE", !.incomplete = TRUE]
        /\ pc = "failed" /\ pc' = "failed"
    BY <1>5, <1>a DEF FailSlot
  <2>2. Kind(slot'[s])
    BY <1>a, <2>1 DEF SlotRecord
  <2>3. slot[s].task_type = "completion" => Answer(slot[s].request_id)
    BY <1>5 DEF FailSlot
  <2>. QED
    BY <1>b, <1>d, <2>1, <2>2, <2>3 DEF Mute
<1>6. CASE SampleSkip(s)
  <2>1. slot' = [slot EXCEPT ![s] = [slot[s] EXCEPT !.state = "DONE"]] /\ pc' = "sample"
        /\ Skipped(s)
    BY <1>6 DEF SampleSkip
  <2>. QED
    BY <1>a, <1>c, <1>d, <2>1 DEF Skipped, Mute
<1>7. CASE EmitEog(s) \/ EmitEmbedding(s) \/ EmitScores(s)
  <2>1. slot' = [slot EXCEPT ![s] = [slot[s] EXCEPT !.state = "DONE"]] /\ pc' = "sample"
        /\ Answer(slot[s].request_id)
    BY <1>7 DEF EmitEog, EmitEmbedding, EmitScores, Emitting, Finish
  <2>. QED
    BY <1>a, <1>b, <1>c, <1>d, <2>1
<1>e. /\ Kind(Sampled(s)) /\ Sampled(s).state = slot[s].state
      /\ Kind([Sampled(s) EXCEPT !.state = "DONE"])
  BY <1>a DEF Sampled, SlotRecord
<1>8. CASE EmitLast(s)
  <2>1. slot' = [slot EXCEPT ![s] = [Sampled(s) EXCEPT !.state = "DONE"]] /\ pc' = "sample"
        /\ Answer(slot[s].request_id)
    BY <1>8 DEF EmitLast, Emitting
  <2>. QED
    BY <1>a, <1>b, <1>d, <1>e, <2>1
<1>9. CASE EmitToken(s)
  <2>1. slot' = [slot EXCEPT ![s] = Sampled(s)] /\ pc' = "sample" /\ InHand(s)
    BY <1>9 DEF EmitToken, Emitting, InHand
  <2>2. slot[s].state \in Busy \/ Struck(s)
    BY DEF Struck
  <2>. QED
    BY <1>a, <1>d, <1>e, <2>1, <2>2
<1>10. CASE NextDocument(s)
  <2>1. PICK n : slot' = [slot EXCEPT ![s] = Reloaded(s, n)]
    BY <1>10 DEF NextDocument
  <2>2. Kind(Reloaded(s, n)) /\ Reloaded(s, n).state = "PROCESSING_PROMPT"
    BY <1>a DEF Reloaded, SlotRecord
  <2>3. pc' = "sample"
    BY <1>10 DEF NextDocument, Emitting
  <2>. QED
    BY <1>a, <1>d, <2>1, <2>2, <2>3 DEF Busy
<1>. QED
  BY <1>1, <1>2, <1>3, <1>4, <1>5, <1>6, <1>7, <1>8, <1>9, <1>10 DEF Serve

LEMMA MarkedStep == TypeOK /\ Placement /\ Halfway /\ Marked /\ [Next]_vars => Marked'
<1>. SUFFICES ASSUME TypeOK, Placement, Halfway, Marked, [Next]_vars PROVE Marked'
  OBVIOUS
<1>a. ASSUME pc' \notin {"fill", "emit"} PROVE Marked'
  BY <1>a DEF Marked, InHand
<1>b. ASSUME UNCHANGED <<slot, pc, scan, cancelled>> PROVE Marked'
  BY <1>b DEF Marked, InHand
<1>1. CASE \E shape \in Shapes : QueueRequest(shape) \/ AnswerAtOnce(shape)
  BY <1>1, <1>b DEF QueueRequest, AnswerAtOnce, pool, loop
<1>2. CASE \E c \in Clients, r \in Ids : CancelLookup(c, r)
  BY <1>2, <1>b DEF CancelLookup, pool, loop
<1>3. CASE \E c \in Clients : CancelMissing(c)
  BY <1>3, <1>b DEF CancelMissing, pool, loop
<1>4. ASSUME NEW c \in Clients, CancelInterrupt(c) \/ CancelDone(c) \/ CancelPending(c)
      PROVE  Marked'
  <2>1. cancelled' # {}
    BY <1>4 DEF CancelInterrupt, CancelDone, CancelPending, Halfway
  <2>. QED
    BY <2>1 DEF Marked
<1>5. ASSUME NEW s \in Slots, SlotStep(s) PROVE Marked'
  <2>1. CASE Assign(s) \/ FailLoad(s) \/ ReleaseSlot(s)
    BY <1>a, <2>1 DEF Assign, FailLoad, ReleaseSlot, loop
  <2>2. CASE Serve(s)
    <3>1. UNCHANGED cancelled
      BY <2>2, Serving DEF Serve, Kept, Untouched
    <3>. QED
      BY <1>5, <2>2, <3>1, ServeEnds, OthersUntouched DEF Marked
  <2>. QED
    BY <1>5, <2>1, <2>2 DEF SlotStep, Serve
<1>6. CASE \/ PendingDone \/ CheckActive \/ BuildGenerating \/ PromptDone \/ Decode
           \/ DecodeFails \/ FailDone \/ SaveCheckpoints \/ SampleDone \/ ReleaseDone
           \/ Loop \/ WakeUp
  BY <1>6, <1>a DEF PendingDone, CheckActive, BuildGenerating, PromptDone, Decode,
        DecodeFails, FailDone, SaveCheckpoints, SampleDone, ReleaseDone, Loop, WakeUp
<1>7. CASE UNCHANGED vars
  BY <1>7, <1>b DEF vars, pool, loop, caller
<1>. QED
  BY <1>1, <1>2, <1>3, <1>4, <1>5, <1>6, <1>7 DEF Next, Process, CancelEffect

LEMMA MarkedInit == Init => Marked
BY DEF Init, Marked, InHand

(* Where a waiting request goes: it stays, enters a slot with its task, or *)
(* is answered or cancelled.                                               *)
Entered(q) ==
  \E s \in Slots : /\ Held(s)' /\ rid(s)' = q.id
                   /\ slot'[s].task_type = q.shape.task
                   /\ q.shape.task = "completion" /\ q.shape.sampler => slot'[s].sampler
Remains(q) == \E j \in DOMAIN queue_requests' : queue_requests'[j] = q

LEMMA QueuedGoes ==
  ASSUME TypeOK, Placement, [Next]_vars,
         NEW i \in DOMAIN queue_requests, NEW q, q = queue_requests[i]
  PROVE  Remains(q) \/ Entered(q) \/ answers'[q.id] = 1 \/ q.id \in cancelled'
<1>. DEFINE n == Len(queue_requests)
<1>a. queue_requests \in Seq(Request) /\ n \in Nat /\ DOMAIN queue_requests = 1 .. n /\ i \in 1 .. n
  BY DEF TypeOK
<1>b. q \in Request /\ q.id \in Ids /\ answers[q.id] = 0
  BY <1>a, QueueTypes DEF Placement, InQueue
<1>c. ASSUME UNCHANGED queue_requests PROVE Remains(q)
  BY <1>c DEF Remains
<1>d. ASSUME queue_requests # <<>>, queue_requests' = Tail(queue_requests)
      PROVE  Remains(q) \/ (i = 1 /\ q = Head(queue_requests))
  <2>1. CASE i = 1
    BY <1>a, <2>1
  <2>2. CASE i # 1
    <3>1. i - 1 \in DOMAIN queue_requests' /\ queue_requests'[i - 1] = q
      BY <1>a, <1>d, <2>2
    <3>. QED
      BY <3>1 DEF Remains
  <2>. QED
    BY <2>1, <2>2
<1>1. ASSUME NEW shape \in Shapes, QueueRequest(shape) PROVE Remains(q)
  <2>1. queue_requests' = Append(queue_requests, [id |-> next_request_id, shape |-> shape])
    BY <1>1 DEF QueueRequest
  <2>2. i \in DOMAIN queue_requests' /\ queue_requests'[i] = q
    BY <1>a, <2>1
  <2>. QED
    BY <2>2 DEF Remains
<1>2. ASSUME NEW c \in Clients, CancelPending(c) PROVE Remains(q) \/ q.id \in cancelled'
  <2>1. PICK k \in DOMAIN queue_requests :
               queue_requests[k].id = cancelling[c].id /\ queue_requests' = Erased(k)
    BY <1>2 DEF CancelPending
  <2>2. cancelling[c].id \in cancelled'
    BY <1>2 DEF CancelPending
  <2>3. CASE i = k
    BY <2>1, <2>2, <2>3
  <2>4. CASE i # k
    <3>. DEFINE j == IF i < k THEN i ELSE i - 1
    <3>1. j \in 1 .. n - 1 /\ (IF j < k THEN j ELSE j + 1) = i
      BY <1>a, <2>1, <2>4
    <3>2. j \in DOMAIN queue_requests' /\ queue_requests'[j] = q
      BY <2>1, <3>1 DEF Erased
    <3>. QED
      BY <3>2 DEF Remains
  <2>. QED
    BY <2>3, <2>4
<1>3. ASSUME NEW s \in Slots, Assign(s) PROVE Remains(q) \/ Entered(q)
  <2>1. PICK m : slot' = [slot EXCEPT ![s] = Loaded(s, Head(queue_requests), m)]
    BY <1>3 DEF Assign
  <2>2. queue_requests # <<>> /\ queue_requests' = Tail(queue_requests)
    BY <1>3 DEF Assign
  <2>3. ASSUME q = Head(queue_requests) PROVE Entered(q)
    <3>1. slot'[s] = Loaded(s, q, m)
      BY <2>1, <2>3 DEF TypeOK
    <3>2. /\ slot'[s].state \in Busy /\ slot'[s].request_id = q.id
          /\ slot'[s].task_type = q.shape.task
          /\ slot'[s].sampler = (q.shape.task = "completion" /\ q.shape.sampler)
      BY <3>1 DEF Loaded, Busy
    <3>3. Held(s)' /\ rid(s)' = q.id
      BY <3>2 DEF Held, rid
    <3>4. q.shape.task = "completion" /\ q.shape.sampler => slot'[s].sampler
      BY <3>2
    <3>. QED
      BY <3>2, <3>3, <3>4 DEF Entered
  <2>. QED
    BY <1>d, <2>2, <2>3
<1>4. ASSUME NEW s \in Slots, FailLoad(s) PROVE Remains(q) \/ answers'[q.id] = 1
  <2>1. /\ queue_requests # <<>> /\ queue_requests' = Tail(queue_requests)
        /\ Answer(Head(queue_requests).id)
    BY <1>4 DEF FailLoad
  <2>2. ASSUME q = Head(queue_requests) PROVE answers'[q.id] = 1
    BY <1>b, <2>1, <2>2 DEF Answer, TypeOK
  <2>. QED
    BY <1>d, <2>1, <2>2
<1>5. ASSUME NEW s \in Slots, ReleaseSlot(s) \/ Serve(s) PROVE Remains(q)
  <2>1. CASE ReleaseSlot(s)
    BY <1>c, <2>1 DEF ReleaseSlot
  <2>2. CASE Serve(s)
    BY <1>c, <2>2, Serving DEF Serve, Kept, Untouched
  <2>. QED
    BY <1>5, <2>1, <2>2
<1>6. ASSUME \/ \E shape \in Shapes : AnswerAtOnce(shape)
             \/ \E c \in Clients : \/ CancelInterrupt(c) \/ CancelDone(c) \/ CancelMissing(c)
                                  \/ \E r \in Ids : CancelLookup(c, r)
      PROVE  Remains(q)
  BY <1>6, <1>c DEF AnswerAtOnce, CancelInterrupt, CancelDone, CancelMissing, CancelLookup
<1>7. ASSUME \/ BuildGenerating \/ SaveCheckpoints \/ UNCHANGED vars
             \/ PendingDone \/ CheckActive \/ PromptDone \/ Decode \/ DecodeFails
             \/ FailDone \/ SampleDone \/ ReleaseDone \/ Loop \/ WakeUp
      PROVE  Remains(q)
  BY <1>7, <1>c, Idling DEF Kept, Untouched
<1>8. ASSUME NEW s \in Slots, SlotStep(s)
      PROVE  Remains(q) \/ Entered(q) \/ answers'[q.id] = 1
  BY <1>8, <1>3, <1>4, <1>5 DEF SlotStep, Serve
<1>9. CASE Process
  BY <1>9, <1>8, <1>7 DEF Process
<1>. QED
  BY <1>1, <1>2, <1>6, <1>7, <1>9 DEF Next, CancelEffect

(* Where a request in a slot goes: it stays in it, or it is answered,      *)
(* its slot was cancelled, or nobody is told.                              *)
LEMMA ServedGoes ==
  ASSUME TypeOK, Placement, [Next]_vars, NEW s \in Slots, Held(s)
  PROVE  \/ /\ Held(s)' /\ rid(s)' = rid(s)
            /\ slot'[s].task_type = slot[s].task_type /\ slot'[s].sampler = slot[s].sampler
         \/ answers'[rid(s)] = 1
         \/ slot[s].is_interrupted \/ Struck(s) \/ Mute(s)
<1>. DEFINE Stays == /\ Held(s)' /\ rid(s)' = rid(s)
                     /\ slot'[s].task_type = slot[s].task_type
                     /\ slot'[s].sampler = slot[s].sampler
            Goal == Stays \/ answers'[rid(s)] = 1
                    \/ slot[s].is_interrupted \/ Struck(s) \/ Mute(s)
<1>a. ASSUME slot'[s] = slot[s], (InHand(s)' <=> InHand(s)) PROVE Stays
  BY <1>a DEF Held, rid
<1>b. ASSUME UNCHANGED <<slot, pc, scan>> PROVE Stays
  BY <1>b, <1>a DEF InHand
<1>1. CASE \E shape \in Shapes : QueueRequest(shape) \/ AnswerAtOnce(shape)
  BY <1>1, <1>b DEF QueueRequest, AnswerAtOnce, pool, loop
<1>2. CASE \E c \in Clients : \/ CancelPending(c) \/ CancelMissing(c)
                            \/ \E r \in Ids : CancelLookup(c, r)
  BY <1>2, <1>b DEF CancelPending, CancelMissing, CancelLookup, pool, loop
<1>3. ASSUME NEW c \in Clients, CancelInterrupt(c) \/ CancelDone(c) PROVE Goal
  <2>. DEFINE t == cancelling[c].slot
  <2>1. /\ t \in Slots /\ UNCHANGED <<pc, scan>>
        /\ \A u \in Slots : u # t => slot'[u] = slot[u]
        /\ CancelInterrupt(c) => slot'[t] = Interrupted(t)
    BY <1>3, CancelWrites
  <2>2. CASE s # t
    <3>1. slot'[s] = slot[s] /\ (InHand(s)' <=> InHand(s))
      BY <2>1, <2>2 DEF InHand
    <3>. QED
      BY <1>a, <3>1
  <2>3. CASE s = t /\ CancelInterrupt(c)
    <3>1. slot[s] \in SlotRecord /\ slot'[s] = Interrupted(s)
      BY <2>1, <2>3 DEF TypeOK
    <3>2. /\ slot'[s].state = slot[s].state /\ slot'[s].request_id = slot[s].request_id
          /\ slot'[s].task_type = slot[s].task_type /\ slot'[s].sampler = slot[s].sampler
      BY <3>1 DEF Interrupted, SlotRecord
    <3>. QED
      BY <2>1, <3>2 DEF Held, InHand, rid
  <2>4. CASE s = t /\ CancelDone(c)
    BY <2>4 DEF CancelDone, Struck
  <2>. QED
    BY <1>3, <2>2, <2>3, <2>4
<1>4. ASSUME NEW t \in Slots, SlotStep(t) PROVE Goal
  <2>1. CASE t # s
    <3>1. slot'[s] = slot[s] /\ (InHand(s)' <=> InHand(s))
      BY <1>4, <2>1, OthersUntouched
    <3>. QED
      BY <1>a, <3>1
  <2>2. ASSUME t = s, Assign(s) \/ FailLoad(s) \/ ReleaseSlot(s) PROVE FALSE
    <3>1. pc \notin {"fill", "emit"} /\ slot[s].state \in Avail
      BY <2>2 DEF Assign, FailLoad, ReleaseSlot, Oldest, Next_slot, Avail
    <3>. QED
      BY <3>1 DEF Held, InHand, Avail, Busy
  <2>3. CASE t = s /\ Serve(s)
    <3>1. SameRequests
      BY <2>3, Serving DEF Serve, Kept
    <3>2. rid(s)' = rid(s)
      BY <3>1 DEF SameRequests
    <3>. QED
      BY <2>3, <3>2, ServeEnds DEF Held
  <2>. QED
    BY <1>4, <2>1, <2>2, <2>3 DEF SlotStep, Serve
<1>5. CASE BuildGenerating \/ SaveCheckpoints
  <2>1. \A t \in Slots : /\ slot'[t].request_id = slot[t].request_id
                         /\ slot'[t].state = slot[t].state
                         /\ slot'[t].task_type = slot[t].task_type
                         /\ slot'[t].sampler = slot[t].sampler
    <3>1. \A t \in Slots : slot[t] \in SlotRecord
      BY DEF TypeOK
    <3>2. CASE BuildGenerating
      BY <3>1, <3>2 DEF BuildGenerating, SlotRecord
    <3>3. CASE SaveCheckpoints
      BY <3>1, <3>3 DEF SaveCheckpoints, SlotRecord
    <3>. QED
      BY <1>5, <3>2, <3>3
  <2>2. ~InHand(s)
    BY <1>5 DEF BuildGenerating, SaveCheckpoints, InHand
  <2>. QED
    BY <2>1, <2>2 DEF Held, rid
<1>6. CASE \/ PendingDone \/ CheckActive \/ PromptDone \/ Decode \/ DecodeFails
           \/ FailDone \/ SampleDone \/ ReleaseDone \/ Loop \/ WakeUp
  <2>1. UNCHANGED slot /\ pc \notin {"fill", "emit"}
    BY <1>6 DEF PendingDone, CheckActive, PromptDone, Decode, DecodeFails, FailDone,
                SampleDone, ReleaseDone, Loop, WakeUp, pool
  <2>. QED
    BY <2>1 DEF Held, InHand, rid
<1>7. CASE UNCHANGED vars
  BY <1>7, <1>b DEF vars, pool, loop
<1>. QED
  BY <1>1, <1>2, <1>3, <1>4, <1>5, <1>6, <1>7 DEF Next, Process, CancelEffect

LEMMA Cared == Spec => [](TypeOK /\ Placement /\ Halfway /\ Marked)
BY Half, MarkedInit, MarkedStep, PTL DEF Spec

LEMMA CareStep ==
  TypeOK /\ Placement /\ [Next]_vars =>
    \A r \in Ids : InCare(r) =>
      \/ InCare(r)' \/ answers'[r] = 1 \/ r \in cancelled'
      \/ \E s \in Slots : Serves(s, r) /\ (slot[s].is_interrupted \/ Struck(s) \/ Mute(s))
<1>. SUFFICES ASSUME TypeOK, Placement, [Next]_vars, NEW r \in Ids, InCare(r),
                     ~(answers'[r] = 1), ~(r \in cancelled'),
                     ~\E s \in Slots :
                        Serves(s, r) /\ (slot[s].is_interrupted \/ Struck(s) \/ Mute(s))
              PROVE  InCare(r)'
  OBVIOUS
<1>1. ASSUME NEW i \in DOMAIN queue_requests, queue_requests[i].id = r PROVE InCare(r)'
  <2>1. Remains(queue_requests[i]) \/ Entered(queue_requests[i])
    BY <1>1, QueuedGoes
  <2>. QED
    BY <1>1, <2>1 DEF Remains, Entered, InCare, Queued, Serves
<1>2. ASSUME NEW s \in Slots, Serves(s, r) PROVE InCare(r)'
  <2>1. Held(s)' /\ rid(s)' = r
    BY <1>2, ServedGoes DEF Serves
  <2>. QED
    BY <2>1 DEF InCare, Serves
<1>. QED
  BY <1>1, <1>2 DEF InCare, Queued

(* A request never just disappears: one that waits or is in a slot goes on *)
(* waiting or being served until its final callback, unless it is          *)
(* cancelled, its slot is (cancel_request may have looked its slot up for  *)
(* the request before), its sampler could not be made, or a decode fails   *)
(* under an embedding or a rerank.                                         *)
THEOREM DropsForAReason ==
  Spec => [][\A r \in Ids : InCare(r) =>
               \/ InCare(r)' \/ answers'[r] = 1 \/ r \in cancelled'
               \/ \E s \in Slots :
                    Serves(s, r) /\ (slot[s].is_interrupted \/ Struck(s) \/ Mute(s))]_vars
BY Cared, CareStep, PTL DEF Spec

(* Only cancel_request interrupts.                                         *)
Uncancelled == cancelled = {} => \A s \in Slots : ~slot[s].is_interrupted

LEMMA UncancelledStep == TypeOK /\ Placement /\ Uncancelled /\ [Next]_vars => Uncancelled'
<1>. SUFFICES ASSUME TypeOK, Placement, Uncancelled, [Next]_vars, cancelled' = {},
                     NEW t \in Slots
              PROVE  ~slot'[t].is_interrupted
  BY DEF Uncancelled
<1>a. ASSUME UNCHANGED cancelled, slot'[t].is_interrupted = slot[t].is_interrupted
      PROVE  ~slot'[t].is_interrupted
  BY <1>a DEF Uncancelled
<1>1. CASE \/ \E shape \in Shapes : QueueRequest(shape) \/ AnswerAtOnce(shape)
           \/ \E c \in Clients : CancelMissing(c) \/ \E r \in Ids : CancelLookup(c, r)
  BY <1>1, <1>a DEF QueueRequest, AnswerAtOnce, CancelMissing, CancelLookup, pool
<1>2. CASE \E c \in Clients : CancelInterrupt(c) \/ CancelPending(c)
  BY <1>2 DEF CancelInterrupt, CancelPending
<1>5. ASSUME NEW c \in Clients, CancelDone(c) PROVE ~slot'[t].is_interrupted
  <2>1. SameFlags /\ UNCHANGED cancelled
    BY <1>5, CancelWrites DEF CancelDone
  <2>. QED
    BY <1>a, <2>1 DEF SameFlags
<1>3. ASSUME NEW s \in Slots, SlotStep(s) PROVE ~slot'[t].is_interrupted
  <2>1. CASE Serve(s)
    BY <1>a, <2>1, Serving DEF Serve, Kept, Untouched, SameFlags
  <2>2. CASE Assign(s) \/ FailLoad(s) \/ ReleaseSlot(s)
    <3>1. UNCHANGED cancelled
      BY <2>2 DEF Assign, FailLoad, ReleaseSlot, caller
    <3>2. CASE t # s
      BY <1>3, <1>a, <3>1, <3>2, OthersUntouched
    <3>3. CASE t = s
      <4>1. slot[s] \in SlotRecord /\ DOMAIN slot = Slots
        BY DEF TypeOK
      <4>2. CASE Assign(s)
        BY <3>3, <4>1, <4>2 DEF Assign, Loaded
      <4>3. CASE FailLoad(s)
        BY <3>3, <4>1, <4>3 DEF FailLoad, LoadFailed, SlotRecord
      <4>4. CASE ReleaseSlot(s)
        BY <3>3, <4>1, <4>4 DEF ReleaseSlot, Reset, Fresh
      <4>. QED
        BY <2>2, <4>2, <4>3, <4>4
    <3>. QED
      BY <3>2, <3>3
  <2>. QED
    BY <1>3, <2>1, <2>2 DEF SlotStep, Serve
<1>4. CASE \/ BuildGenerating \/ SaveCheckpoints \/ UNCHANGED vars
           \/ PendingDone \/ CheckActive \/ PromptDone \/ Decode \/ DecodeFails
           \/ FailDone \/ SampleDone \/ ReleaseDone \/ Loop \/ WakeUp
  BY <1>4, <1>a, Idling DEF Kept, Untouched, SameFlags
<1>. QED
  BY <1>1, <1>2, <1>3, <1>4, <1>5 DEF Next, Process, CancelEffect

LEMMA UncancelledInit == Init => Uncancelled
BY DEF Init, Fresh, Uncancelled

LEMMA CancelledGrows ==
  ASSUME TypeOK, Placement, [Next]_vars
  PROVE  cancelled \subseteq cancelled'
<1>1. CASE \/ \E shape \in Shapes : QueueRequest(shape) \/ AnswerAtOnce(shape)
           \/ \E c \in Clients : CancelEffect(c) \/ \E r \in Ids : CancelLookup(c, r)
  BY <1>1 DEF QueueRequest, AnswerAtOnce, CancelEffect, CancelInterrupt, CancelDone,
              CancelPending, CancelMissing, CancelLookup
<1>2. ASSUME NEW s \in Slots, SlotStep(s) PROVE UNCHANGED cancelled
  BY <1>2 DEF SlotStep, Assign, FailLoad, PromptSlot, FillText, FillMedia, FailMedia, FailSlot,
              SampleSkip, SampleSlot, EmitEog, EmitLast, EmitToken, EmitEmbedding, EmitScores,
              NextDocument, Emitting, ReleaseSlot, caller
<1>3. CASE \/ BuildGenerating \/ SaveCheckpoints \/ UNCHANGED vars
           \/ PendingDone \/ CheckActive \/ PromptDone \/ Decode \/ DecodeFails
           \/ FailDone \/ SampleDone \/ ReleaseDone \/ Loop \/ WakeUp
  BY <1>3, Idling DEF Kept, Untouched
<1>. QED
  BY <1>1, <1>2, <1>3 DEF Next, Process

LEMMA OwedStep ==
  TypeOK /\ Placement /\ Halfway /\ Marked /\ Uncancelled /\ [Next]_vars =>
    \A r \in Ids : Owed(r) => Owed(r)' \/ answers'[r] = 1 \/ cancelled' # {}
<1>. SUFFICES ASSUME TypeOK, Placement, Halfway, Marked, Uncancelled, [Next]_vars,
                     NEW r \in Ids, Owed(r), ~(answers'[r] = 1), cancelled' = {}
              PROVE  Owed(r)'
  OBVIOUS
<1>1. ASSUME NEW i \in DOMAIN queue_requests, queue_requests[i].id = r,
             queue_requests[i].shape.task = "completion", queue_requests[i].shape.sampler
      PROVE  Owed(r)'
  <2>1. Remains(queue_requests[i]) \/ Entered(queue_requests[i])
    BY <1>1, QueuedGoes
  <2>2. CASE Remains(queue_requests[i])
    BY <1>1, <2>2 DEF Remains, Owed, AwaitsAnswer
  <2>3. CASE Entered(queue_requests[i])
    BY <1>1, <2>3 DEF Entered, Owed, Serves, Asking
  <2>. QED
    BY <2>1, <2>2, <2>3
<1>2. ASSUME NEW s \in Slots, Serves(s, r), Asking(slot[s]) PROVE Owed(r)'
  <2>a. cancelled = {}
    BY CancelledGrows
  <2>b. ~Struck(s)
    BY <1>2, <2>a DEF Struck, Marked, Halfway, Serves, Held
  <2>1. ~Mute(s) /\ ~slot[s].is_interrupted /\ Held(s) /\ rid(s) = r
    BY <1>2, <2>a DEF Mute, Asking, Uncancelled, Serves
  <2>2. Held(s)' /\ rid(s)' = rid(s)
        /\ slot'[s].task_type = slot[s].task_type /\ slot'[s].sampler = slot[s].sampler
    BY <2>1, <2>b, ServedGoes
  <2>. QED
    BY <1>2, <2>1, <2>2 DEF Owed, Serves, Asking
<1>. QED
  BY <1>1, <1>2 DEF Owed, AwaitsAnswer

(* While nobody cancels anything, a completion whose sampler can be made   *)
(* is never given up without its callback, whatever fails on the way: what *)
(* EveryRequestAnswered needs beside the progress of the loop.             *)
THEOREM OwedUntilAnswered ==
  Spec => [][\A r \in Ids : Owed(r) => Owed(r)' \/ answers'[r] = 1 \/ cancelled' # {}]_vars
<1>1. Spec => []Uncancelled
  BY Placed, UncancelledInit, UncancelledStep, PTL DEF Spec
<1>. QED
  BY <1>1, Cared, OwedStep, PTL DEF Spec
=============================================================================
