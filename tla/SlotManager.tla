---------------------------- MODULE SlotManager ----------------------------
(***************************************************************************)
(* Parallel decoding: llama_rn_slot_manager (rn-slot-manager.cpp).         *)
(*                                                                         *)
(* Callers append requests to queue_requests; one processing thread runs   *)
(* update_slots in a loop: it moves requests into slots, builds one batch  *)
(* over all slots, decodes it without the mutex, samples and calls the     *)
(* request's callback; other threads cancel requests.                      *)
(*                                                                         *)
(* pc names the place of the processing thread in update_slots and scan    *)
(* the next slot a loop over the slots looks at.  Queueing only appends    *)
(* under slots_mutex, which commutes with every section that does not      *)
(* read the queue, so the mutex itself stays implicit (ProcessingLoop has  *)
(* it).  cancel_request takes no mutex: its steps fall anywhere.           *)
(***************************************************************************)
EXTENDS Integers, Sequences, FiniteSets

CONSTANTS
  NSlots,         \* n_parallel
  NBatch,         \* n_batch given to init: the capacity of the batch
  MinBatch,       \* n_batch is halved after a failed decode only above this
  NCtx,           \* context size of one slot
  Shapes,         \* what callers ask for (see Shape)
  MaxRequests,    \* bound: the number of requests queued
  Clients,        \* threads that call cancel_request
  DecodeMayFail   \* whether llama_decode may return an error

Tasks == {"completion", "embedding", "rerank"}

(* The parameters of a request the control flow depends on: valid is FALSE *)
(* when queue_embedding_request or queue_rerank_request answers it without *)
(* queueing; load, checkpoint and media say whether load_state_path,       *)
(* save_prompt_state_path and media_paths are given; sampler is FALSE when *)
(* common_sampler_init returns null; predict = 0 is no limit.              *)
Shape == [task : Tasks, valid : BOOLEAN, sampler : BOOLEAN, load : BOOLEAN,
          checkpoint : BOOLEAN, media : BOOLEAN,
          prompt : Nat \ {0}, docs : Nat \ {0}, predict : Nat]

ASSUME ConstantsAssumption ==
  /\ NSlots \in Nat \ {0}
  /\ NBatch \in Nat /\ MinBatch \in Nat /\ NCtx \in Nat /\ MaxRequests \in Nat
  /\ Shapes \subseteq Shape
  /\ DecodeMayFail \in BOOLEAN

Slots == 1 .. NSlots
Ids   == 1 .. MaxRequests
Avail == {"IDLE", "DONE"}
Busy  == {"PROCESSING_PROMPT", "GENERATING"}

VARIABLES
  next_request_id,  \* the id the next request gets
  queue_requests,   \* waiting requests, in order
  slot,             \* the slots
  t_last_used,      \* rank of each slot in order of its last release
  active_requests,  \* request id -> slot, 0 when there is no entry
  n_batch,          \* present batch limit
  n_tokens,         \* batch.n_tokens
  pc, scan,         \* the processing thread
  cancelling,       \* cancel_request calls between lookup and end
  answers,          \* number of final callbacks each request got
  cancelled         \* requests a cancel_request marked or took from the queue

caller == <<next_request_id, cancelling, cancelled>>
pool   == <<slot, t_last_used, active_requests>>
batch  == <<n_batch, n_tokens>>
loop   == <<pc, scan>>
vars   == <<caller, queue_requests, pool, batch, loop, answers>>

Request == [id : Ids, shape : Shapes]

(* text holds the ids of the requests that put tokens in generated_text    *)
(* and generated_tokens; checkpoint is save_prompt_state_tokens while the  *)
(* prompt checkpoint is pending, else 0; docs counts the documents of a    *)
(* rerank that are not scored yet; error says error_message is not empty.  *)
SlotRecord ==
  [state : Avail \cup Busy, request_id : Ids \cup {0}, task_type : Tasks,
   is_interrupted : BOOLEAN, sampler : BOOLEAN, media : BOOLEAN,
   media_processed : BOOLEAN, load : BOOLEAN, save_prompt : BOOLEAN,
   num_prompt_tokens : Nat, n_past : Nat, n_decoded : Nat, n_remaining : Nat,
   docs : Nat, checkpoint : Nat, text : SUBSET (Ids \cup {0}),
   incomplete : BOOLEAN, error : BOOLEAN]

(* half says that is_interrupted is written and the rest is not yet.       *)
Cancel == [id : Ids, slot : Slots \cup {0}, half : BOOLEAN]
NoCancel == [id |-> 0, slot |-> 0, half |-> FALSE]

PCs == {"pending", "check", "build", "prompt", "fill", "decode", "failed",
        "checkpoint", "sample", "emit", "release", "pending2", "loop", "asleep"}

TypeOK ==
  /\ next_request_id \in 1 .. MaxRequests + 1
  /\ queue_requests \in Seq(Request)
  /\ slot \in [Slots -> SlotRecord]
  /\ t_last_used \in [Slots -> Int]
  /\ active_requests \in [Ids -> Slots \cup {0}]
  /\ n_batch \in Nat /\ n_batch <= NBatch
  /\ n_tokens \in Nat
  /\ pc \in PCs
  /\ scan \in 1 .. NSlots + 1
  /\ cancelling \in [Clients -> Cancel \cup {NoCancel}]
  /\ answers \in [Ids -> Nat]
  /\ cancelled \subseteq Ids

Fresh == [state |-> "IDLE", request_id |-> 0, task_type |-> "completion",
          is_interrupted |-> FALSE, sampler |-> FALSE, media |-> FALSE,
          media_processed |-> FALSE, load |-> FALSE, save_prompt |-> FALSE,
          num_prompt_tokens |-> 0, n_past |-> 0, n_decoded |-> 0,
          n_remaining |-> 0, docs |-> 0, checkpoint |-> 0,
          text |-> {}, incomplete |-> FALSE, error |-> FALSE]

Init ==
  /\ next_request_id = 1
  /\ queue_requests = <<>>
  /\ slot = [s \in Slots |-> Fresh]
  /\ t_last_used = [s \in Slots |-> s]
  /\ active_requests = [r \in Ids |-> 0]
  /\ n_batch = NBatch /\ n_tokens = 0
  /\ pc = "pending" /\ scan = 1
  /\ cancelling = [c \in Clients |-> NoCancel]
  /\ answers = [r \in Ids |-> 0]
  /\ cancelled = {}

Answer(r) == answers' = [answers EXCEPT ![r] = @ + 1]

-----------------------------------------------------------------------------
(* Callers.                                                                *)

QueueRequest(shape) ==
  /\ next_request_id <= MaxRequests
  /\ shape.valid
  /\ next_request_id' = next_request_id + 1
  /\ queue_requests' = Append(queue_requests, [id |-> next_request_id, shape |-> shape])
  /\ UNCHANGED <<pool, batch, loop, cancelling, answers, cancelled>>

(* The early returns of queue_embedding_request and queue_rerank_request:  *)
(* the callback runs in the caller and nothing is queued.                  *)
AnswerAtOnce(shape) ==
  /\ next_request_id <= MaxRequests
  /\ shape.task # "completion" /\ ~shape.valid
  /\ next_request_id' = next_request_id + 1
  /\ Answer(next_request_id)
  /\ UNCHANGED <<pool, batch, loop, queue_requests, cancelling, cancelled>>

(* cancel_request first looks the request up, ...                          *)
CancelLookup(c, r) ==
  /\ cancelling[c] = NoCancel
  /\ r < next_request_id
  /\ cancelling' = [cancelling EXCEPT ![c] = [id |-> r, slot |-> active_requests[r],
                                                     half |-> FALSE]]
  /\ UNCHANGED <<pool, batch, loop, next_request_id, queue_requests, answers, cancelled>>

(* Mutant: only the state is written.                                      *)
Interrupted_StateOnly(s) == slot[s]

Interrupted(s) == [slot[s] EXCEPT !.is_interrupted = TRUE]

(* ... then marks the slot it found, ...                                   *)
CancelInterrupt(c) ==
  LET s == cancelling[c].slot
  IN /\ s # 0 /\ ~cancelling[c].half
     /\ slot' = [slot EXCEPT ![s] = Interrupted(s)]
     /\ cancelled' = cancelled \cup {cancelling[c].id}
     /\ cancelling' = [cancelling EXCEPT ![c].half = TRUE]
     /\ UNCHANGED <<batch, loop, next_request_id, queue_requests, t_last_used,
                    active_requests, answers>>

Stopped(s) == [slot[s] EXCEPT !.state = "DONE"]

(* ... sets its state, whatever request the slot has by now, and erases    *)
(* the entry; ...                                                          *)
CancelDone(c) ==
  LET s == cancelling[c].slot
  IN /\ s # 0 /\ cancelling[c].half
     /\ slot' = [slot EXCEPT ![s] = Stopped(s)]
     /\ active_requests' = [active_requests EXCEPT ![cancelling[c].id] = 0]
     /\ cancelling' = [cancelling EXCEPT ![c] = NoCancel]
     /\ UNCHANGED <<batch, loop, next_request_id, queue_requests, t_last_used,
                    answers, cancelled>>

Queued(r) == \E i \in DOMAIN queue_requests : queue_requests[i].id = r

(* queue_requests without its i-th entry.                                  *)
Erased(i) ==
  [j \in 1 .. Len(queue_requests) - 1 |-> queue_requests[IF j < i THEN j ELSE j + 1]]

(* ... or removes it from the queue; ...                                   *)
CancelPending(c) ==
  LET r == cancelling[c].id
  IN /\ r # 0 /\ cancelling[c].slot = 0
     /\ \E i \in DOMAIN queue_requests : queue_requests[i].id = r /\ queue_requests' = Erased(i)
     /\ cancelled' = cancelled \cup {r}
     /\ cancelling' = [cancelling EXCEPT ![c] = NoCancel]
     /\ UNCHANGED <<pool, batch, loop, next_request_id, answers>>

(* ... a request that is in neither is ignored with a warning.             *)
CancelMissing(c) ==
  /\ cancelling[c].id # 0 /\ cancelling[c].slot = 0 /\ ~Queued(cancelling[c].id)
  /\ cancelling' = [cancelling EXCEPT ![c] = NoCancel]
  /\ UNCHANGED <<pool, batch, loop, next_request_id, cancelled, queue_requests, answers>>

-----------------------------------------------------------------------------
(* Steps 1 and 7 of update_slots: process_pending_queue.                   *)

(* Mutant: a generating slot counts as available.                          *)
Oldest_Any(s) == \A t \in Slots : t_last_used[s] <= t_last_used[t]

(* get_available_slot: the least recently used idle or done slot.          *)
Oldest(s) ==
  /\ slot[s].state \in Avail
  /\ \A t \in Slots : slot[t].state \in Avail => t_last_used[s] <= t_last_used[t]

CheckpointTarget(n) == IF n > 1 THEN n - 1 ELSE n

(* A request enters slot s with n tokens of its prompt reused.  The paths  *)
(* are set for completions only, and generated_text, generated_tokens,     *)
(* incomplete and error_message are what the slot held before.             *)
Loaded(s, q, n) ==
  LET completion == q.shape.task = "completion"
      save == IF completion THEN q.shape.checkpoint ELSE slot[s].save_prompt
  IN [state |-> "PROCESSING_PROMPT", request_id |-> q.id, task_type |-> q.shape.task,
      is_interrupted |-> FALSE,
      sampler |-> completion /\ q.shape.sampler, media |-> completion /\ q.shape.media,
      media_processed |-> ~(completion /\ q.shape.media),
      load |-> IF completion THEN q.shape.load ELSE slot[s].load, save_prompt |-> save,
      num_prompt_tokens |-> q.shape.prompt, n_past |-> n, n_decoded |-> 0,
      n_remaining |-> IF completion THEN q.shape.predict ELSE 0, docs |-> q.shape.docs,
      checkpoint |-> IF save THEN CheckpointTarget(q.shape.prompt) ELSE 0,
      text |-> slot[s].text, incomplete |-> slot[s].incomplete, error |-> slot[s].error]

(* load_prompt reuses a prefix only after a state file was loaded; it      *)
(* always leaves one prompt token to evaluate.                             *)
Reusable(s, q) ==
  IF (IF q.shape.task = "completion" THEN q.shape.load ELSE slot[s].load)
  THEN 0 .. q.shape.prompt - 1 ELSE {0}

Assign(s) ==
  /\ pc \in {"pending", "pending2"}
  /\ queue_requests # <<>> /\ Oldest(s)
  /\ LET q == Head(queue_requests)
     IN /\ \E n \in Reusable(s, q) : slot' = [slot EXCEPT ![s] = Loaded(s, q, n)]
        /\ active_requests' = [active_requests EXCEPT ![q.id] = s]
  /\ queue_requests' = Tail(queue_requests)
  /\ UNCHANGED <<caller, batch, loop, t_last_used, answers>>

LoadFailed(s, q) ==
  [slot[s] EXCEPT
     !.state = "DONE", !.request_id = q.id, !.task_type = q.shape.task,
     !.is_interrupted = FALSE, !.sampler = q.shape.sampler, !.load = TRUE,
     !.save_prompt = q.shape.checkpoint, !.incomplete = TRUE, !.error = TRUE]

(* load_state fails: the request is answered at once and never enters      *)
(* active_requests; the slot is left DONE.                                 *)
FailLoad(s) ==
  /\ pc \in {"pending", "pending2"}
  /\ queue_requests # <<>> /\ Oldest(s)
  /\ LET q == Head(queue_requests)
     IN /\ q.shape.task = "completion" /\ q.shape.load
        /\ slot' = [slot EXCEPT ![s] = LoadFailed(s, q)]
        /\ Answer(q.id)
  /\ queue_requests' = Tail(queue_requests)
  /\ UNCHANGED <<caller, batch, loop, t_last_used, active_requests>>

PendingDone ==
  /\ \/ pc = "pending" /\ pc' = "check"
     \/ pc = "pending2" /\ pc' = "loop"
  /\ queue_requests = <<>> \/ \A s \in Slots : slot[s].state \notin Avail
  /\ UNCHANGED <<caller, pool, batch, queue_requests, scan, answers>>

-----------------------------------------------------------------------------
(* Steps 2 to 4: build_batch and process_batch.                            *)

AnyBusy == \E s \in Slots : slot[s].state \in Busy

CheckActive ==
  /\ pc = "check"
  /\ pc' = IF AnyBusy THEN "build" ELSE "loop"
  /\ UNCHANGED <<caller, pool, batch, queue_requests, scan, answers>>

Continuing == {s \in Slots : slot[s].state = "GENERATING" /\ slot[s].text # {}}

(* First pass: the last sampled token of every generating slot, whatever   *)
(* n_batch is.                                                             *)
BuildGenerating ==
  /\ pc = "build"
  /\ n_tokens' = Cardinality(Continuing)
  /\ slot' = [s \in Slots |->
                IF s \in Continuing THEN [slot[s] EXCEPT !.n_past = @ + 1] ELSE slot[s]]
  /\ pc' = "prompt" /\ scan' = 1
  /\ UNCHANGED <<caller, queue_requests, t_last_used, active_requests, n_batch, answers>>

(* The loop over the slots has come to slot s, the next one in states.     *)
Next_slot(states, s) ==
  /\ s >= scan /\ slot[s].state \in states
  /\ \A t \in Slots : scan <= t /\ t < s => slot[t].state \notin states

None_left(states) == \A t \in Slots : scan <= t => slot[t].state \notin states

(* Second pass: prompt tokens.  Between seeing PROCESSING_PROMPT and       *)
(* writing the new state a cancel may come in: processMedia runs for long. *)
PromptSlot(s) ==
  /\ pc = "prompt" /\ Next_slot({"PROCESSING_PROMPT"}, s)
  /\ pc' = "fill" /\ scan' = s
  /\ UNCHANGED <<caller, pool, batch, queue_requests, answers>>

HasMedia(s) == slot[s].media /\ ~slot[s].media_processed /\ slot[s].n_past = 0

PromptEnd(s) ==
  IF slot[s].checkpoint > 0 /\ slot[s].n_past <= slot[s].checkpoint
    THEN slot[s].checkpoint ELSE slot[s].num_prompt_tokens

(* Mutant: the rest of the prompt, whatever n_batch is.                    *)
Taken_WholePrompt(s) ==
  IF PromptEnd(s) <= slot[s].n_past THEN 0 ELSE PromptEnd(s) - slot[s].n_past

(* How many tokens of slot s go into the batch.  (A prompt with media read *)
(* on from a state file has placeholders, skipped without an entry; they   *)
(* are not told apart from tokens here.)                                   *)
Taken(s) ==
  IF PromptEnd(s) <= slot[s].n_past \/ n_batch <= n_tokens THEN 0
  ELSE IF PromptEnd(s) - slot[s].n_past <= n_batch - n_tokens
       THEN PromptEnd(s) - slot[s].n_past ELSE n_batch - n_tokens

Filled(s) ==
  LET n == slot[s].n_past + Taken(s)
  IN [slot[s] EXCEPT !.n_past = n,
        !.state = IF n >= slot[s].num_prompt_tokens THEN "GENERATING" ELSE @]

FillText(s) ==
  /\ pc = "fill" /\ s = scan /\ ~HasMedia(s)
  /\ slot' = [slot EXCEPT ![s] = Filled(s)]
  /\ n_tokens' = n_tokens + Taken(s)
  /\ pc' = "prompt" /\ scan' = s + 1
  /\ UNCHANGED <<caller, queue_requests, t_last_used, active_requests, n_batch, answers>>

(* processMedia decodes the whole prompt itself, ...                       *)
MediaFilled(s) ==
  [slot[s] EXCEPT !.n_past = slot[s].num_prompt_tokens, !.media_processed = TRUE,
                  !.state = "GENERATING"]

FillMedia(s) ==
  /\ pc = "fill" /\ s = scan /\ HasMedia(s)
  /\ slot' = [slot EXCEPT ![s] = MediaFilled(s)]
  /\ pc' = "prompt" /\ scan' = s + 1
  /\ UNCHANGED <<caller, batch, queue_requests, t_last_used, active_requests, answers>>

(* Mutant: the state is not written.                                       *)
MediaFailed_StaysBusy(s, n) == [slot[s] EXCEPT !.n_past = n, !.incomplete = TRUE]

MediaFailed(s, n) ==
  [slot[s] EXCEPT !.state = "DONE", !.n_past = n, !.incomplete = TRUE]

(* ... or throws, after any number of them; a context too small throws,    *)
(* too, so that the branch for context_full is never taken.                *)
FailMedia(s) ==
  /\ pc = "fill" /\ s = scan /\ HasMedia(s)
  /\ \E n \in 0 .. slot[s].num_prompt_tokens :
       slot' = [slot EXCEPT ![s] = MediaFailed(s, n)]
  /\ Answer(slot[s].request_id)
  /\ pc' = "prompt" /\ scan' = s + 1
  /\ UNCHANGED <<caller, batch, queue_requests, t_last_used, active_requests>>

(* Without tokens there is no decode.                                      *)
PromptDone ==
  /\ pc = "prompt" /\ None_left({"PROCESSING_PROMPT"})
  /\ pc' = IF n_tokens > 0 THEN "decode" ELSE "checkpoint"
  /\ UNCHANGED <<caller, pool, batch, queue_requests, scan, answers>>

Decode ==
  /\ pc = "decode" /\ pc' = "checkpoint"
  /\ UNCHANGED <<caller, pool, batch, queue_requests, scan, answers>>

DecodeFails ==
  /\ DecodeMayFail
  /\ pc = "decode" /\ pc' = "failed" /\ scan' = 1
  /\ n_batch' = IF n_batch > MinBatch THEN n_batch \div 2 ELSE n_batch
  /\ UNCHANGED <<caller, pool, queue_requests, n_tokens, answers>>

(* Only completions have an on_complete_callback to hear of it.            *)
FailSlot(s) ==
  /\ pc = "failed" /\ Next_slot(Busy, s)
  /\ slot' = [slot EXCEPT ![s] = [@ EXCEPT !.state = "DONE", !.incomplete = TRUE]]
  /\ IF slot[s].task_type = "completion" THEN Answer(slot[s].request_id)
                                         ELSE UNCHANGED answers
  /\ scan' = s + 1
  /\ UNCHANGED <<caller, batch, queue_requests, t_last_used, active_requests, pc>>

(* update_slots returns here without releasing anything.                   *)
FailDone ==
  /\ pc = "failed" /\ None_left(Busy) /\ pc' = "loop"
  /\ UNCHANGED <<caller, pool, batch, queue_requests, scan, answers>>

-----------------------------------------------------------------------------
(* Step 4.6: prompt checkpoints.                                           *)

(* Mutant: waits for a token more than the target.                         *)
CheckpointDue_Late(s) ==
  slot[s].checkpoint > 0 /\ (slot[s].n_decoded > 0 \/ slot[s].n_past > slot[s].checkpoint)

CheckpointDue(s) ==
  slot[s].checkpoint > 0 /\ (slot[s].n_decoded > 0 \/ slot[s].n_past >= slot[s].checkpoint)

SaveCheckpoints ==
  /\ pc = "checkpoint"
  /\ slot' = [s \in Slots |->
                IF CheckpointDue(s) THEN [slot[s] EXCEPT !.checkpoint = 0] ELSE slot[s]]
  /\ pc' = "sample" /\ scan' = 1
  /\ UNCHANGED <<caller, batch, queue_requests, t_last_used, active_requests, answers>>

-----------------------------------------------------------------------------
(* Step 5: sample_and_callback.                                            *)

Skipped(s) ==
  slot[s].is_interrupted \/ (slot[s].task_type = "completion" /\ ~slot[s].sampler)

(* An interrupted slot, or one without sampler, ends without a callback.   *)
SampleSkip(s) ==
  /\ pc = "sample" /\ Next_slot({"GENERATING"}, s) /\ Skipped(s)
  /\ slot' = [slot EXCEPT ![s].state = "DONE"]
  /\ scan' = s + 1
  /\ UNCHANGED <<caller, batch, queue_requests, t_last_used, active_requests, pc, answers>>

(* Past the checks, sampling and the callbacks take their time.            *)
SampleSlot(s) ==
  /\ pc = "sample" /\ Next_slot({"GENERATING"}, s) /\ ~Skipped(s)
  /\ pc' = "emit" /\ scan' = s
  /\ UNCHANGED <<caller, pool, batch, queue_requests, answers>>

Emitting(s, task) ==
  /\ pc = "emit" /\ s = scan /\ slot[s].task_type = task
  /\ pc' = "sample" /\ scan' = s + 1
  /\ UNCHANGED <<caller, batch, queue_requests, t_last_used, active_requests>>

(* Mutant: the slot goes on generating.                                    *)
Finish_StaysBusy(s) == UNCHANGED slot /\ Answer(slot[s].request_id)

(* The end of a task: the final callback, then DONE.                       *)
Finish(s) ==
  /\ slot' = [slot EXCEPT ![s].state = "DONE"]
  /\ Answer(slot[s].request_id)

EmitEog(s) == Emitting(s, "completion") /\ Finish(s)

(* Mutant: counts below zero when there is no limit.                       *)
Sampled_NoLimitCheck(s) == [slot[s] EXCEPT !.text = @ \cup {slot[s].request_id},
                              !.n_decoded = @ + 1, !.n_remaining = @ - 1]

Sampled(s) == [slot[s] EXCEPT !.text = @ \cup {slot[s].request_id},
                 !.n_decoded = @ + 1, !.n_remaining = IF @ > 0 THEN @ - 1 ELSE @]

AtLimit(s) == slot[s].n_remaining = 1 \/ slot[s].n_past >= NCtx

(* A token that ends the completion: at a limit, or by a stop word.        *)
EmitLast(s) ==
  /\ Emitting(s, "completion")
  /\ slot' = [slot EXCEPT ![s] = [Sampled(s) EXCEPT !.state = "DONE"]]
  /\ Answer(slot[s].request_id)

EmitToken(s) ==
  /\ Emitting(s, "completion") /\ ~AtLimit(s)
  /\ slot' = [slot EXCEPT ![s] = Sampled(s)]
  /\ UNCHANGED answers

EmitEmbedding(s) == Emitting(s, "embedding") /\ Finish(s)

EmitScores(s) == Emitting(s, "rerank") /\ slot[s].docs = 1 /\ Finish(s)

(* A rerank with documents left loads the next one.                        *)
Reloaded(s, n) ==
  [slot[s] EXCEPT
     !.state = "PROCESSING_PROMPT", !.docs = @ - 1, !.n_past = n, !.n_decoded = 0,
     !.checkpoint = IF slot[s].save_prompt
                      THEN CheckpointTarget(slot[s].num_prompt_tokens) ELSE 0]

NextDocument(s) ==
  /\ Emitting(s, "rerank") /\ slot[s].docs > 1
  /\ \E n \in IF slot[s].load THEN 0 .. slot[s].num_prompt_tokens - 1 ELSE {0} :
       slot' = [slot EXCEPT ![s] = Reloaded(s, n)]
  /\ UNCHANGED answers

SampleDone ==
  /\ pc = "sample" /\ None_left({"GENERATING"})
  /\ pc' = "release" /\ scan' = 1
  /\ UNCHANGED <<caller, pool, batch, queue_requests, answers>>

-----------------------------------------------------------------------------
(* Step 6: release_completed_slots, and the loop of the processing thread. *)

(* s becomes the most recently used slot.                                  *)
Released(s) ==
  [t \in Slots |-> IF t = s THEN NSlots
                   ELSE IF t_last_used[t] > t_last_used[s] THEN t_last_used[t] - 1
                   ELSE t_last_used[t]]

(* Mutant: every entry is erased.                                          *)
Untracked_All(r) == [i \in Ids |-> 0]

Untracked(r) == [i \in Ids |-> IF i = r THEN 0 ELSE active_requests[i]]

(* llama_rn_slot::reset; cache_tokens and t_last_used are kept.            *)
Reset(s) == Fresh

ReleaseSlot(s) ==
  /\ pc = "release" /\ Next_slot({"DONE"}, s)
  /\ active_requests' = Untracked(slot[s].request_id)
  /\ t_last_used' = Released(s)
  /\ slot' = [slot EXCEPT ![s] = Reset(s)]
  /\ scan' = s + 1
  /\ UNCHANGED <<caller, batch, queue_requests, pc, answers>>

ReleaseDone ==
  /\ pc = "release" /\ None_left({"DONE"}) /\ pc' = "pending2"
  /\ UNCHANGED <<caller, pool, batch, queue_requests, scan, answers>>

(* Mutant: only waiting requests count as work.                            *)
HasWork_QueueOnly == queue_requests # <<>>

HasWork == queue_requests # <<>> \/ AnyBusy

Loop ==
  /\ pc = "loop"
  /\ pc' = IF HasWork THEN "pending" ELSE "asleep"
  /\ UNCHANGED <<caller, pool, batch, queue_requests, scan, answers>>

WakeUp ==
  /\ pc = "asleep" /\ queue_requests # <<>> /\ pc' = "pending"
  /\ UNCHANGED <<caller, pool, batch, queue_requests, scan, answers>>

-----------------------------------------------------------------------------
SlotStep(s) ==
  \/ Assign(s) \/ FailLoad(s)
  \/ PromptSlot(s) \/ FillText(s) \/ FillMedia(s) \/ FailMedia(s)
  \/ FailSlot(s)
  \/ SampleSkip(s) \/ SampleSlot(s)
  \/ EmitEog(s) \/ EmitLast(s) \/ EmitToken(s)
  \/ EmitEmbedding(s) \/ EmitScores(s) \/ NextDocument(s)
  \/ ReleaseSlot(s)

(* The processing thread.                                                  *)
Process ==
  \/ \E s \in Slots : SlotStep(s)
  \/ PendingDone \/ CheckActive \/ BuildGenerating \/ PromptDone
  \/ Decode \/ DecodeFails \/ FailDone
  \/ SaveCheckpoints \/ SampleDone \/ ReleaseDone
  \/ Loop \/ WakeUp

CancelEffect(c) ==
  CancelInterrupt(c) \/ CancelDone(c) \/ CancelPending(c) \/ CancelMissing(c)

Next ==
  \/ \E shape \in Shapes : QueueRequest(shape) \/ AnswerAtOnce(shape)
  \/ \E c \in Clients : CancelEffect(c) \/ \E r \in Ids : CancelLookup(c, r)
  \/ Process

Spec == Init /\ [][Next]_vars

(* The processing thread runs, and a cancel_request that started returns.  *)
Fairness == WF_vars(Process) /\ \A c \in Clients : WF_vars(CancelEffect(c))

FairSpec == Spec /\ Fairness
-----------------------------------------------------------------------------
(* Properties.                                                             *)

InHand(s) == pc \in {"fill", "emit"} /\ scan = s

(* The request of slot s is being served.                                  *)
Held(s) == slot[s].state \in Busy \/ InHand(s)

(* No request gets two final callbacks, whatever mix of failed decodes,    *)
(* failed loads, failed media and cancellations it meets.                  *)
AnsweredAtMostOnce == \A r \in Ids : answers[r] <= 1

(* A request is in one place: one slot or one queue entry, never both, and *)
(* while it is in either it has not been answered.                         *)
OnePlace ==
  /\ \A s, t \in Slots : Held(s) /\ Held(t) /\ slot[s].request_id = slot[t].request_id => s = t
  /\ \A s \in Slots : Held(s) => ~Queued(slot[s].request_id) /\ answers[slot[s].request_id] = 0
  /\ \A i, j \in DOMAIN queue_requests : queue_requests[i].id = queue_requests[j].id => i = j
  /\ \A i \in DOMAIN queue_requests : answers[queue_requests[i].id] = 0

(* A request in a slot can be cancelled: active_requests leads to its      *)
(* slot, unless a cancellation has already marked the slot (a cancelled    *)
(* slot may still be written back to a busy state by build_batch or        *)
(* sample_and_callback).                                                   *)
Tracked ==
  \A s \in Slots : Held(s) /\ ~slot[s].is_interrupted => active_requests[slot[s].request_id] = s

(* A slot that goes on with a request after its cancellation carries the   *)
(* interrupt flag, so the next sampling ends it.                           *)
CancelledIsInterrupted ==
  \A s \in Slots : Held(s) /\ slot[s].request_id \in cancelled => slot[s].is_interrupted

(* "Prompt checkpoint missed" is never logged: whenever a token has been   *)
(* generated the checkpoint of the prompt was saved before.                *)
CheckpointNotMissed == \A s \in Slots : slot[s].checkpoint > 0 => slot[s].n_decoded = 0

(* Slots of requests with media: processMedia decodes a prompt outside any *)
(* batch, without an entry of it.                                          *)
Mediated == {s \in Slots : slot[s].media}

(* llama_batch_add never writes past the n_batch entries the batch was     *)
(* allocated with, although the first pass does not look at n_batch and    *)
(* nothing keeps n_parallel below it: a prompt ends in a batch that had    *)
(* room for it, so no more slots generate than a batch has entries.  Only  *)
(* slots of requests with media can come on top of them.                   *)
BatchWithinCapacity ==
  pc \in {"prompt", "fill", "decode"} =>
    \/ n_tokens <= NBatch
    \/ NBatch < NSlots /\ n_tokens <= NBatch + Cardinality(Mediated)

(* What a request reports is its own: the text, the tokens, the incomplete *)
(* flag and the error message of its slot do not come from the request     *)
(* before ("Don't call release_slot yet - let update_slots handle          *)
(* cleanup", "Error message if completion failed").                        *)
OwnOutput ==
  \A s \in Slots : Held(s) => /\ slot[s].text \subseteq {slot[s].request_id}
                             /\ ~slot[s].incomplete /\ ~slot[s].error

(* The processing thread does not go to sleep on a request: whatever waits *)
(* in the queue or in a slot leaves it.                                    *)
EveryRequestLeaves ==
  \A r \in Ids : Queued(r) \/ (\E s \in Slots : slot[s].state \in Busy /\ slot[s].request_id = r)
              ~> ~Queued(r) /\ \A s \in Slots : Held(s) => slot[s].request_id # r

(* While nobody cancels anything, every completion whose sampler can be    *)
(* made gets its callback once it is queued, failed decodes, loads and     *)
(* media included.                                                         *)
AwaitsAnswer(r) ==
  \E i \in DOMAIN queue_requests :
    /\ queue_requests[i].id = r
    /\ queue_requests[i].shape.task = "completion" /\ queue_requests[i].shape.sampler
EveryRequestAnswered == \A r \in Ids : AwaitsAnswer(r) ~> answers[r] = 1 \/ cancelled # {}
=============================================================================
