----------------------------- MODULE SlotCache ------------------------------
(***************************************************************************)
(* What the slots compute with: the sequence of each slot in the llama     *)
(* memory against the slot's cache_tokens and n_past, and the state files  *)
(* (rn-slot.cpp load_prompt, load_state, save_state,                       *)
(* save_prompt_state_checkpoint under rn-slot-manager.cpp update_slots).   *)
(*                                                                         *)
(* Nothing ties memory to tokens but the order of the statements; the only *)
(* check is llama_decode's own: positions must follow the last one in the  *)
(* memory.  SlotManager has the queue, the choice of the slot and the      *)
(* callbacks; here a request comes when the processing thread looks at the *)
(* queue, any available slot may take it, and any token may be the last.   *)
(* A memory is a function from positions (from 0) to tokens.               *)
(***************************************************************************)
EXTENDS Integers, Sequences, FiniteSets

CONSTANTS
  NSlots,         \* n_parallel: slot s has sequence s of the memory
  NBatch,         \* n_batch
  NCtx,           \* context size of one slot
  Tokens,         \* the text tokens
  Null,           \* LLAMA_TOKEN_NULL: the place of an image in a prompt
  Shapes,         \* what callers ask for
  Recurrent,      \* the kinds of model: recurrent or hybrid, or not
  MaxRequests,    \* bound: the number of requests
  DecodeMayFail   \* llama_decode may fail also when the positions are right

Tasks == {"completion", "embedding", "rerank"}
Texts == Seq(Tokens \cup {Null})

(* prompts has one prompt, or one per document of a rerank; the sizes are  *)
(* 0 for "all"; there is one state file, which all paths name.             *)
Shape == [task : Tasks, prompts : Seq(Texts), media : BOOLEAN, load : BOOLEAN,
          save : BOOLEAN, checkpoint : BOOLEAN, load_size : Nat, save_size : Nat]

ASSUME SlotCacheAssumption ==
  /\ NSlots \in Nat \ {0} /\ NBatch \in Nat \ {0} /\ NCtx \in Nat /\ MaxRequests \in Nat
  /\ Null \notin Tokens
  /\ Shapes \subseteq Shape
  /\ \A q \in Shapes : q.prompts # <<>> /\ \A i \in DOMAIN q.prompts : q.prompts[i] # <<>>
  /\ Recurrent \subseteq BOOLEAN /\ DecodeMayFail \in BOOLEAN

Slots == 1 .. NSlots
Busy  == {"PROCESSING_PROMPT", "GENERATING"}

VARIABLES
  recurrent,   \* the model's state is whole: no part of it can be removed
  slot,        \* the slots
  mem,         \* the llama memory, by sequence
  file,        \* the state file
  batch,       \* the batch, by sequence
  rows,        \* the slot of the last token in the batch that asks for logits
  logits,      \* the slot of the last row of logits that llama_decode left
  pc, scan,    \* the processing thread
  t_last_used, \* rank of each slot in order of its last release
  served,      \* number of requests taken
  disturbed    \* history: the slot's n_past counts tokens its sequence lost or
               \* never got: a rerank cleared the memory, the decode failed, or
               \* the slot reused tokens of a state file it did not load

outputs == <<rows, logits>>
loop == <<pc, scan>>
vars == <<recurrent, slot, mem, file, batch, outputs, loop, t_last_used, served, disturbed>>

Empty == [p \in {} |-> Null]
NoFile == [toks |-> <<>>, mem |-> Empty, tainted |-> FALSE]

(* docs are the prompts still to do, the present one first; i_batch is -1  *)
(* when the slot has no token in the batch to sample from; checkpoint is   *)
(* save_prompt_state_tokens while it is pending, else 0; generated is the  *)
(* last of generated_tokens, Null when there is none.                      *)
SlotRecord ==
  [state : {"IDLE", "DONE"} \cup Busy, task : Tasks, is_interrupted : BOOLEAN,
   docs : Seq(Texts), media : BOOLEAN, load : BOOLEAN, save : BOOLEAN,
   save_prompt : BOOLEAN, load_size : Nat, save_size : Nat, cache_tokens : Texts,
   n_past : Nat, checkpoint : Nat, generated : Tokens \cup {Null}, i_batch : {-1, 0}]

Fresh(cache) ==
  [state |-> "IDLE", task |-> "completion", is_interrupted |-> FALSE,
   docs |-> <<>>, media |-> FALSE, load |-> FALSE, save |-> FALSE,
   save_prompt |-> FALSE, load_size |-> 0, save_size |-> 0, cache_tokens |-> cache,
   n_past |-> 0, checkpoint |-> 0, generated |-> Null, i_batch |-> -1]

Init ==
  /\ recurrent \in Recurrent
  /\ slot = [s \in Slots |-> Fresh(<<>>)]
  /\ mem = [s \in Slots |-> Empty]
  /\ file = NoFile
  /\ batch = [s \in Slots |-> Empty]
  /\ rows = 0 /\ logits = 0
  /\ pc = "pending" /\ scan = 1
  /\ t_last_used = [s \in Slots |-> s]
  /\ served = 0
  /\ disturbed = [s \in Slots |-> FALSE]

-----------------------------------------------------------------------------
(* The memory, as the slots use it.                                        *)

(* The first n tokens of a text at the positions 0 .. n-1.                 *)
Placed(text, n) == [p \in 0 .. n - 1 |-> text[p + 1]]

(* Mutant: every memory refuses to drop a part.                            *)
Removed_Refused(m, p0) == IF p0 > 0 THEN m ELSE Empty

(* llama_memory_seq_rm(s, p0, -1); a recurrent memory refuses, and the     *)
(* slots do not look, when its last position is among those to go.         *)
Removed(m, p0) ==
  IF recurrent /\ p0 > 0 /\ \E p \in DOMAIN m : p >= p0
    THEN m ELSE [p \in {i \in DOMAIN m : i < p0} |-> m[p]]

(* llama_batch_allocr::init: tokens b may follow what is in m.             *)
Follows(m, b) ==
  /\ \A p, q \in DOMAIN b : p .. q \subseteq DOMAIN b
  /\ b # Empty /\ m # Empty =>
       \E p \in DOMAIN m : /\ p + 1 \in DOMAIN b
                           /\ \A i \in DOMAIN m : i <= p
                           /\ \A i \in DOMAIN b : i > p

Joined(m, b) == [p \in DOMAIN m \cup DOMAIN b |-> IF p \in DOMAIN b THEN b[p] ELSE m[p]]

Smaller(a, b) == IF a <= b THEN a ELSE b

(* Mutant: only the lengths are compared.                                  *)
CommonPrefix_Shorter(a, b) == Smaller(Len(a), Len(b))

(* find_common_prefix_length                                               *)
CommonPrefix(a, b) ==
  Cardinality({i \in 1 .. Smaller(Len(a), Len(b)) : \A j \in 1 .. i : a[j] = b[j]})

(* The tokens before the first LLAMA_TOKEN_NULL.                           *)
UntilNull(text) ==
  SubSeq(text, 1, Cardinality({i \in DOMAIN text : \A j \in 1 .. i : text[j] # Null}))

-----------------------------------------------------------------------------
(* process_pending_queue                                                   *)

(* Mutant: the last shared token is evaluated again, also when none is.    *)
PromptLoad_OneLess(load, cache, m, prompt) ==
  LET past == IF load /\ cache # <<>> THEN CommonPrefix(cache, prompt) - 1 ELSE 0
  IN [reuse |-> past > 0, n_past |-> past, mem |-> Removed(m, past)]

(* load_prompt, given the slot's tokens and memory: what is reused of      *)
(* them, and what is left in the memory.                                   *)
PromptLoad(load, cache, m, prompt) ==
  LET shared == CommonPrefix(cache, prompt)
      reuse == load /\ cache # <<>> /\ shared > 0 /\ (recurrent => shared = Len(cache))
      past == IF ~reuse THEN 0 ELSE IF shared = Len(prompt) THEN shared - 1 ELSE shared
  IN [reuse |-> reuse, n_past |-> past, mem |-> Removed(m, past)]

CheckpointTarget(wanted, prompt, past) ==
  LET target == IF Len(prompt) > 1 THEN Len(prompt) - 1 ELSE Len(prompt)
  IN IF wanted /\ past <= target THEN target ELSE 0

(* A slot after load_prompt; sl has the request's other fields.            *)
Prompted(sl, docs, past) ==
  [sl EXCEPT !.state = "PROCESSING_PROMPT", !.docs = docs, !.cache_tokens = Head(docs),
             !.n_past = past, !.i_batch = -1,
             !.checkpoint = CheckpointTarget(sl.save_prompt, Head(docs), past)]

(* get_available_slot: the least recently used idle or done slot.          *)
Available(s) ==
  /\ pc = "pending" /\ served < MaxRequests
  /\ slot[s].state \notin Busy
  /\ \A t \in Slots : slot[t].state \notin Busy => t_last_used[s] <= t_last_used[t]

(* load_state: the tokens and the memory of the file, cut to load_size.    *)
LoadedTokens(q) ==
  IF ~recurrent /\ q.load_size > 0 /\ q.load_size < Len(file.toks)
    THEN SubSeq(file.toks, 1, q.load_size) ELSE file.toks
LoadedMemory(q) == Removed(file.mem, IF recurrent THEN NCtx + 1 ELSE Len(LoadedTokens(q)))

WithPaths(sl, q) ==
  [sl EXCEPT !.task = "completion", !.is_interrupted = FALSE, !.media = q.media,
             !.load = q.load, !.save = q.save, !.save_prompt = q.checkpoint,
             !.load_size = q.load_size, !.save_size = q.save_size]

AssignCompletion(s, q) ==
  /\ Available(s) /\ q.task = "completion" /\ (q.load => file # NoFile)
  /\ LET cache == IF q.load THEN LoadedTokens(q) ELSE slot[s].cache_tokens
         m == IF q.load THEN LoadedMemory(q) ELSE mem[s]
         loaded == PromptLoad(q.load, cache, m, q.prompts[1])
     IN /\ slot' = [slot EXCEPT ![s] = Prompted(WithPaths(@, q), q.prompts, loaded.n_past)]
        /\ mem' = [mem EXCEPT ![s] = loaded.mem]
        /\ disturbed' = [disturbed EXCEPT ![s] = loaded.reuse /\ file.tainted]
  /\ served' = served + 1
  /\ UNCHANGED <<recurrent, t_last_used, file, batch, outputs, loop>>

(* load_state fails and the slot is DONE: it refuses the OpenCL backend    *)
(* with tokens and sequence kept; a missing file takes the tokens, an      *)
(* unreadable one the sequence too.                                        *)
FailLoad(s, q) ==
  /\ Available(s) /\ q.task = "completion" /\ q.load
  /\ \E kept \in {<<slot[s].cache_tokens, mem[s]>>, <<<<>>, mem[s]>>, <<<<>>, Empty>>} :
       /\ slot' = [slot EXCEPT ![s] = [WithPaths(@, q) EXCEPT
                     !.media = slot[s].media, !.state = "DONE", !.cache_tokens = kept[1]]]
       /\ mem' = [mem EXCEPT ![s] = kept[2]]
  /\ served' = served + 1
  /\ UNCHANGED <<recurrent, t_last_used, file, batch, outputs, loop, disturbed>>

(* Embedding and rerank set no paths: a slot that was not reset still has  *)
(* those of the request before, and load_prompt takes its tokens for       *)
(* loaded ones.                                                            *)
Taken(sl, q) == [sl EXCEPT !.task = q.task, !.is_interrupted = FALSE, !.media = FALSE]

AssignEmbedding(s, q) ==
  /\ Available(s) /\ q.task = "embedding"
  /\ LET loaded == PromptLoad(slot[s].load, slot[s].cache_tokens, mem[s], q.prompts[1])
     IN /\ slot' = [slot EXCEPT ![s] = Prompted(Taken(@, q), q.prompts, loaded.n_past)]
        /\ mem' = [mem EXCEPT ![s] = loaded.mem]
        /\ disturbed' = [disturbed EXCEPT ![s] = loaded.reuse]
  /\ served' = served + 1
  /\ UNCHANGED <<recurrent, t_last_used, file, batch, outputs, loop>>

(* llama_memory_clear: every sequence.                                     *)
ClearMemory(s, reuse) ==
  /\ mem' = [t \in Slots |-> Empty]
  /\ disturbed' = [t \in Slots |-> IF t = s THEN reuse ELSE disturbed[t] \/ mem[t] # Empty]

AssignRerank(s, q) ==
  /\ Available(s) /\ q.task = "rerank"
  /\ LET loaded == PromptLoad(slot[s].load, slot[s].cache_tokens, Empty, q.prompts[1])
     IN /\ slot' = [slot EXCEPT ![s] = Prompted(Taken(@, q), q.prompts, loaded.n_past)]
        /\ ClearMemory(s, loaded.reuse)
  /\ served' = served + 1
  /\ UNCHANGED <<recurrent, t_last_used, file, batch, outputs, loop>>

(* The queue is empty, or every slot is busy; with no busy slot            *)
(* update_slots returns.                                                   *)
PendingDone ==
  /\ pc = "pending" /\ \E s \in Slots : slot[s].state \in Busy
  /\ pc' = "build"
  /\ UNCHANGED <<recurrent, t_last_used, slot, mem, file, batch, outputs, scan, served, disturbed>>

(* cancel_request, at any time.                                            *)
Cancel(s) ==
  /\ slot[s].state \in Busy
  /\ slot' = [slot EXCEPT ![s].state = "DONE", ![s].is_interrupted = TRUE]
  /\ UNCHANGED <<recurrent, t_last_used, mem, file, batch, outputs, loop, served, disturbed>>

-----------------------------------------------------------------------------
(* build_batch                                                             *)

Continuing == {s \in Slots : slot[s].state = "GENERATING" /\ slot[s].generated # Null}

(* First pass: the last sampled token of every generating slot.            *)
BuildGenerating ==
  /\ pc = "build"
  /\ batch' = [s \in Slots |-> IF s \in Continuing
                THEN [p \in {slot[s].n_past} |-> slot[s].generated] ELSE Empty]
  /\ slot' = [s \in Slots |-> IF s \in Continuing
                THEN [slot[s] EXCEPT !.n_past = @ + 1, !.i_batch = 0] ELSE slot[s]]
  /\ rows' = IF Continuing = {} THEN 0
             ELSE CHOOSE s \in Continuing : \A t \in Continuing : t <= s
  /\ pc' = "prompt" /\ scan' = 1
  /\ UNCHANGED <<recurrent, t_last_used, mem, file, logits, served, disturbed>>

(* The loop over the slots has come to slot s, the next one in states.     *)
Next_slot(states, s) ==
  /\ s >= scan /\ slot[s].state \in states
  /\ \A t \in Slots : scan <= t /\ t < s => slot[t].state \notin states

None_left(states) == \A t \in Slots : scan <= t => slot[t].state \notin states

PromptSlot(s) ==
  /\ pc = "prompt" /\ Next_slot({"PROCESSING_PROMPT"}, s)
  /\ pc' = "fill" /\ scan' = s
  /\ UNCHANGED <<recurrent, t_last_used, slot, mem, file, batch, outputs, served, disturbed>>

Prompt(s) == Head(slot[s].docs)

HasMedia(s) == slot[s].media /\ slot[s].n_past = 0

(* processMedia evaluates the whole prompt itself, images included; the    *)
(* logits it leaves are to be sampled in this round.                       *)
FillMedia(s) ==
  /\ pc = "fill" /\ s = scan /\ HasMedia(s)
  /\ slot' = [slot EXCEPT ![s].media = FALSE, ![s].n_past = Len(Prompt(s)),
                          ![s].state = "GENERATING", ![s].i_batch = -1]
  /\ mem' = [mem EXCEPT ![s] = Placed(Prompt(s), Len(Prompt(s)))]
  /\ logits' = s
  /\ pc' = "prompt" /\ scan' = s + 1
  /\ UNCHANGED <<recurrent, t_last_used, file, batch, rows, served, disturbed>>

(* ... or it stops on the way, after n tokens; it counted those of the     *)
(* chunks it finished.                                                     *)
FailMedia(s) ==
  /\ pc = "fill" /\ s = scan /\ HasMedia(s)
  /\ \E n \in 0 .. Len(Prompt(s)) :
       /\ mem' = [mem EXCEPT ![s] = Placed(Prompt(s), n)]
       /\ \E past \in 0 .. n : slot' = [slot EXCEPT ![s].state = "DONE", ![s].n_past = past]
  /\ logits' \in {logits, s}
  /\ pc' = "prompt" /\ scan' = s + 1
  /\ UNCHANGED <<recurrent, t_last_used, file, batch, rows, served, disturbed>>

InBatch == Cardinality(UNION {{s} \X DOMAIN batch[s] : s \in Slots})

PromptEnd(s) ==
  IF slot[s].checkpoint > 0 /\ slot[s].n_past <= slot[s].checkpoint
    THEN slot[s].checkpoint ELSE Len(Prompt(s))

(* The positions of text among from .. to-1.                               *)
TextAt(s, from, to) == {p \in from .. to - 1 : Prompt(s)[p + 1] # Null}

(* Where the loop over the prompt ends: at PromptEnd or when the batch is  *)
(* full; it skips Null without taking room.                                *)
Full(s, d) == InBatch + Cardinality(TextAt(s, slot[s].n_past, d)) >= NBatch

FillEnds(s) ==
  {e \in slot[s].n_past .. PromptEnd(s) :
    /\ e = PromptEnd(s) \/ Full(s, e)
    /\ \A d \in slot[s].n_past .. e - 1 : ~Full(s, d)}

(* Logits are asked for the last token of a completion's prompt and for    *)
(* every token of the other tasks.                                         *)
AsksLogits(s, added) ==
  added # {} /\ (slot[s].task = "completion" => Len(Prompt(s)) - 1 \in added)

FillText(s) ==
  /\ pc = "fill" /\ s = scan /\ ~HasMedia(s)
  /\ \E end \in FillEnds(s) :
       LET added == TextAt(s, slot[s].n_past, end)
       IN /\ batch' = [batch EXCEPT ![s] = [p \in added |-> Prompt(s)[p + 1]]]
          /\ slot' = [slot EXCEPT ![s].n_past = end,
                        ![s].i_batch = IF added = {} THEN @ ELSE 0,
                        ![s].state = IF end >= Len(Prompt(s)) THEN "GENERATING" ELSE @]
          /\ rows' = IF AsksLogits(s, added) THEN s ELSE rows
  /\ pc' = "prompt" /\ scan' = s + 1
  /\ UNCHANGED <<recurrent, t_last_used, mem, file, logits, served, disturbed>>

PromptDone ==
  /\ pc = "prompt" /\ None_left({"PROCESSING_PROMPT"})
  /\ pc' = IF \E s \in Slots : batch[s] # Empty THEN "decode" ELSE "checkpoint"
  /\ UNCHANGED <<recurrent, t_last_used, slot, mem, file, batch, outputs, scan, served, disturbed>>

-----------------------------------------------------------------------------
(* process_batch                                                           *)

Accepted == \A s \in Slots : Follows(mem[s], batch[s])

Decode ==
  /\ pc = "decode" /\ Accepted
  /\ mem' = [s \in Slots |-> Joined(mem[s], batch[s])]
  /\ logits' = rows
  /\ pc' = "checkpoint"
  /\ UNCHANGED <<recurrent, t_last_used, slot, file, batch, rows, scan, served, disturbed>>

(* One bad sequence fails the batch, and with it every active request.     *)
DecodeFails ==
  /\ pc = "decode" /\ (DecodeMayFail \/ ~Accepted)
  /\ slot' = [s \in Slots |-> IF slot[s].state \in Busy
                THEN [slot[s] EXCEPT !.state = "DONE"] ELSE slot[s]]
  /\ disturbed' = [s \in Slots |-> disturbed[s] \/ batch[s] # Empty]
  /\ pc' = "pending"
  /\ UNCHANGED <<recurrent, t_last_used, mem, file, batch, outputs, scan, served>>

-----------------------------------------------------------------------------
(* Step 4.6: save_prompt_state_checkpoint                                  *)

CheckpointDue(s) == slot[s].checkpoint > 0 /\ slot[s].n_past >= slot[s].checkpoint

Written(s, toks) == [toks |-> toks, mem |-> mem[s], tainted |-> disturbed[s]]

(* The target is clamped to the tokens there are; without a path, or       *)
(* without tokens, nothing is written.                                     *)
CheckpointTokens(s) ==
  LET n == Smaller(slot[s].checkpoint, Len(slot[s].cache_tokens))
  IN IF slot[s].save_prompt THEN UntilNull(SubSeq(slot[s].cache_tokens, 1, n)) ELSE <<>>

SaveCheckpoint(s) ==
  /\ pc = "checkpoint" /\ CheckpointDue(s)
  /\ \A t \in Slots : CheckpointDue(t) => s <= t
  /\ file' = IF CheckpointTokens(s) = <<>> THEN file ELSE Written(s, CheckpointTokens(s))
  /\ slot' = [slot EXCEPT ![s].checkpoint = 0]
  /\ UNCHANGED <<recurrent, t_last_used, mem, batch, outputs, loop, served, disturbed>>

CheckpointDone ==
  /\ pc = "checkpoint" /\ \A s \in Slots : ~CheckpointDue(s)
  /\ pc' = "sample" /\ scan' = 1
  /\ UNCHANGED <<recurrent, t_last_used, slot, mem, file, batch, outputs, served, disturbed>>

-----------------------------------------------------------------------------
(* sample_and_callback                                                     *)

SampleSkip(s) ==
  /\ pc = "sample" /\ Next_slot({"GENERATING"}, s) /\ slot[s].is_interrupted
  /\ slot' = [slot EXCEPT ![s].state = "DONE"]
  /\ scan' = s + 1
  /\ UNCHANGED <<recurrent, t_last_used, mem, file, batch, outputs, pc, served, disturbed>>

SampleSlot(s) ==
  /\ pc = "sample" /\ Next_slot({"GENERATING"}, s) /\ ~slot[s].is_interrupted
  /\ pc' = "emit" /\ scan' = s
  /\ UNCHANGED <<recurrent, t_last_used, slot, mem, file, batch, outputs, served, disturbed>>

Emitting(s, task) ==
  /\ pc = "emit" /\ s = scan /\ slot[s].task = task
  /\ pc' = "sample" /\ scan' = s + 1
  /\ UNCHANGED <<recurrent, t_last_used, batch, outputs, served>>

(* Mutant: a model that can drop a part of its state saves all tokens too. *)
SavedSize_All(s, n) == n

(* How many of n tokens save_state writes.                                 *)
SavedSize(s, n) ==
  LET wanted == IF slot[s].save_size > 0 /\ slot[s].save_size <= n THEN slot[s].save_size ELSE n
  IN CASE recurrent -> n
       [] ~recurrent /\ wanted > 1 -> wanted - 1
       [] OTHER -> wanted

(* save_state, with the tokens cache.                                      *)
SaveState(s, cache) ==
  LET text == UntilNull(cache)
  IN file' = IF slot[s].save /\ text # <<>>
               THEN Written(s, SubSeq(text, 1, SavedSize(s, Len(text)))) ELSE file

EmitEog(s) ==
  /\ Emitting(s, "completion")
  /\ slot' = [slot EXCEPT ![s].state = "DONE"]
  /\ SaveState(s, slot[s].cache_tokens)
  /\ UNCHANGED <<mem, disturbed>>

Sampled(s, t) == [slot[s] EXCEPT !.generated = t, !.cache_tokens = Append(@, t)]

(* A token that ends the completion: at a limit, or by a stop word.        *)
EmitLast(s, t) ==
  /\ Emitting(s, "completion")
  /\ slot' = [slot EXCEPT ![s] = [Sampled(s, t) EXCEPT !.state = "DONE"]]
  /\ SaveState(s, Append(slot[s].cache_tokens, t))
  /\ UNCHANGED <<mem, disturbed>>

EmitToken(s, t) ==
  /\ Emitting(s, "completion") /\ slot[s].n_past < NCtx
  /\ slot' = [slot EXCEPT ![s] = Sampled(s, t)]
  /\ UNCHANGED <<mem, file, disturbed>>

EmitEmbedding(s) ==
  /\ Emitting(s, "embedding")
  /\ slot' = [slot EXCEPT ![s].state = "DONE"]
  /\ UNCHANGED <<mem, file, disturbed>>

EmitScores(s) ==
  /\ Emitting(s, "rerank") /\ Len(slot[s].docs) = 1
  /\ slot' = [slot EXCEPT ![s].state = "DONE"]
  /\ ClearMemory(s, disturbed[s])
  /\ UNCHANGED file

NextDocument(s) ==
  /\ Emitting(s, "rerank") /\ Len(slot[s].docs) > 1
  /\ LET docs == Tail(slot[s].docs)
         loaded == PromptLoad(slot[s].load, slot[s].cache_tokens, Empty, Head(docs))
     IN /\ slot' = [slot EXCEPT ![s] = Prompted(@, docs, loaded.n_past)]
        /\ ClearMemory(s, loaded.reuse)
  /\ UNCHANGED file

SampleDone ==
  /\ pc = "sample" /\ None_left({"GENERATING"})
  /\ pc' = "release" /\ scan' = 1
  /\ UNCHANGED <<recurrent, t_last_used, slot, mem, file, batch, outputs, served, disturbed>>

(* release_completed_slots and reset: cache_tokens stay, and so does what  *)
(* the sequence holds.                                                     *)
Release(s) ==
  /\ pc = "release" /\ Next_slot({"DONE"}, s)
  /\ slot' = [slot EXCEPT ![s] = Fresh(slot[s].cache_tokens)]
  /\ t_last_used' = [t \in Slots |-> IF t = s THEN NSlots
                       ELSE t_last_used[t] - (IF t_last_used[t] > t_last_used[s] THEN 1 ELSE 0)]
  /\ scan' = s + 1
  /\ UNCHANGED <<recurrent, mem, file, batch, outputs, pc, served, disturbed>>

ReleaseDone ==
  /\ pc = "release" /\ None_left({"DONE"})
  /\ pc' = "pending"
  /\ UNCHANGED <<recurrent, t_last_used, slot, mem, file, batch, outputs, scan, served, disturbed>>

-----------------------------------------------------------------------------
Assign(s) ==
  \E q \in Shapes : \/ AssignCompletion(s, q) \/ FailLoad(s, q)
                    \/ AssignEmbedding(s, q) \/ AssignRerank(s, q)

Fill(s) == PromptSlot(s) \/ FillMedia(s) \/ FailMedia(s) \/ FillText(s)

Emit(s) ==
  \/ SampleSkip(s) \/ SampleSlot(s)
  \/ EmitEog(s) \/ EmitEmbedding(s) \/ EmitScores(s) \/ NextDocument(s)
  \/ \E t \in Tokens : EmitLast(s, t) \/ EmitToken(s, t)

Next ==
  \/ \E s \in Slots : Assign(s) \/ Cancel(s) \/ Fill(s) \/ SaveCheckpoint(s) \/ Emit(s)
                     \/ Release(s)
  \/ PendingDone \/ BuildGenerating \/ PromptDone \/ Decode \/ DecodeFails
  \/ CheckpointDone \/ SampleDone \/ ReleaseDone

Spec == Init /\ [][Next]_vars
-----------------------------------------------------------------------------
(* Properties.                                                             *)

TypeOK ==
  /\ recurrent \in BOOLEAN
  /\ slot \in [Slots -> SlotRecord]
  /\ \A s \in Slots : DOMAIN mem[s] \subseteq Nat /\ DOMAIN batch[s] \subseteq Nat
  /\ file.toks \in Texts /\ file.tainted \in BOOLEAN
  /\ rows \in Slots \cup {0} /\ logits \in Slots \cup {0}
  /\ pc \in {"pending", "build", "prompt", "fill", "decode", "checkpoint",
             "sample", "emit", "release"}
  /\ t_last_used \in [Slots -> Int]
  /\ scan \in 1 .. NSlots + 1 /\ served \in 0 .. MaxRequests
  /\ disturbed \in [Slots -> BOOLEAN]

Sampling(s) ==
  \/ pc = "sample" /\ scan <= s /\ slot[s].state = "GENERATING"
  \/ pc = "emit" /\ scan = s

(* A token, an embedding or a score is computed from the request's own     *)
(* tokens and from all of them: when slot s is sampled its sequence of the *)
(* memory is exactly its prompt and what it generated, whatever was        *)
(* loaded, trimmed, cancelled or failed before - unless a rerank cleared   *)
(* the memory under it.                                                    *)
OwnMemory ==
  \A s \in Slots : Sampling(s) /\ ~disturbed[s] =>
    mem[s] = Placed(slot[s].cache_tokens, Len(slot[s].cache_tokens))

(* llama_decode is never given positions it must refuse - which would fail *)
(* the requests of all slots - by a model that can drop a part of its      *)
(* state, or by one that loaded none; prompts with images that did not     *)
(* start at position 0 and slots a rerank disturbed are the exceptions.    *)
PositionsFollow ==
  pc = "decode" =>
    \A s \in Slots :
      ~disturbed[s] /\ ~slot[s].media /\ (recurrent => ~slot[s].load) => Follows(mem[s], batch[s])

(* A state file can be used: the tokens it names are what its memory holds *)
(* at their positions, and the memory of a model that can drop a part of   *)
(* its state holds all of them.                                            *)
FileMatches ==
  ~file.tainted =>
    \A i \in DOMAIN file.toks :
      IF i - 1 \in DOMAIN file.mem THEN file.mem[i - 1] = file.toks[i] ELSE recurrent

(* "Save recurrent prompt checkpoints after decode (or if no decode        *)
(* needed)" (rn-slot-manager.cpp update_slots): the tokens a state file    *)
(* names were decoded before it was written.                               *)
SavedAfterDecode ==
  ~recurrent => \A i \in DOMAIN file.toks : i - 1 \in DOMAIN file.mem

(* "The saved token count must match the recurrent state position exactly" *)
(* (rn-slot.cpp save_state).                                               *)
RecurrentExact ==
  recurrent /\ ~file.tainted => DOMAIN file.mem = 0 .. Len(file.toks) - 1

(* "Set i_batch to -1 to indicate logits from media processing are ready   *)
(* to sample" (rn-slot-manager.cpp build_batch): they are still those.     *)
OwnLogits ==
  \A s \in Slots : Sampling(s) /\ slot[s].task = "completion" /\ slot[s].i_batch = -1 => logits = s

(* "Skip LLAMA_TOKEN_NULL - these are media placeholders already in KV     *)
(* cache" (rn-slot-manager.cpp build_batch): what is skipped is there.     *)
SkippedIsInMemory ==
  pc = "decode" =>
    \A s \in Slots : slot[s].state \in Busy =>
      \A p \in 0 .. slot[s].n_past - 1 :
        slot[s].cache_tokens[p + 1] = Null => p \in DOMAIN mem[s]
=============================================================================
