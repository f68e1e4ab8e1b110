# TLA+ verification of capacitor-llama

capacitor-llama runs language models inside Capacitor apps. llama.cpp is mirrored
under `src/cpp`; the plugin's own core is the `rn-*` files beside it and the bridges
that call them. This project models that core in TLA+, checks small instances with
TLC and proves the most important properties, for every value of the constants, with
TLAPS. Paths below are relative to the repository (`PROJECT.json` writes them with
the prefix `src/`).

## 1. Inventory

### Components

| Component | Source | State it keeps | Operations |
|---|---|---|---|
| Slot manager | `cpp/rn-slot-manager.*` | `slots`, `queue_requests`, `active_requests`, `batch`, `next_request_id`, `slots_mutex` | queue_request, queue_embedding_request, queue_rerank_request, cancel_request, update_slots (process_pending_queue, build_batch, process_batch, sample_and_callback, release_completed_slots) |
| Processing loop | `cpp/rn-slot-manager.cpp` 1176-1353 | `processing_thread`, `processing_active`, `slots_cv`, status subscribers | start/stop_processing_loop, get_status, notify_status_change, add/remove_status_subscriber |
| Slot | `cpp/rn-slot.*` | a request's progress: state, prompt, `n_past`, `cache_tokens`, generated tokens and text, state files | reset, load_prompt, load_state, save_state, save_prompt_state_checkpoint |
| Completion | `cpp/rn-completion.*` | `embd`, `n_past`, `n_remain`, `has_next_token`, `is_interrupted`, `incomplete`, and sequence 0 of the llama memory | rewind, beginCompletion, loadPrompt, truncatePrompt, nextToken, doCompletion, embedding, rerank, bench |
| Context lifecycle | `cpp/rn-llama.*` | model, context, adapters, threadpools, slot manager, parallel mode | loadModel, applyLoraAdapters, attachThreadpools, enable/disableParallelMode, clearCache |
| JNI bridge | `android/src/main/jni.cpp` | `context_map`, `jni_callback_map` | doCompletion and its loop, stopCompletion, save/loadSession, embedding, rerank, queued requests, freeContext |
| Android plugin | `android/.../CapacitorLlama.java`, `LlamaContext.java` | contexts by id | initContext, completion, stop, release, each on a thread of its own |
| iOS plugin | `ios/.../CAPLlama.mm`, `LlamaContext.mm` | contexts by id, a dispatch queue | the same |
| JavaScript interface | `src/LlamaContext.ts`, `src/definitions.ts` | `contextCounter`, listeners | LlamaContext.from, completion, stop, release |
| Web, Electron | `src/web.ts`, `electron/src/index.ts` | contexts, abort functions and listeners by id | completion, stop, release, addListener |
| Multimodal, speech | `cpp/rn-mtmd.hpp`, `cpp/rn-tts.*` | bitmap hashes, guide tokens | called from the completion and the slots |

### How they interact

The app calls `LlamaContext.ts`, which forwards to the platform's plugin. On Android
and iOS a *completion* runs in a loop of the bridge (`jni.cpp` 1525-1614,
`LlamaContext.mm` 762-840) that calls `doCompletion` of the context's only completion
object until `has_next_token` is false; *stop* sets `is_interrupted` from another
thread. embedding, rerank, bench, clearCache and the session calls use the same `embd`
and the same memory.

Which context a call reaches is decided by an id. `LlamaContext.ts` sends
`contextCounter` with a load and gives the object it makes the value the counter has
when the load is answered; the platforms store the context under the id they were
sent. Android runs every call as a task on a cached thread pool; iOS runs calls one
after the other on Capacitor's queue and completions on `llamaDQueue`; the browser
and Electron have one thread that interleaves calls at their awaits.

With *parallel mode* on, callers append requests to the slot manager's queue and a
processing thread serves up to `n_parallel` of them in one batch, calling back for
every token and once at the end. Parallel mode is reachable from the native
interfaces (the JNI functions and `LlamaContext.mm`); the JavaScript interface of this
commit only offers the one-at-a-time completion.

### What is hard

* Requests in the slot manager end in many ways (end of generation, limit, stop word,
  cancellation, failed decode, load or media), each on its own path; the mutex is
  released during the decode and not taken by `cancel_request`.
* The processing thread sleeps on a condition variable that is notified outside its
  mutex, and is stopped and joined by another thread.
* `embd` and the llama memory are separate records of the same thing. Calls change
  one or both; a stop, a failure or a limit leaves them at any point; the next call
  builds on what is left.
* Integers: `n_past` may become -1, `n_remain` is a `size_t`, `n_predict` -1 means no
  limit.
* Slots trust their own counters: nothing but the order of the statements keeps
  `cache_tokens`, `n_past` and the sequence of a slot together when slots are reused,
  state files loaded or written, requests cancelled and decodes refused.
* Contexts are created, used and released by id from several threads, and what is
  kept under an id (context, abort controller, listener) may belong to another call
  after an await.

`PROJECT.json` lists every hazard with its line and the properties that cover it.

### What makes each component correct

* *Slot manager*: a request is in one place, answered at most once, in order, can be
  cancelled while it is in a slot, and leaves it in the end; what one request leaves
  in a slot does not reach the next; the batch does not overflow; prompt checkpoints
  are saved.
* *Processing loop*: no request is slept on, stop returns and leaves no thread,
  subscribers know the present status.
* *Completion*: the memory holds what the tokens say, the sampler reads logits of its
  own call, the context is not exceeded, a call ends, stops when told and honours its
  limit; what one call leaves does not change the next.
* *Slot*: a token is computed from the request's own tokens and all of them; a batch
  has only positions the memory accepts; a state file holds what it names.
* *Context lifecycle, bridges and backends*: no call uses a context that was freed,
  every loaded context can be released, a stop reaches the completion it was meant
  for, every call is answered, and what a call takes (listener, sequence) comes back.

## 2. Modules

| Module | What it is |
|---|---|
| `SlotManager` | The slot manager and its slots: one action per step of `update_slots` and per public function. |
| `SlotManagerMC` | Request shapes and instances for TLC. |
| `RequestService` | What the slot manager promises, without slots, batches or threads. |
| `SlotManagerRefinement` | The mapping under which `SlotManager` implements `RequestService`. |
| `SlotManagerProofs` | Its types, its safety properties by inductive invariants, and that it implements `RequestService`. |
| `ProcessingLoop` | The worker thread, callers and owner around the slot manager: mutex, condition variable, flag, status. |
| `ProcessingLoopProofs` | Its types and safety properties. |
| `Completion` | One-at-a-time decoding and the calls that share its tokens and memory. |
| `CompletionMC` | Vocabularies, prompts and limits for TLC. |
| `CompletionProofs` | Its types and safety properties. |
| `StopStrings` | The text of a completion: what is shown, held back and cut off. |
| `StopStringsMC` | Tokens and stop words for TLC. |
| `StopStringsProofs` | Its properties, for every alphabet, vocabulary and list of stop words. |
| `SlotCache` | The memory, the tokens and the state files of the slots. |
| `SlotCacheMC` | Request shapes for TLC. |
| `SlotCacheProofs` | Memory, tokens and files agree, for all texts and requests. |
| `JsInterface` | `LlamaContext.ts`: calls, ids and objects. The two modules below extend it. |
| `NativePlugin` | The plugin on Android and on iOS: threads, queues, contexts by id. |
| `ScriptPlugin` | The plugin in a browser and on Electron: contexts, controllers, listeners, sequences. |
| `ScriptPluginMC` | Kinds of completions for TLC. |
| `JsInterfaceProofs` | What calls, objects and the counter keep, whatever the plugin does in between. |
| `NativePluginProofs` | Types of both native plugins, an invariant of each, and what they promise. |
| `ScriptPluginProofs` | Types and safety properties of the plugin in JavaScript. |

### SlotManager

`slot` is the vector of slots (the fields the control flow reads), `queue_requests`
and `active_requests` are the code's, `pc` is the place of the processing thread in
`update_slots` and `scan` the slot its present loop looks at. A pass over the slots is
one action per slot where callbacks or failures can happen (loading, media, sampling,
release) and one action for all where it is a plain update under the mutex
(`BuildGenerating`, `SaveCheckpoints`). Queueing only appends under the mutex and
commutes with the sections that do not read the queue. `cancel_request` takes no
mutex and is three steps: it finds the slot (`CancelLookup`), writes `is_interrupted`
(`CancelInterrupt`), then writes the state and erases the entry (`CancelDone`). They fall
anywhere except inside a single action of the processing thread: races on the
containers themselves are below the model. Between the two writes the processing
thread may end the interrupted request and give the slot to another, whose state the
second write then takes.

A request is a *shape*: its task, whether it has state files, a checkpoint or media,
the length of its prompt in tokens, its documents and its limit. Token values, texts and
stop words are abstracted: sampling may end generation or not. `text` records whose
tokens the generated text of a slot holds, and is what the properties about mixed
output read. `processMedia` may fail after it counted a part of the prompt in `n_past`
(`MediaFailed`), so that a pending checkpoint falls due in a slot that is done.

Two branches of the code are left out because no state reaches them. The 'Invalid
batch position' of `sample_and_callback` (855-858) asks for a generating slot whose
`i_batch` is not below the tokens of the batch: a slot that is sampled has put a token in this
very batch (it had a token to go on from, or its prompt came to its end in this
round), or has `i_batch` -1, which the code accepts; and a failed decode leaves no slot
generating. The `context_full` branch after `processMedia` (651) is dead: the function
throws when it sets the flag (rn-mtmd.hpp 403-406).

### ProcessingLoop

Requests are counted. Critical sections are one action, except that the worker keeps
`slots_mutex` from its test of `has_work` until it blocks: between the two
`SlotsFree` is false and callers cannot push, but `stop_processing_loop`, which does
not take the mutex, can notify. Spurious wake-ups are an action without fairness.
Start and stop come from one owner thread; `subscribed`, `seen` and `told` model the
status snapshot taken by `get_status` and its delivery outside the lock.

### Completion

`embd` is the code's record of what was evaluated, `kv` what sequence 0 of the llama
memory holds. `pc` follows the bridge's loop ("loop"), `nextToken` ("next", "decode",
"sample") and the end of embedding and rerank ("close"). `Stop` may fall between any
two steps. The text is abstracted to how it ends (`ending`), which is what the UTF-8
scan of `doCompletion` reads; a token's text ends in a one-byte character, a whole
longer one, the first part of one, or the rest of one. `FailCompletion` is a completion
that is refused for its parameters: rewound and given an error. The history variables `fresh`,
`logits`, `late`, `budget` and `split` record what the properties speak about and no step
reads them. A model whose memory cannot drop a part of its state (recurrent, hybrid)
is `PartialRemoval = FALSE`.

Left out of this module: encoder-decoder models, media, speech guide tokens, the
texts of the tokens (`StopStrings`), and session files that fail after part of the memory was overwritten. A call takes
the context alone; on Android nothing enforces that, and `NativePlugin` has the calls
that overlap.

### StopStrings

The other half of a completion: the text, as the loop of the bridge sees it after each
token. A token is its text, a sequence of bytes; `Width` says of a byte whether it is
inside a character or how long the one is that it begins, which is all the UTF-8 scan
reads. One iteration of the loop is one action, since only its test reads what another
thread writes: `NoToken` and `Skip` are its `continue`, `CutOff` a full stop word,
`Show` and `Hold` the text that is sent or held back. `raw` and `shown` are the
reference: the texts of all tokens, and what the application was given. `unseen` says
that a stop word was complete when the loop skipped a token (findings below). Memory,
failures and limits are `Completion`'s: here any iteration may give no token, and
`n_remain` has no width. The chat parser, which reads the same text, and the
probabilities are left out.

### SlotCache

The second view of the slot manager, at the level of tokens. `mem[s]` is sequence `s` of
the llama memory, a function from positions to tokens; `slot` has the fields of
`llama_rn_slot` that decide what is decoded and written; `file` is the state file,
tokens and memory. The steps are those of `update_slots` again, with the queue
reduced to "a request comes when the processing thread looks", the choice of the slot
to the least recently used one, and limits, stop words and the end of the text to "any
token may be the last". `recurrent` is chosen in `Init`: a model whose memory
refuses to drop a part of a sequence (recurrent, hybrid), or not. `llama_decode`
accepts a batch exactly when its positions follow those in the memory (`Follows`), and
may fail anyway. `disturbed` records, for the properties, that a slot's counters
and its sequence were driven apart by one of three things the code does: a rerank that
clears the memory of all slots, a failed decode, an embedding or rerank that takes an
unreset slot's tokens for loaded ones. A prompt with images that fails leaves the sequence
with more of it than `n_past` counts (the chunk that failed may be half evaluated); a
load that fails leaves tokens and sequence (OpenCL), takes the tokens, or takes both.

Left out: several state files, seldom used fields of the request, `n_batch` halved
after a failed decode, and a decode that fails after a part of the batch (`n_ubatch`).

### JsInterface, NativePlugin, ScriptPlugin

`calls` is the sequence of the calls the application has made, each a record with its
operation, the id it was sent with, the place in its handler (`pc`), the context it found,
and the earlier calls that were unanswered when it was sent (`during`). A load's
number names the context it makes; `own` says which context the load of each object
made. The application may send any call at any time, on any object it has.

In `NativePlugin`, `platform` is chosen in `Init`. On Android each handler is cut
where another thread can come between: the lookup in the map, the load, the put; the
rewind and the loop of a completion; the stop, the free and the removal of a release. The
iterator of `releaseAllContexts` is modelled with its fail-fast check
(`modified`). On iOS `Turn` is the bridge's serial queue; completions wait in `llamaDQueue`,
whose head runs; a release waits at the barrier until it is empty. `alive` are the
contexts not yet deleted; a call that uses another one is recorded in `fault`, and may end
the application. An Objective-C exception that leaves a method other than
`initContext`, or a block, ends it (`Uncaught`).

In `ScriptPlugin` a step is what runs between two awaits. `controllers` is the
completion whose abort flag or signal is stored under an id, `listeners` the token
listeners, `sequences` how many of its sequences a node-llama-cpp context has given
out. A load may fail before its context is stored and, in the browser, once it is
(`FailStored`: `web.ts` stores at 36 and reads the model's data at 66-71); `stranded` are the
loads that did. A `dispose` that rejects on Electron (`Disposed`) leaves what is kept
under the id; the context counts as not alive from the call of `dispose` on.

Left out: races inside the containers (`HashMap`, `std::unordered_map`), an address
that a later load uses again, the limit on the number of contexts, tokens that arrive after the
end of a web completion because `detokenize` was awaited, and of the completion
itself all that `Completion` has.

## 3. Runs

All constants not named are in the configuration files. `CHECK_DEADLOCK FALSE` is said
where the bounded number of requests or calls has been served and every thread
idles.

| Run | Shows | Bounds |
|---|---|---|
| `safety` | No request is answered twice, is in two places, escapes cancellation or misses its checkpoint; a batch overflows only by media; every step is one of `RequestService` | 2 slots on a batch of 1, 3 requests of 3 shapes (state files without a limit, a rerank, media with a limit of 2), prompts of 1 and 2 tokens, a cancelling thread, failing loads, media and decodes; 2.4 million states |
| `leaves` | Every request leaves the queue and its slot; every completion that nobody cancels is answered | 2 requests of any of 7 shapes, a cancelling thread, failures, fairness; 0.2 million states |
| `loop` | No request is slept on, no thread outlives stop, waiting requests are taken while the loop runs | 2 callers, 2 requests, 1 slot, 2 starts, fairness |
| `calls` | Memory and tokens agree, the context is not exceeded, logits come first, a stop is taken | 3 calls of all 7 kinds, window of 5, batch of 2, a prompt longer than the window, shifts; 1.6 million states |
| `ends` | Calls end and limits hold, also when the memory cannot drop a part, with the exceptions of unfinished characters | 3 calls, no shift, a prompt too long for the window, characters split over tokens, limits -1 to 2 or none given, fairness; 77 thousand states |
| `contents` | A slot is sampled from its own tokens and all of them, batches follow the memory, state files hold what they name | 2 slots, batch of 2, window of 3, 3 requests of 7 shapes (loads and saves of all sizes, checkpoints, images, embedding, rerank), both kinds of memory, cancellation, failures; 3.3 million states |
| `stops` | Shown text stays; the text ends at the first stop word, however it is spread over the tokens | 5 tokens out of 7 of one to three bytes, one of them a part of a character; no, one or two stop words that overlap, begin alike or hold a character; limit 3 or none; 0.2 million states |
| `native` | No deleted context is used without an overlapping release, contexts stay reachable, refusals have a reason, calls are answered | 4 calls of 6 operations, Android and iOS, fairness |
| `scripts` | Stops reach their completion, listeners and sequences come back, contexts stay reachable, aborted completions end | 4 calls of 6 operations and 4 kinds of completion, browser and Electron, 1 sequence, loads that fail before and after the store, disposals that reject, fairness; 1.0 million states |

Why the bounds are enough: two slots and three requests are needed for a slot to be
used again while another works, and for a request to be assigned where a cancelled
or failed one was (runs with every shape and a cancelling thread have two requests, which
is enough for one to follow the other in a slot); a batch of one is less than the slots, so a prompt waits while the other slot's
token fills the batch, and one of two tokens takes two rounds, with its checkpoint
before the last; run `leaves` has prompts of three tokens, reranks of two documents and a
batch of three, in which a checkpoint falls inside and at the end, and which a failed
decode halves; two callers give two notifying threads. In `Completion`, three calls are one that leaves
something behind, one that builds on it and one that saves, loads or clears between
them; a window of five with one kept token and batches of two is the smallest in which
a prompt is truncated, a shift drops part of the window and a prompt takes two
batches. In `SlotCache`, three requests are one that fills
a slot or writes a file, one that disturbs or reloads it and one that works beside
it; a batch of two splits prompts of up to three tokens, and a window of three lets a
completion generate one token and end in each way. In `StopStrings` five tokens
complete a stop word of three bytes with tokens before and after it, and a token of
three bytes holds the end of one stop word and all of another. In `NativePlugin` and
`ScriptPlugin` four calls are a load or two, a use and a release, in every overlap; two objects
are the fewest for an id to be mixed up. What holds beyond the bounds is what section
5 proves.

### Disagreements between the code and what it says

Each is a run that TLC must find violated; `PROJECT.json` "findings" has the lines.

| Run | What happens |
|---|---|
| `no_cleanup` | A cancelled slot is assigned again before its cleanup; the next request starts with the cancelled one's text. |
| `lost_stop` | The notification of stop falls between the worker's test and its wait; join never returns. |
| `stale_prefix` | A token that was sampled and never decoded counts as evaluated in the next call. The trace: prompt `x x` is decoded, `y` is sampled, the limit of one token ends the call; the next prompt `x x y x` finds three tokens in `embd` and reuses them, the memory holds two. No call is stopped in this run (`UnstoppedSpec`); a stop before the first decode leaves a whole prompt in `embd` in the same way. |

Other behaviours of the models that surprise, and that no run is spent on (those with a
name are stated in the modules, and TLC finds them violated):

* `ProcessingLoop!StatusIsCurrent`: subscribers are not told of the end of a request
  after the early returns of `update_slots` (rn-slot-manager.cpp 1074, 1099), or are
  told in the wrong order by two notifying threads.
* `Completion!EmbeddingSeesPrompt`: embedding clears the memory and not the tokens, so
  embedding the same text again sees only its last token (rn-completion.cpp 487).
* A completion whose text ends inside a character is told to go on (rn-completion.cpp 436)
  whatever ended it. With a full context, with decodes that go on failing, or with a
  model that gives the end-of-sequence token again and again, nothing then ends it but a
  stop: the exception of `Completion!CallEnds`.
* Each of these prolongations adds one to `n_remain`, and `incomplete` stays set when a
  one-byte character follows an unfinished one (432), so such a completion runs past
  `n_predict`, and by more than the "slightly" of the code's comment: the exception of
  `Completion!LimitHonoured`.
* In the browser a load that fails when its context is stored already (web.ts 66-71) leaves
  it alive with no object, and `contextCounter` as it was: the next load is sent the same
  id and replaces it, after which not even `releaseAllContexts` finds it. It is the
  second exception of `ScriptPlugin!OwnContext`, beside loads that overlap.
* On Electron a `dispose` that rejects leaves the disposed context and its controller
  under the id (electron/src/index.ts 221).
* `llama_batch_add` has no bound, and nothing relates `n_parallel` to `n_batch`
  (rn-llama.cpp 494, rn-slot-manager.cpp 40). A prompt of text ends in a batch that has room for it,
  so text never makes more slots generate than the batch has entries. Media is
  evaluated outside the batch: with fewer entries than slots, the requests with media
  add tokens beyond them (603). `BatchWithinCapacity` names that exception and its size.
* A rerank clears the memory of all slots (548), an embedding or rerank in a slot that was not
  reset inherits its state files (527): the slots computed wrongly are `disturbed` in
  `SlotCache`, and its properties do not speak of them.
* `SlotCache!SavedAfterDecode`: a failed decode (rn-slot-manager.cpp 1099) leaves a slot
  done with its checkpoint pending and an `n_past` that counts the failed batch; the
  next round with an active slot (1135) writes a state file that names tokens the memory does not
  hold.
* `StopStrings!RestIsShown`: "Send rest of the text if we are at the end of the
  generation" (jni.cpp 1552) is done only when the last token is looked at and the
  rest does not begin with what was held back: text held back at the end of generation, the
  text before a stop word, and a rest that as a whole may begin a stop word are
  never sent, only returned.
* `StopStrings!NoStopWordShown`: a stop word whose last byte comes in one token with the
  beginning of a character is not looked at (jni.cpp 1527), and the search after the next token
  begins behind it (rn-completion.cpp 371): the completion goes on and the word is shown.
* `SlotCache!RecurrentExact`: a recurrent model's state file names one token more than
  its memory holds when the completion ended by a limit or a stop word (rn-slot.cpp
  628 says they must match); a later load's decode is refused, which fails every
  active request. So does a prompt that is wholly in a recurrent state: its last
  position cannot be dropped.
* `SlotCache!OwnLogits`: after media a slot samples with batch index -1, the last row of
  logits, which in the same round may be another slot's (rn-slot-manager.cpp 690).
* `SlotCache!SkippedIsInMemory`: a media request that shares a prefix with a loaded
  state skips image places that are not in the memory (719).
* `slot->params` points into a queue entry that is popped at once and is read when
  tokens are sampled (467, 585, 891): undefined behaviour, not modelled.
* Two loads under way on Android lose one context and shift the ids of the objects
  (LlamaContext.ts 22, 30); in a browser and on Electron the second replaces the first;
  on iOS the second is refused.
* A stop that comes before the rewind of its completion is lost (rn-completion.cpp 31).
* On iOS a release waits for the completions of all contexts and keeps the bridge's
  queue waiting with it (CAPLlama.mm 291).
* A `releaseAllContexts` on Android with a load or a release beside it may never be
  answered, and leaves freed contexts in the map (CapacitorLlama.java 511).

* After a failed decode the slots are done but not released, so their entries in
  `active_requests` lead to the next request (rn-slot-manager.cpp 1099); the next
  request in a slot whose load failed carries its error (485).
* `cancel_request` may interrupt the request that took the slot between its two steps
  (357-363): `Tracked` and `CancelledIsInterrupted` say what does hold of a
  cancellation.
* An empty prompt makes `n_past` -1 and the sampler reads logits nobody computed
  (rn-completion.cpp 141): theorem `LogitsComeFirst` excludes it by `TextGiven`.
* `n_predict` 0 yields the text of the end-of-sequence token (309), and a completion
  without `n_predict` takes that of an earlier call, or the 0 of an embedding
  (jni.cpp 1441).

## 4. Fairness

* `SlotManager`: weak fairness of the processing thread (it runs while there is work;
  whether it sleeps on work is `ProcessingLoop`'s question) and of a
  `cancel_request` that has begun. None on callers.
* `ProcessingLoop`: weak fairness of the worker, of a caller that has begun and of a stop
  that has begun; none on spurious wake-ups, new calls or stops. Strong fairness of
  rounds that end a slot's service: the abstraction counts active slots only, and that
  service ends is what run `leaves` shows of `SlotManager`.
* `Completion`: weak fairness of the thread that runs a call. None on stop or new
  calls. `llama_decode` is taken to return.
* `NativePlugin`: weak fairness of every call that was sent: its task or block runs, and the loop
  of a completion looks at `is_interrupted` after each token. None on new calls and
  none on a completion that ends by itself; so `EveryCallReturns` is stated for runs in
  which no completion stays unstopped for ever.
* `ScriptPlugin`: weak fairness of every call that was sent, and of the end of a
  completion once it is aborted (the libraries look at the signal at each token). None on
  other completions.

## 5. Proofs

The proofs hold for every number of slots, requests, threads and tokens, every
context and batch size and every set of prompts or shapes that the named assumptions
(`ConstantsAssumption`, `LoopAssumption`, `CompletionAssumption`, `MaxCallsAssumption`,
`PlatformsAssumption`, `ScriptAssumption`, `StopStringsAssumption`) admit.

* `SlotManagerProofs!TypeCorrect`: types.
* `SlotManagerProofs`, safety: inductive invariants, one on top of the other.
  *Placement* says where an unanswered request can be: in one queue entry or in one
  slot; it is needed because `AnsweredAtMostOnce` alone says nothing of a slot that
  still holds an answered request. It gives `AnsweredOnce` and `InOnePlace`.
  *Tracking* adds that a request that waits is unknown to `active_requests`, to
  cancelled requests and to cancellations under way, so that an entry, where there is
  one, is right; *Halfway* says that a cancellation between its two writes has a slot and has its
  request counted as cancelled. They give `Cancellable` and `CancelTakesEffect`. *Prefill* says that
  a slot that generates has its prompt in and that its checkpoint is not beyond the prompt; it
  gives `CheckpointSaved`. *Batching* counts: the slots that generate and had no media are at
  most as many as the batch has entries, because while prompts are filled in each of them has
  an entry in the present batch, the one whose prompt ends in it included: it had tokens left
  (`PromptLeft`), and room. It gives `BatchFits`, which assumes nothing of `n_parallel` and
  `n_batch`.
* `SlotManagerProofs!ImplementsService`: every step of `SlotManager` is one of
  `RequestService` or a stutter, under the mapping of `SlotManagerRefinement`. Placement
  is what makes it true: when a slot ends its request, no other slot and no queue entry holds
  it, so `running` loses exactly that request; when the head of the queue is assigned,
  the slot is free, so `running` has room for one more.
* `SlotManagerProofs`, what becomes of a request: the service may drop what it runs and
  withdraw what waits at any time; `DropsForAReason` says when the slot manager does.
  One invariant beside Placement is needed (`Marked`): a slot whose busy state
  vanishes under the hands of the processing thread was struck by a cancellation, as only `cancel_request`
  writes to a slot at that time; the cancellation may be that of an earlier request of the slot
  (`Struck`). `OwedUntilAnswered` follows for a completion nobody
  cancels. `OutputIsOwn` delimits the finding of `no_cleanup`: with no cancellation, no
  failing decode and no failing load (`QuietService`) every request reports its own output,
  because a slot then leaves the busy states only on the way to its release.
* `ProcessingLoopProofs`: `LoopTypes`; `NoRequestLost`, by the invariant that the
  worker blocks only on a queue the mutex has kept empty since the test;
  `StoppedIsJoined`; `StopIsLostInOneWindow`, that the finding of `lost_stop` is the only way
  to lose a stop: were it impossible to notify in that moment (`NotifiesInTime`, an
  assumption about the behaviour that the code does not enforce), the worker that join waits for would be
  at most seven steps from its end and never asleep.
* `CompletionProofs`: `CompletionTypes` and `ContextNotExceeded`, by an invariant that
  bounds tokens, memory and `n_past` together and rests on lemmas about
  `truncatePrompt`, the common prefix and the shift; `StopIsTaken`; `LogitsComeFirst`;
  `MemoryFollows`, that batches, interruptions and shifts keep the memory equal to
  the evaluated tokens; `LimitIsHonoured`, when a limit fits `size_t` (`LimitFits`); calls that sampled a part of a
  character are the exception the property itself states. All but `StopIsTaken` and `LimitIsHonoured` assume that prompts are not empty
  (`TextGiven`: section 3 says what happens otherwise) and that a context that shifts can drop
  a part of its memory (`ShiftWorks`: the code ignores that
  `llama_memory_seq_rm` refuses). `LogitsComeFirst` also assumes that a reranked
  document fits the window (`RerankFits`: rerank does not look at `context_full`).
  `CallAdvances` gives a running call a number of steps it has left, bounded in each of
  its states, which every step makes smaller, the stop and the failed decode included, until
  it samples a part of a character. `PooledFromWholeText`
  and `RerankSeesDocument` say exactly how far `EmbeddingSeesPrompt` (section 3) fails:
  only an embedding, and only when the prefix that `loadPrompt` reused was cleared from the memory.
  They assume that `llama_decode` does not fail, as `embedding` does not hear of it.

* `SlotCacheProofs`: `TypeCorrect`, `SampledFromOwnPrompt`, `DecodedInOrder`,
  `StateFilesMatch`. The invariant follows each slot through a round (`Stage`): its prompt
  waits for the batch, was there, is to be sampled, or its last token is in no batch yet.
  `Held` says how far the memory of an undisturbed slot agrees with its tokens: it
  is a beginning of them, short at most of an image that was skipped, and for a
  recurrent model that loaded a file perhaps longer than what the slot reuses. `Coming`
  says the same of memory and batch together; `Covered` is the slot whose images failed on the way,
  with more in its memory than it counts, from which a checkpoint may still be saved. What the proof turns on is `AcceptedKept`: a
  batch that `llama_decode` accepts can only close the gap, so what is wrong before the
  decode makes it fail and never reaches the sampler. Three assumptions about requests
  are named in the module. `EndInText`: a prompt ends in a text token, else nothing asks
  for logits. `ImagesMarked`: only completions that say so have images, as the code
  fills the place of images only when it tokenizes media. `WholeStateForText`: a recurrent
  model loads no state for a prompt with images. The last is needed: let a recurrent
  model save the checkpoint of `a <image> b`; the file names the token before the image,
  its memory goes beyond it. A prompt `a <image> <image> b` that loads it shares `a`, the memory
  refuses to be cut (rn-slot.cpp does not look), the images are skipped as present and
  `b` follows the last position: the slot samples with `a <image> b b` in its memory. TLC
  finds it in an instance with these two requests; those of run `contents` load a state
  for images only where this does not come about.
  `RequestsKeepApart` names requests that cannot disturb each other (`PeacefulRequests`)
  and drops every exception for them: no request then fails or is computed wrongly
  because of another.

* `StopStringsProofs`: `TypeCorrect`; `ShownStays`; `TextEndsAtStop`, by the invariant
  `BegunIsHeld`: while the completion goes on, no beginning of a stop word at the end of the
  text starts in what was shown. With it every stop word that a token completes
  lies in the text not shown, and behind the place where the search begins;
  without it the property is not inductive. `HeldBackForAReason` is the other side: nothing
  else is held back. `StopWordsAreNotShown` and `WholeTokensShowNone` say when
  `NoStopWordShown` (section 3) does hold: until a stop word ends in a token that is not
  looked at, hence always where tokens end between characters (`WholeTokens`).
* `JsInterfaceProofs` has no theorem of a specification of its own: its lemmas say what
  sending, moving on and answering a call keep, for any plugin. The calls under way at
  the same time are among each other's `during`; there are no more objects than loads
  answered, so the counter stays within its bound; a load that met no other one is
  answered with the counter it was sent with. The other modules build on it.
* `NativePluginProofs`: types (`TypeCorrect`), which need the queue invariant that an entry
  of `llamaDQueue` is an unfinished completion, once; and `RefusalsHaveAReason`, by an
  invariant of iOS: the calls take their turns in order, so a later load never has the id of
  an earlier release; a context in the map was stored by its load and is alive; behind
  the barrier the queue is empty. From it follows what iOS promises of its contexts:
  `FreedIsNotUsed`, `ContextsAreReachable`, `ObjectsKeepTheirContext`, which the
  module states for both platforms. The invariant of Android says where
  a call can be, that what it found was an entry of the map, that an entry that is
  deleted and not yet removed is that of a release under way, and that a call which holds
  a deleted context met a release. `ReachInv` follows the iterator of a
  `releaseAllContexts`: it passes only over contexts it has stopped and freed, except
  those whose load met it or another load; without it `HeldByMap` is not
  inductive. `LostForAReason` says which promises may stay pending for ever, `CallsMoveOn`
  that each step takes one call nearer to its end (`Left`, at most three steps for every
  context a `releaseAllContexts` has not come to), `NobodyWaitsInACircle` that some call can
  always go on. `Ready` stands there for "can take a step", which the prover
  cannot express; TLC agrees on the instance of run `native`.
* `ScriptPluginProofs`: one invariant per table under an id. `ControlInv`: a running
  completion has its controller or another call took it, and a release awaits only its own
  id. `ListenInv`: each listener is there *once*, which is why `remove` leaves
  none of its own behind and takes no other's. `SequenceInv`: on Electron the count of
  a context is the number of the completions that hold a sequence, under way or failed; a bound
  on the count alone is not inductive. `OwnedInv`: every context was stored under its
  load's id, no live one has an id whose disposal is awaited, and one that failed once stored is
  under its id until a later load with that id has stored its own; its proof rests
  on the counter's lemma. They give the module's first five theorems. `CallsMoveOn`
  counts a call's own steps and, for a release, the ids whose disposal it still awaits.

Only model-checked: liveness, which is out of the prover's reach. Of five of the seven
properties the part that is safety is proved: `CallAdvances` for `CallEnds`,
`OwedUntilAnswered` for `EveryRequestAnswered`, `CallsMoveOn` and `NobodyWaitsInACircle` for
`EveryCallReturns`, `CallsMoveOn` for `AbortedEnds`, and `StopIsLostInOneWindow` for
`StopReturns`, whose violation is a finding. What TLC alone shows of them is
that the fairness of section 4 makes these steps happen. Of `EveryRequestLeaves` and
`RequestsTaken` no safety part is proved that bounds the steps: a round may pass over a slot when the
batch is full, a rerank goes back to its prompt and callers add requests, so a measure would
have to cover the queue, all slots and the place in the round at once.

## 6. Plan

Done, in this order: `SlotManager` with its abstract service and proofs,
`ProcessingLoop`, `Completion`; `SlotCache`; `JsInterface` with `NativePlugin` and
`ScriptPlugin`, and their proofs; the refinement of the slot manager; `StopStrings`; the
proofs of `SlotCache`; the safety parts of the liveness properties, and theorems that
delimit the findings.
Left, most important first:

1. `JniCallbacks`: the global callback map, registration after queueing (jni.cpp 2722),
   and the callbacks of the processing thread.
2. `ContextLifetime`: parallel mode (disabled while another thread queues a request,
   rn-llama.cpp 554), adapters that change under a filled memory (397) and threadpools.
   No method of the application reaches these or the queued requests in this commit.

Not planned: the mirrored llama.cpp and ggml (modelled as external, from how
the code uses them), chat templates and parsing, text to speech, image and audio
preprocessing, the example app and build files. They keep no state of the protocols
modelled here or are pure data.
