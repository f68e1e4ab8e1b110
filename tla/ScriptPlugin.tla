---------------------------- MODULE ScriptPlugin ----------------------------
(***************************************************************************)
(* The plugin in JavaScript: in a browser over Wllama (src/web.ts) and on  *)
(* the desktop over node-llama-cpp (electron/src/index.ts), both libraries *)
(* external.  One thread; a step here is what runs between two awaits.     *)
(* What can go wrong is what is kept under a context's id between them:    *)
(* the context, the controller that aborts its completion, the listeners   *)
(* of the tokens.                                                          *)
(***************************************************************************)
EXTENDS JsInterface, SequencesExt

CONSTANTS
  Platforms,    \* the platforms looked at
  NSequences,   \* sequences of a node-llama-cpp context (external, 1 if not asked for)
  Kinds         \* the completions the application asks for

ASSUME ScriptAssumption ==
  /\ Platforms \subseteq {"web", "electron"}
  /\ NSequences \in Nat \ {0}
  /\ Kinds \subseteq Kind

VARIABLES
  platform,
  contexts,     \* wllamas, contexts
  alive,        \* the contexts that are neither exited nor disposed
  controllers,  \* completionAbortControllers: the completion that the one under an id aborts
  aborted,      \* completions whose abort flag or signal is set
  listeners,    \* onTokenListeners, each known by its completion
  sequences,    \* electron: number of sequences of a context that are taken
  disposing,    \* electron: the ids whose disposal a release awaits
  cleared,      \* history: completions whose listener removeAllListeners took
  failed,       \* history: completions that threw while they had a sequence
  stranded      \* history: loads that failed after they had stored their context

lib  == <<platform, contexts, alive, controllers, aborted, listeners, sequences,
          disposing, cleared, failed, stranded>>
vars == <<jsVars, lib>>

Form(c)    == calls[c].kind.form
OnToken(c) == calls[c].kind.onToken

At(c, op, pc) == Op(c) = op /\ calls[c].pc = pc
Context(c) == calls[c].context
Found(c)   == contexts[calls[c].id]
Drop(f, ids) == [i \in Ids |-> IF i \in ids THEN NoContext ELSE f[i]]

Init ==
  /\ JsInit
  /\ platform \in Platforms
  /\ contexts = [i \in Ids |-> NoContext] /\ controllers = [i \in Ids |-> NoContext]
  /\ alive = {} /\ aborted = {} /\ listeners = <<>>
  /\ sequences = [h \in Calls |-> 0]
  /\ disposing = [c \in Calls |-> {}]
  /\ cleared = {} /\ failed = {} /\ stranded = {}

-----------------------------------------------------------------------------
(* Mutant: the last listener is removed.                                   *)
Without_Pop(c) == RemoveAt(listeners, Len(listeners))

(* Listeners, each there once.  remove looks for the listener and splices  *)
(* at its index; the index of one that is not there is -1, which splices   *)
(* the last one.                                                           *)
Without(c) ==
  RemoveAt(listeners, IF \E i \in DOMAIN listeners : listeners[i] = c
                      THEN CHOOSE i \in DOMAIN listeners : listeners[i] = c
                      ELSE Len(listeners))

(* LlamaContext.completion: the listener is awaited before the call.       *)
Listen(c) ==
  /\ At(c, "completion", "sent") /\ OnToken(c)
  /\ listeners' = Append(listeners, c)
  /\ SetPc(c, "calling")
  /\ UNCHANGED <<contexts, alive, controllers, aborted, sequences, disposing, cleared, failed, stranded>>

Called(c) == At(c, "completion", IF OnToken(c) THEN "calling" ELSE "sent")

(* The completion settles, and its finally removes the listener.           *)
Settle(c, h) ==
  /\ calls' = [calls EXCEPT ![c].pc = "done", ![c].context = h]
  /\ listeners' = IF OnToken(c) THEN Without(c) ELSE listeners
  /\ UNCHANGED <<contexts, alive, aborted, disposing, cleared, stranded>>

Run(c, pc, h) ==
  /\ calls' = [calls EXCEPT ![c].pc = pc, ![c].context = h]
  /\ UNCHANGED <<contexts, alive, aborted, listeners, disposing, cleared, failed, stranded>>

RemoveAllListeners ==
  /\ cleared' = cleared \cup {listeners[i] : i \in DOMAIN listeners}
  /\ listeners' = <<>>
  /\ UNCHANGED <<jsVars, platform, contexts, alive, controllers, aborted, sequences,
                 disposing, failed, stranded>>

-----------------------------------------------------------------------------
(* What both have in common.                                               *)

(* initContext: nothing is looked up before the context is stored; the     *)
(* model or the context may fail to load.                                  *)
StartLoad(c) ==
  /\ At(c, "initContext", "sent")
  /\ SetPc(c, "loading")
  /\ UNCHANGED lib

FinishLoad(c) ==
  /\ At(c, "initContext", "loading")
  /\ \/ SetPc(c, "done") /\ UNCHANGED <<contexts, alive>>
     \/ /\ SetPc(c, "loaded")
        /\ contexts' = [contexts EXCEPT ![calls[c].id] = c]
        /\ alive' = alive \cup {c}
  /\ UNCHANGED <<platform, controllers, aborted, listeners, sequences, disposing, cleared, failed, stranded>>

(* Web: what the answer says of the model is read, and awaited, once the   *)
(* context is stored.  When that fails nobody takes the context back.      *)
FailStored(c) ==
  /\ platform = "web"
  /\ At(c, "initContext", "loaded")
  /\ SetPc(c, "done")
  /\ stranded' = stranded \cup {c}
  /\ UNCHANGED <<platform, contexts, alive, controllers, aborted, listeners, sequences, disposing,
                 cleared, failed>>

StopCompletion(c) ==
  LET d == controllers[calls[c].id] IN
  /\ At(c, "stopCompletion", "sent")
  /\ aborted' = IF d = NoContext THEN aborted ELSE aborted \cup {d}
  /\ SetPc(c, "done")
  /\ UNCHANGED <<platform, contexts, alive, controllers, listeners, sequences, disposing,
                 cleared, failed, stranded>>

(* Read the context, or fail on undefined.                                 *)
Tokenize(c) ==
  /\ At(c, "tokenize", "sent")
  /\ SetPc(c, "done")
  /\ UNCHANGED lib

(* The keys of a release: of releaseAllContexts, all there are.            *)
Keys(c) == {i \in Ids : /\ contexts[i] # NoContext
                        /\ Op(c) = "releaseAllContexts" \/ i = calls[c].id}
Releasing(c) == \E op \in {"releaseContext", "releaseAllContexts"} : At(c, op, "sent")
Stored(ids) == {contexts[i] : i \in ids}

-----------------------------------------------------------------------------
(* Web.                                                                    *)

(* Mutant: a controller that is there is kept.                             *)
WebCompletion_KeepsController(c) ==
  LET h == Found(c) IN
  /\ Called(c)
  /\ controllers' = [controllers EXCEPT ![calls[c].id] = IF @ = NoContext THEN c ELSE @]
  /\ IF Form(c) = "none" \/ h = NoContext
     THEN Settle(c, h) /\ UNCHANGED failed
     ELSE Run(c, "running", h)
  /\ UNCHANGED sequences

(* completion up to its await; undefined has no createCompletion.          *)
WebCompletion(c) ==
  LET h == Found(c) IN
  /\ Called(c)
  /\ controllers' = [controllers EXCEPT ![calls[c].id] = c]
  /\ IF Form(c) = "none" \/ h = NoContext
     THEN Settle(c, h) /\ UNCHANGED failed
     ELSE Run(c, "running", h)
  /\ UNCHANGED sequences

(* createCompletion ended or failed; the finally block deletes the         *)
(* controller under the id, whosever it is.                                *)
WebEnd(c) ==
  /\ At(c, "completion", "running")
  /\ controllers' = [controllers EXCEPT ![calls[c].id] = NoContext]
  /\ Settle(c, Context(c))
  /\ UNCHANGED <<sequences, failed>>

(* Mutant: the context is forgotten, not exited.                           *)
WebRelease_NoExit(c) ==
  /\ Releasing(c)
  /\ contexts' = Drop(contexts, Keys(c))
  /\ controllers' = Drop(controllers, Keys(c))
  /\ SetPc(c, "done")
  /\ UNCHANGED <<alive, aborted, listeners, sequences, disposing, cleared, failed, stranded>>

WebRelease(c) ==
  /\ Releasing(c)
  /\ alive' = alive \ Stored(Keys(c))
  /\ contexts' = Drop(contexts, Keys(c))
  /\ controllers' = Drop(controllers, Keys(c))
  /\ SetPc(c, "done")
  /\ UNCHANGED <<aborted, listeners, sequences, disposing, cleared, failed, stranded>>

(* Mutant: nobody looks at the flag.                                       *)
WebStep_NoAbort(c) ==
  /\ platform = "web"
  /\ WebCompletion(c) \/ WebRelease(c)
  /\ UNCHANGED <<contextCounter, own, platform>>

WebStep(c) ==
  /\ platform = "web"
  /\ \/ WebCompletion(c) \/ WebRelease(c)
     \/ (WebEnd(c) /\ c \in aborted)    \* at the next token
  /\ UNCHANGED <<contextCounter, own, platform>>

-----------------------------------------------------------------------------
(* Electron.                                                               *)

(* Mutant: the sequence is disposed twice.                                 *)
Give_Twice(h) == sequences' = [sequences EXCEPT ![h] = @ - 2]

Take(h) == sequences' = [sequences EXCEPT ![h] = @ + 1]
Give(h) == sequences' = [sequences EXCEPT ![h] = @ - 1]

HasSequence(h) == h \in alive /\ sequences[h] < NSequences

(* completion, after the await of the import, to its next await:           *)
(* getSequence throws when there is no context, when it is disposed and    *)
(* when it has no sequence left; tokenize throws on an undefined prompt.   *)
ElectronCompletion(c) ==
  LET h == Found(c) IN
  /\ Called(c)
  /\ controllers' = [controllers EXCEPT ![calls[c].id] = c]
  /\ \/ /\ ~HasSequence(h)
        /\ Settle(c, h)
        /\ UNCHANGED <<sequences, failed>>
     \/ /\ HasSequence(h)
        /\ Take(h)
        /\ CASE Form(c) = "chat"   -> Run(c, "history", h)
             [] Form(c) = "prompt" -> Run(c, "evaluating", h)
             [] Form(c) = "none"   -> Settle(c, h) /\ failed' = failed \cup {c}

(* await session.setChatHistory.                                           *)
ChatHistory(c) ==
  /\ At(c, "completion", "history")
  /\ Run(c, "running", Context(c))
  /\ UNCHANGED <<controllers, sequences>>

(* setChatHistory rejects, "prompt missing", the evaluation throws: the    *)
(* sequence stays taken.                                                   *)
Throw(c) ==
  /\ \E pc \in {"history", "evaluating"} : At(c, "completion", pc)
  /\ failed' = failed \cup {c}
  /\ Settle(c, Context(c))
  /\ UNCHANGED <<controllers, sequences>>

(* session.prompt settles: its finally block.                              *)
EndChat(c) ==
  /\ At(c, "completion", "running")
  /\ controllers' = [controllers EXCEPT ![calls[c].id] = NoContext]
  /\ Give(Context(c))
  /\ Settle(c, Context(c))
  /\ UNCHANGED failed

(* Mutant: the sequence is not disposed.                                   *)
EndEvaluation_Kept(c) ==
  /\ At(c, "completion", "evaluating")
  /\ Settle(c, Context(c))
  /\ UNCHANGED <<controllers, sequences, failed>>

(* The loop over the tokens ends; the controller stays.                    *)
EndEvaluation(c) ==
  /\ At(c, "completion", "evaluating")
  /\ Give(Context(c))
  /\ Settle(c, Context(c))
  /\ UNCHANGED <<controllers, failed>>

(* releaseContext up to its await: a context that is disposed already is   *)
(* forgotten at once.                                                      *)
Forgotten(c) == {i \in Keys(c) : contexts[i] \notin alive}

ElectronRelease(c) ==
  /\ Releasing(c)
  /\ alive' = alive \ Stored(Keys(c))
  /\ contexts' = Drop(contexts, Forgotten(c))
  /\ controllers' = Drop(controllers, Forgotten(c))
  /\ disposing' = [disposing EXCEPT ![c] = Keys(c) \ Forgotten(c)]
  /\ SetPc(c, "disposing")
  /\ UNCHANGED <<aborted, listeners, sequences, cleared, failed, stranded>>

(* A dispose that rejects leaves what is kept under the id.                *)
Disposed(c) ==
  /\ calls[c].pc = "disposing"
  /\ \E i \in disposing[c] :
       /\ \/ contexts' = Drop(contexts, {i}) /\ controllers' = Drop(controllers, {i})
          \/ UNCHANGED <<contexts, controllers>>
       /\ disposing' = [disposing EXCEPT ![c] = @ \ {i}]
  /\ UNCHANGED <<calls, alive, aborted, listeners, sequences, cleared, failed, stranded>>

Released(c) ==
  /\ calls[c].pc = "disposing" /\ disposing[c] = {}
  /\ SetPc(c, "done")
  /\ UNCHANGED <<contexts, alive, controllers, aborted, listeners, sequences, disposing,
                 cleared, failed, stranded>>

ElectronStep(c) ==
  /\ platform = "electron"
  /\ \/ ElectronCompletion(c) \/ ChatHistory(c)
     \/ (EndChat(c) /\ c \in aborted)         \* the signal
     \/ (EndEvaluation(c) /\ c \in aborted)   \* the loop looks at it after each token
     \/ ElectronRelease(c) \/ Disposed(c) \/ Released(c)
  /\ UNCHANGED <<contextCounter, own, platform>>

-----------------------------------------------------------------------------
Answer(c) == LoadAnswered(c) /\ UNCHANGED lib

Common(c) ==
  /\ StartLoad(c) \/ FinishLoad(c) \/ FailStored(c) \/ StopCompletion(c) \/ Tokenize(c)
     \/ (Listen(c) /\ UNCHANGED platform)
  /\ UNCHANGED <<contextCounter, own>>

Application ==
  /\ \/ Load \/ ReleaseAll
     \/ \E id \in Ids :
          \/ \E op \in {"stopCompletion", "tokenize", "releaseContext"} : Use(id, op, NoKind)
          \/ \E kind \in Kinds : Use(id, "completion", kind)
  /\ UNCHANGED lib

(* A completion ends by itself, or throws: nothing says it must.           *)
EndsByItself(c) ==
  /\ \/ platform = "web" /\ WebEnd(c)
     \/ platform = "electron" /\ (EndChat(c) \/ EndEvaluation(c) \/ Throw(c))
  /\ UNCHANGED <<contextCounter, own, platform>>

Step(c) == c \in Made /\ (Common(c) \/ Answer(c) \/ WebStep(c) \/ ElectronStep(c))

Next ==
  \/ Application
  \/ RemoveAllListeners
  \/ \E c \in Made : Step(c) \/ EndsByItself(c)

(* Promises of the libraries settle and are taken up; a completion that is *)
(* aborted ends, others may run for ever.                                  *)
Fairness == \A c \in Calls : WF_vars(Step(c))

Spec == Init /\ [][Next]_vars /\ Fairness

-----------------------------------------------------------------------------
(* Properties.                                                             *)

Pcs == {"sent", "done", "loading", "loaded", "calling", "running", "history", "evaluating",
        "disposing"}

TypeOK ==
  /\ JsTypeOK
  /\ \A c \in Made : calls[c].pc \in Pcs
  /\ platform \in Platforms
  /\ contexts \in [Ids -> Contexts] /\ controllers \in [Ids -> Contexts]
  /\ alive \subseteq Calls /\ aborted \subseteq Calls
  /\ listeners \in Seq(Calls)
  /\ sequences \in [Calls -> 0 .. NSequences]
  /\ disposing \in [Calls -> SUBSET Ids]
  /\ cleared \subseteq Calls /\ failed \subseteq Calls /\ stranded \subseteq Calls

Running(c) == Op(c) = "completion" /\ calls[c].pc \in {"running", "history", "evaluating"}

(* Completion d, when it ends, deletes the controller under its id.        *)
Deletes(d) == IF platform = "web" THEN Form(d) # "none" ELSE Form(d) = "chat"

(* A stop reaches the running completion of its context: the controller    *)
(* under the id is that completion's.  Not so only when the application    *)
(* has two completions of the context at once - the last one to start has  *)
(* the controller, and one that ends deletes it, in the browser and for    *)
(* chats also when it is the other's - or releases the context meanwhile.  *)
StopReaches ==
  \A c \in Made : Running(c) =>
    \/ controllers[calls[c].id] = c
    \/ \E d \in Made :
         /\ Op(d) = "completion" /\ calls[d].id = calls[c].id /\ Overlap(c, d)
         /\ controllers[calls[c].id] = d \/ (Over(d) /\ Deletes(d))
    \/ \E d \in Made :
         /\ Overlap(c, d)
         /\ Op(d) = "releaseAllContexts" \/ (Op(d) = "releaseContext" /\ calls[d].id = calls[c].id)

(* A completion with onToken, from the await of the listener to the end.   *)
Listening(c) == Op(c) = "completion" /\ OnToken(c) /\ calls[c].pc \notin {"sent", "done"}

(* The listeners are those of the completions under way, each until its    *)
(* own completion ends.  removeAllListeners breaks this, and not only for  *)
(* the listeners it removes: a completion that finds its own gone takes    *)
(* the last one of the others with it when it ends.                        *)
ListenersBalanced ==
  /\ \A i \in DOMAIN listeners : Listening(listeners[i])
  /\ \A c \in Made : Listening(c) =>
       \/ \E i \in DOMAIN listeners : listeners[i] = c
       \/ c \in cleared
       \/ \E d \in cleared : Over(d)

(* Electron: a completion finds no sequence only while another one of the  *)
(* context is under way - or for ever after one has failed on its way to   *)
(* the answer, which leaves its sequence taken.                            *)
SequencesComeBack ==
  \A h \in Calls :
    sequences[h] > 0 =>
      \E c \in Made : Op(c) = "completion" /\ Context(c) = h /\ (Running(c) \/ c \in failed)

(* There is an object with the id that load c was sent, made from it.      *)
MadeObject(c) == calls[c].id < contextCounter /\ Own(calls[c].id) = c

(* Every context that is loaded and not released can be reached through    *)
(* the object made from it.  There are two exceptions.  The application    *)
(* had two loads under way at once: they were sent the same id, the second *)
(* one replaced the first, and the objects have two ids.  Or, in the       *)
(* browser, the load failed after it had stored its context: no object has *)
(* it, the next load is sent the same id, and once that has stored its own *)
(* not even releaseAllContexts finds the first one.                        *)
OwnContext ==
  \/ \A c \in alive :
       IF c \in stranded
       THEN \/ contexts[calls[c].id] = c
            \/ \E d \in Made \ {c} :
                 /\ Op(d) = "initContext" /\ calls[d].id = calls[c].id
                 /\ d \in stranded \/ calls[d].pc = "loaded" \/ MadeObject(d)
       ELSE /\ contexts[calls[c].id] = c
            /\ Over(c) => MadeObject(c)
  \/ \E c, d \in Made : Op(c) = "initContext" /\ Op(d) = "initContext" /\ Overlap(c, d)

(* A completion that was aborted ends (again and again all have).          *)
AbortedEnds == []<>(\A c \in aborted : Over(c))
=============================================================================
