---------------------------- MODULE NativePlugin ----------------------------
(***************************************************************************)
(* The plugin on Android (CapacitorLlamaPlugin.java, CapacitorLlama.java,  *)
(* LlamaContext.java, jni.cpp) and on iOS (CapacitorLlamaPlugin.swift,     *)
(* CAPLlama.mm, LlamaContext.mm): which thread runs a call, which context  *)
(* it finds, and when a context is freed.                                  *)
(*                                                                         *)
(* On Android every call is a task with a thread of its own, and the calls *)
(* share a HashMap; its get, put and remove are one step each here.  On    *)
(* iOS Capacitor runs the calls one after the other (the bridge's queue,   *)
(* external), completions run on the serial queue llamaDQueue, and an      *)
(* Objective-C exception that leaves a method other than initContext, or a *)
(* block of the queue, ends the application: Swift does not catch it.      *)
(***************************************************************************)
EXTENDS JsInterface

CONSTANT Platforms   \* the platforms looked at

ASSUME PlatformsAssumption == Platforms \subseteq {"android", "ios"}

VARIABLES
  platform,
  contexts,      \* contexts of CapacitorLlama.java, llamaContexts of CAPLlama.mm
  alive,         \* the llama_rn_contexts that are not deleted
  interrupted,   \* contexts whose completion has is_interrupted
  predicting,    \* contexts whose completion has is_predicting
  llamaDQueue,   \* iOS: the blocks, the first one running
  modified,      \* Android: the releaseAllContexts whose iterator is out of date
  fault,         \* history: the calls that used a deleted context
  terminated     \* the application was ended by an exception or a signal

mapVars == <<contexts, modified>>
vars == <<jsVars, platform, contexts, alive, interrupted, predicting, llamaDQueue,
          modified, fault, terminated>>

Context(c) == calls[c].context
At(c, op, pc) == ~terminated /\ Op(c) = op /\ calls[c].pc = pc
Move(c, pc, h) == calls' = [calls EXCEPT ![c].pc = pc, ![c].context = h]

(* Mutant: the loop does not look at the flag.                             *)
Stopped_Never(c) == FALSE

(* The loop of a completion ends at its next turn.                         *)
Stopped(c) == Context(c) \in interrupted

Init ==
  /\ JsInit
  /\ platform \in Platforms
  /\ contexts = [i \in Ids |-> NoContext]
  /\ alive = {} /\ interrupted = {} /\ predicting = {}
  /\ llamaDQueue = <<>> /\ modified = {} /\ fault = {} /\ terminated = FALSE

(* Call c uses context h.  A deleted one: the native code looks it up in   *)
(* context_map, which has it no longer, and dereferences null.             *)
Enter(c, h) ==
  /\ fault' = IF h \in alive THEN fault ELSE fault \cup {c}
  /\ terminated' = (h \notin alive)

(* The same inside the native code, where the pointer dangles: anything.   *)
Dangle(c, h) ==
  IF h \in alive THEN UNCHANGED <<fault, terminated>>
  ELSE fault' = fault \cup {c} /\ terminated' \in BOOLEAN

-----------------------------------------------------------------------------
(* Android.                                                                *)

(* The iterators over the map that notice that an entry came or went.      *)
Iterating(c) == Op(c) = "releaseAllContexts" /\ calls[c].pc \in {"iterating", "stopping", "freeing"}
OutOfDate(c) == modified' = modified \cup {d \in Made : d # c /\ Iterating(d)}

Put(c, id, h) ==
  /\ contexts' = [contexts EXCEPT ![id] = h]
  /\ IF contexts[id] = NoContext THEN OutOfDate(c) ELSE UNCHANGED modified
Remove(c, id) ==
  /\ contexts' = [contexts EXCEPT ![id] = NoContext]
  /\ IF contexts[id] # NoContext THEN OutOfDate(c) ELSE UNCHANGED modified

(* Every task but releaseAllContexts begins by looking the context up.     *)
Found(c) == contexts[calls[c].id]
NotFound(c, op) == At(c, op, "sent") /\ Found(c) = NoContext

LookUp(c, op, pc) ==
  /\ At(c, op, "sent") /\ Found(c) # NoContext
  /\ Move(c, pc, Found(c))
  /\ UNCHANGED <<mapVars, alive, interrupted, fault, terminated>>

LookUpFails(c) ==
  /\ \/ At(c, "initContext", "sent") /\ Found(c) # NoContext
     \/ \E op \in {"completion", "stopCompletion", "tokenize", "releaseContext"} : NotFound(c, op)
     \/ At(c, "completion", "sent")     \* it has no prompt
  /\ SetPc(c, "done")
  /\ UNCHANGED <<mapVars, alive, interrupted, fault, terminated>>

StartLoad(c) ==
  /\ NotFound(c, "initContext")
  /\ SetPc(c, "loading")
  /\ UNCHANGED <<mapVars, alive, interrupted, fault, terminated>>

FinishLoad(c) ==
  /\ At(c, "initContext", "loading")
  /\ \/ SetPc(c, "done") /\ UNCHANGED alive
     \/ Move(c, "putting", c) /\ alive' = alive \cup {c}
  /\ UNCHANGED <<mapVars, interrupted, fault, terminated>>

PutContext(c) ==
  /\ At(c, "initContext", "putting")
  /\ Put(c, calls[c].id, c)
  /\ SetPc(c, "loaded")
  /\ UNCHANGED <<alive, interrupted, fault, terminated>>

(* doCompletion begins with rewind, whatever else the context is doing:    *)
(* the check that it is busy is commented out.                             *)
Rewind(c) ==
  /\ At(c, "completion", "found")
  /\ Enter(c, Context(c))
  /\ interrupted' = interrupted \ {Context(c)}
  /\ SetPc(c, "running")
  /\ UNCHANGED <<mapVars, alive>>

EndCompletion(c) ==
  /\ At(c, "completion", "running")
  /\ Dangle(c, Context(c))
  /\ SetPc(c, "done")
  /\ UNCHANGED <<mapVars, alive, interrupted>>

Tokenize(c) ==
  /\ At(c, "tokenize", "found")
  /\ Dangle(c, Context(c))
  /\ SetPc(c, "done")
  /\ UNCHANGED <<mapVars, alive, interrupted>>

(* stopCompletion; the release of one context and of all have it too.      *)
Stop(c) ==
  /\ \E op \in {"stopCompletion", "releaseContext", "releaseAllContexts"} : At(c, op, "stopping")
  /\ Enter(c, Context(c))
  /\ interrupted' = interrupted \cup {Context(c)}
  /\ SetPc(c, IF Op(c) = "stopCompletion" THEN "done" ELSE "freeing")
  /\ UNCHANGED <<mapVars, alive>>

FreeContext(c) ==
  /\ \E op \in {"releaseContext", "releaseAllContexts"} : At(c, op, "freeing")
  /\ Enter(c, Context(c))
  /\ alive' = alive \ {Context(c)}
  /\ SetPc(c, IF Op(c) = "releaseContext" THEN "removing" ELSE "iterating")
  /\ UNCHANGED <<mapVars, interrupted>>

RemoveContext(c) ==
  /\ At(c, "releaseContext", "removing")
  /\ Remove(c, calls[c].id)
  /\ SetPc(c, "done")
  /\ UNCHANGED <<alive, interrupted, fault, terminated>>

(* The iterator over contexts.values() is one entry ahead: id is the key   *)
(* of the next entry.  The keys of a HashMap of small integers come in     *)
(* order.                                                                  *)
KeysFrom(k) == {i \in Ids : k <= i /\ contexts[i] # NoContext}
FirstKey(k) == IF KeysFrom(k) = {} THEN NoId
               ELSE CHOOSE i \in KeysFrom(k) : \A j \in KeysFrom(k) : i <= j

BeginReleaseAll(c) ==
  /\ At(c, "releaseAllContexts", "sent")
  /\ calls' = [calls EXCEPT ![c].pc = "iterating", ![c].id = FirstKey(0)]
  /\ UNCHANGED <<mapVars, alive, interrupted, fault, terminated>>

NextContext(c) ==
  LET id == calls[c].id IN
  /\ At(c, "releaseAllContexts", "iterating") /\ id # NoId
  /\ IF c \in modified
     THEN SetPc(c, "lost")     \* ConcurrentModificationException: nobody settles the call
     ELSE calls' = [calls EXCEPT ![c].pc = "stopping", ![c].context = contexts[id],
                                 ![c].id = FirstKey(id + 1)]
  /\ UNCHANGED <<mapVars, alive, interrupted, fault, terminated>>

EndReleaseAll(c) ==
  /\ At(c, "releaseAllContexts", "iterating") /\ calls[c].id = NoId
  /\ contexts' = [i \in Ids |-> NoContext]
  /\ OutOfDate(c)
  /\ SetPc(c, "done")
  /\ UNCHANGED <<alive, interrupted, fault, terminated>>

AndroidStep(c) ==
  /\ platform = "android"
  /\ \/ StartLoad(c) \/ FinishLoad(c) \/ PutContext(c)
     \/ LookUp(c, "completion", "found") \/ LookUp(c, "tokenize", "found")
     \/ LookUp(c, "stopCompletion", "stopping") \/ LookUp(c, "releaseContext", "stopping")
     \/ LookUpFails(c)
     \/ Rewind(c) \/ Tokenize(c) \/ Stop(c) \/ FreeContext(c) \/ RemoveContext(c)
     \/ (EndCompletion(c) /\ Stopped(c))
     \/ BeginReleaseAll(c) \/ NextContext(c) \/ EndReleaseAll(c)
  /\ UNCHANGED <<contextCounter, own, platform, predicting, llamaDQueue>>

-----------------------------------------------------------------------------
(* iOS.                                                                    *)

(* Call c is the one the bridge's queue runs.                              *)
Turn(c, op) ==
  /\ At(c, op, "sent")
  /\ \A d \in 1 .. c - 1 : calls[d].pc \notin {"sent", "barrier"}

(* The exception of a method that does not find its context, of a          *)
(* completion on a busy context, of a completion that fails.               *)
Uncaught(c) ==
  /\ terminated' = TRUE
  /\ SetPc(c, "lost")
  /\ UNCHANGED <<contexts, alive, interrupted, predicting, llamaDQueue, fault>>

Missing(c) ==
  /\ \E op \in {"completion", "stopCompletion", "tokenize", "releaseContext"} : Turn(c, op)
  /\ Found(c) = NoContext
  /\ Uncaught(c)

Busy(c) ==
  /\ Turn(c, "completion")
  /\ Found(c) \in predicting
  /\ Uncaught(c)

(* Mutant: nobody looks whether the context exists.                        *)
IosLoad_NotChecked(c) ==
  /\ Turn(c, "initContext")
  /\ Move(c, "loaded", c)
  /\ alive' = alive \cup {c}
  /\ contexts' = [contexts EXCEPT ![calls[c].id] = c]
  /\ UNCHANGED <<interrupted, predicting, llamaDQueue, fault, terminated>>

IosLoad(c) ==
  /\ Turn(c, "initContext")
  /\ \/ SetPc(c, "done") /\ UNCHANGED <<contexts, alive>>
     \/ /\ Found(c) = NoContext
        /\ Move(c, "loaded", c)
        /\ alive' = alive \cup {c}
        /\ contexts' = [contexts EXCEPT ![calls[c].id] = c]
  /\ UNCHANGED <<interrupted, predicting, llamaDQueue, fault, terminated>>

(* completion: the block keeps the context it was given.                   *)
IosDispatch(c) ==
  /\ Turn(c, "completion")
  /\ Found(c) # NoContext /\ Found(c) \notin predicting
  /\ Move(c, "queued", Found(c))
  /\ llamaDQueue' = Append(llamaDQueue, c)
  /\ UNCHANGED <<contexts, alive, interrupted, predicting, fault, terminated>>

IosRewind(c) ==
  /\ At(c, "completion", "queued") /\ c = Head(llamaDQueue)
  /\ Dangle(c, Context(c))
  /\ interrupted' = interrupted \ {Context(c)}
  /\ SetPc(c, "starting")
  /\ UNCHANGED <<contexts, alive, predicting, llamaDQueue>>

IosBegin(c) ==
  /\ At(c, "completion", "starting")
  /\ Dangle(c, Context(c))
  /\ predicting' = predicting \cup {Context(c)}
  /\ SetPc(c, "running")
  /\ UNCHANGED <<contexts, alive, interrupted, llamaDQueue>>

(* "Failed to initialize sampling"; "Context is full" and what loadPrompt  *)
(* throws, after endCompletion: the block rejects the call and throws on.  *)
IosFail(c) ==
  /\ \E pc \in {"starting", "running"} : At(c, "completion", pc)
  /\ Uncaught(c)

(* Mutant: endCompletion is not called.                                    *)
IosEnd_Predicting(c) ==
  /\ At(c, "completion", "running")
  /\ Dangle(c, Context(c))
  /\ llamaDQueue' = Tail(llamaDQueue)
  /\ SetPc(c, "done")
  /\ UNCHANGED <<contexts, alive, interrupted, predicting>>

IosEnd(c) ==
  /\ At(c, "completion", "running")
  /\ Dangle(c, Context(c))
  /\ predicting' = predicting \ {Context(c)}
  /\ llamaDQueue' = Tail(llamaDQueue)
  /\ SetPc(c, "done")
  /\ UNCHANGED <<contexts, alive, interrupted>>

IosUse(c) ==
  /\ \E op \in {"stopCompletion", "tokenize"} : Turn(c, op)
  /\ Found(c) # NoContext
  /\ Dangle(c, Found(c))
  /\ interrupted' = interrupted \cup (IF Op(c) = "stopCompletion" THEN {Found(c)} ELSE {})
  /\ SetPc(c, "done")
  /\ UNCHANGED <<contexts, alive, predicting, llamaDQueue>>

(* releaseContext stops the context and waits on the queue's barrier.      *)
IosRelease(c) ==
  /\ Turn(c, "releaseContext")
  /\ Found(c) # NoContext
  /\ Dangle(c, Found(c))
  /\ Move(c, "barrier", Found(c))
  /\ interrupted' = interrupted \cup {Found(c)}
  /\ UNCHANGED <<contexts, alive, predicting, llamaDQueue>>

(* Mutant: without the barrier.                                            *)
IosInvalidate_NoBarrier(c) ==
  /\ At(c, "releaseContext", "barrier")
  /\ Dangle(c, Context(c))
  /\ alive' = alive \ {Context(c)}
  /\ contexts' = [contexts EXCEPT ![calls[c].id] = NoContext]
  /\ SetPc(c, "done")
  /\ UNCHANGED <<interrupted, predicting, llamaDQueue>>

IosInvalidate(c) ==
  /\ At(c, "releaseContext", "barrier")
  /\ llamaDQueue = <<>>
  /\ Dangle(c, Context(c))
  /\ alive' = alive \ {Context(c)}
  /\ contexts' = [contexts EXCEPT ![calls[c].id] = NoContext]
  /\ SetPc(c, "done")
  /\ UNCHANGED <<interrupted, predicting, llamaDQueue>>

(* releaseAllContexts does the same for each in turn, then empties the     *)
(* dictionary; id is the key it is at.                                     *)
IosVisit(c, k) ==
  LET id == FirstKey(k) IN
  IF id = NoId
  THEN /\ contexts' = [i \in Ids |-> NoContext]
       /\ SetPc(c, "done")
       /\ UNCHANGED interrupted
  ELSE /\ calls' = [calls EXCEPT ![c].pc = "barrier", ![c].id = id, ![c].context = contexts[id]]
       /\ interrupted' = interrupted \cup {contexts[id]}
       /\ UNCHANGED contexts

IosReleaseAll(c) ==
  /\ Turn(c, "releaseAllContexts")
  /\ IosVisit(c, 0)
  /\ UNCHANGED <<alive, predicting, llamaDQueue, fault, terminated>>

IosReleaseNext(c) ==
  /\ At(c, "releaseAllContexts", "barrier")
  /\ llamaDQueue = <<>>
  /\ Dangle(c, Context(c))
  /\ alive' = alive \ {Context(c)}
  /\ IosVisit(c, calls[c].id + 1)
  /\ UNCHANGED <<predicting, llamaDQueue>>

IosStep(c) ==
  /\ platform = "ios"
  /\ \/ Missing(c) \/ Busy(c) \/ IosLoad(c) \/ IosDispatch(c) \/ IosRewind(c) \/ IosBegin(c)
     \/ IosFail(c) \/ (IosEnd(c) /\ Stopped(c)) \/ IosUse(c)
     \/ IosRelease(c) \/ IosInvalidate(c) \/ IosReleaseAll(c) \/ IosReleaseNext(c)
  /\ UNCHANGED <<contextCounter, own, platform, modified>>

-----------------------------------------------------------------------------
native == <<platform, contexts, alive, interrupted, predicting, llamaDQueue,
            modified, fault, terminated>>

Answer(c) == ~terminated /\ LoadAnswered(c) /\ UNCHANGED native

Application ==
  /\ ~terminated
  /\ \/ Load \/ ReleaseAll
     \/ \E id \in Ids, op \in {"completion", "stopCompletion", "tokenize", "releaseContext"} :
          Use(id, op, NoKind)
  /\ UNCHANGED native

(* A completion that nobody stops may end by itself: at its limit, a stop  *)
(* word, the end of the text; with n_predict = -1 nothing says it must.    *)
EndsByItself(c) ==
  /\ ~terminated /\ ~Stopped(c)
  /\ \/ platform = "android" /\ EndCompletion(c) /\ UNCHANGED <<predicting, llamaDQueue>>
     \/ platform = "ios" /\ IosEnd(c) /\ UNCHANGED modified
  /\ UNCHANGED <<contextCounter, own, platform>>

Step(c) == c \in Made /\ (AndroidStep(c) \/ IosStep(c) \/ Answer(c))

Next == Application \/ \E c \in Made : Step(c) \/ EndsByItself(c)

(* The threads and the queues run what they have, answers reach the web    *)
(* view, and the loop of a completion looks at the flag after each token.  *)
Fairness == \A c \in Calls : WF_vars(Step(c))

Spec == Init /\ [][Next]_vars /\ Fairness

-----------------------------------------------------------------------------
(* Properties.                                                             *)

Pcs == {"sent", "done", "lost", "loading", "putting", "loaded", "found", "running", "stopping",
        "freeing", "removing", "iterating", "queued", "starting", "barrier"}

TypeOK ==
  /\ JsTypeOK
  /\ \A c \in Made : calls[c].pc \in Pcs
  /\ platform \in Platforms
  /\ contexts \in [Ids -> Contexts]
  /\ alive \subseteq Calls /\ interrupted \subseteq Calls /\ predicting \subseteq Calls
  /\ llamaDQueue \in Seq(Calls)
  /\ modified \subseteq Calls /\ fault \subseteq Calls /\ terminated \in BOOLEAN

Releases == {"releaseContext", "releaseAllContexts"}

(* Some call with an operation of ops was in flight together with c.       *)
Met(c, ops) == \E d \in Made : Op(d) \in ops /\ Overlap(c, d)

(* A deleted context is never used: on iOS the barrier of the queue keeps  *)
(* every completion from it, also one that was queued before the release.  *)
(* Android has no such thing; there the calls of an application that       *)
(* awaits its calls before it releases are safe, and those sent after the  *)
(* release was answered find nothing.  (A releaseAllContexts thrown out of *)
(* its loop leaves what it freed in the map for every later call, but then *)
(* it is never answered.)                                                  *)
FreedNotUsed == \A c \in fault : platform = "android" /\ Met(c, Releases)

(* Two calls with these operations were in flight together.                *)
Mixed(op1, op2) == \E c \in Made : Op(c) = op1 /\ Met(c, {op2})

(* Every context that is not deleted can be reached, so it can be          *)
(* released: the map has it under the id its load was sent with.  Only a   *)
(* load or a releaseAllContexts beside its own load can take it out.       *)
HeldByMap ==
  \A c \in alive :
    \/ calls[c].pc = "putting"
    \/ contexts[calls[c].id] = c
    \/ platform = "android" /\ Met(c, {"initContext", "releaseAllContexts"})

(* The id of an object is the one its own context is stored under, though  *)
(* it is read from the counter anew when the load is answered: as long as  *)
(* the application awaits a load before the next one and before            *)
(* releaseAllContexts.  On iOS two loads alone do no harm, the second one  *)
(* is refused.                                                             *)
OwnContext ==
  \/ \A id \in 0 .. contextCounter - 1 : Own(id) \in alive => contexts[id] = Own(id)
  \/ Mixed("initContext", "releaseAllContexts")
  \/ platform = "android" /\ Mixed("initContext", "initContext")

(* On iOS a method that refuses a call ends the application, so it must    *)
(* only refuse what the application asked for: a call on an object it has  *)
(* released, a completion while another one of the object is unanswered.   *)
RefusedForAReason ==
  \A c \in Made :
    platform = "ios" /\ calls[c].pc = "lost" /\ Context(c) = NoContext =>
      \E d \in 1 .. c - 1 :
        \/ Op(d) = "releaseAllContexts"
        \/ Op(d) = "releaseContext" /\ calls[d].id = calls[c].id
        \/ /\ Op(c) = "completion" /\ Op(d) = "completion"
           /\ calls[d].id = calls[c].id /\ d \in calls[c].during

(* A completion is running that nobody has stopped.                        *)
Blocked == \E c \in Made : /\ Op(c) = "completion" /\ calls[c].pc = "running"
                      /\ Context(c) \notin interrupted

(* A releaseAllContexts of Android with a load or a release beside it may  *)
(* leave its promise pending for ever: nothing handles the exception of    *)
(* its iterator.                                                           *)
MayPend(c) == /\ platform = "android" /\ Op(c) = "releaseAllContexts"
              /\ Met(c, Releases \cup {"initContext"})

(* Every call is answered (the calls are bounded: again and again all of   *)
(* them have been) as long as no completion runs for ever with nobody      *)
(* stopping it.  One that is stopped ends, and a release, which stops the  *)
(* completion of its context, is not kept waiting by it.                   *)
EveryCallReturns ==
  <>[]~Blocked => []<>(terminated \/ \A c \in Made : Over(c) \/ MayPend(c))
=============================================================================
