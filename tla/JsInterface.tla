---------------------------- MODULE JsInterface -----------------------------
(***************************************************************************)
(* What an application calls (src/LlamaContext.ts, over the methods the    *)
(* plugin exposes, src/definitions.ts): contexts are objects with an id,   *)
(* calls are sent and settle later, in any order.  The id a load sends is  *)
(* contextCounter when it is sent; the id of the object it makes is        *)
(* contextCounter when it is answered.                                     *)
(*                                                                         *)
(* A call is known by its number.  The native context (or the one of the   *)
(* web or desktop library) that load c makes is called c, and an object is *)
(* known by its id.                                                        *)
(***************************************************************************)
EXTENDS Integers, Sequences, FiniteSets

CONSTANT MaxCalls   \* bound: the number of calls the application makes

ASSUME MaxCallsAssumption == MaxCalls \in Nat

VARIABLES
  contextCounter,   \* LlamaContext.ts: contextCounter
  own,              \* history: the context that the load of each object made
  calls             \* the calls so far

jsVars == <<contextCounter, own, calls>>

Calls     == 1 .. MaxCalls
NoContext == 0                   \* null, undefined, nil
Contexts  == Calls \cup {NoContext}
Ids       == 0 .. MaxCalls - 1
NoId      == -1

Ops == {"initContext", "completion", "stopCompletion", "tokenize",
        "releaseContext", "releaseAllContexts"}

(* What a completion is given: messages, a prompt or neither; onToken.     *)
Kind   == [form : {"chat", "prompt", "none"}, onToken : BOOLEAN]
NoKind == [form |-> "none", onToken |-> FALSE]

Made == DOMAIN calls
Op(c) == calls[c].op

(* A call is over when its promise is settled (and, for a load that        *)
(* succeeded, LlamaContext.from has made the object).                      *)
Over(c) == calls[c].pc = "done"

(* The application sent one of the two before the other was answered.      *)
Overlap(c, d) == c \in calls[d].during \/ d \in calls[c].during

JsInit ==
  /\ contextCounter = 0
  /\ own = <<>>
  /\ calls = <<>>

(* The call is sent: nothing but the promise is left on this side.         *)
Send(op, id, kind) ==
  /\ Len(calls) < MaxCalls
  /\ calls' = Append(calls,
       [op |-> op, id |-> id, kind |-> kind, pc |-> "sent", context |-> NoContext,
        during |-> {c \in Made : ~Over(c)}])

SetPc(c, pc) == calls' = [calls EXCEPT ![c].pc = pc]

(* Mutant: failed loads advance the counter that is sent as well.          *)
Load_OtherCounter ==
  Send("initContext", Len(calls), NoKind) /\ UNCHANGED <<contextCounter, own>>

(* LlamaContext.from.                                                      *)
Load == Send("initContext", contextCounter, NoKind) /\ UNCHANGED <<contextCounter, own>>

(* LlamaContext.completion, stopCompletion, release; tokenize stands for   *)
(* it, for detokenize, getVocab and getFormattedChat: each looks the       *)
(* context up and reads the model.                                         *)
Use(id, op, kind) ==
  /\ id < contextCounter
  /\ Send(op, id, kind)
  /\ UNCHANGED <<contextCounter, own>>

ReleaseAll == Send("releaseAllContexts", NoId, NoKind) /\ UNCHANGED <<contextCounter, own>>

(* Mutant: the object is made with an id that is not counted.              *)
LoadAnswered_NotCounted(c) ==
  /\ Op(c) = "initContext" /\ calls[c].pc = "loaded"
  /\ own' = Append(own, c)
  /\ SetPc(c, "done")
  /\ UNCHANGED contextCounter

(* The constructor of LlamaContext, run when the load is answered.         *)
LoadAnswered(c) ==
  /\ Op(c) = "initContext" /\ calls[c].pc = "loaded"
  /\ contextCounter' = contextCounter + 1
  /\ own' = Append(own, c)
  /\ SetPc(c, "done")

Own(id) == own[id + 1]

JsTypeOK ==
  /\ contextCounter \in 0 .. MaxCalls
  /\ own \in Seq(Calls) /\ Len(own) = contextCounter
  /\ Len(calls) <= MaxCalls
  /\ \A c \in Made :
       /\ Op(c) \in Ops /\ calls[c].kind \in Kind
       /\ calls[c].id \in Ids \cup {NoId}
       /\ calls[c].context \in Contexts
       /\ calls[c].during \subseteq 1 .. c - 1
=============================================================================
