------------------------- MODULE ScriptPluginProofs -------------------------
(* The plugin in JavaScript, for any number of calls: which stops reach    *)
(* their completion, which listeners stay, that sequences come back and    *)
(* that the contexts that are not released can be reached.                 *)
EXTENDS ScriptPlugin, JsInterfaceProofs, SequenceTheorems

USE MaxCallsAssumption, ScriptAssumption DEF MaxCallsAssumption, ScriptAssumption

Pc(c) == calls[c].pc
Id(c) == calls[c].id

-----------------------------------------------------------------------------
(* What splicing one element out of a sequence leaves.                     *)
LEMMA RemoveAtProperties ==
  ASSUME NEW S, NEW s \in Seq(S), NEW i \in 1 .. Len(s)
  PROVE  /\ RemoveAt(s, i) \in Seq(S) /\ Len(RemoveAt(s, i)) = Len(s) - 1
         /\ \A j \in 1 .. Len(s) - 1 : RemoveAt(s, i)[j] = IF j < i THEN s[j] ELSE s[j + 1]
<1> DEFINE a == SubSeq(s, 1, i - 1)
           b == SubSeq(s, i + 1, Len(s))
<1>1. a \in Seq(S) /\ Len(a) = i - 1 /\ \A j \in 1 .. i - 1 : a[j] = s[j]
  OBVIOUS
<1>2. b \in Seq(S) /\ Len(b) = Len(s) - i /\ \A j \in 1 .. Len(s) - i : b[j] = s[i + j]
  OBVIOUS
<1>3. RemoveAt(s, i) = a \o b
  BY DEF RemoveAt
<1> HIDE DEF a, b
<1>4. a \o b \in Seq(S) /\ Len(a \o b) = Len(s) - 1
  <2>1. Len(a) \in Nat /\ Len(b) \in Nat /\ Len(s) \in Nat
    BY <1>1, <1>2
  <2>2. a \o b \in Seq(S) /\ Len(a \o b) = Len(a) + Len(b)
    BY <1>1, <1>2, ConcatProperties
  <2> QED BY <1>1, <1>2, <2>1, <2>2
<1>5. ASSUME NEW j \in 1 .. Len(s) - 1 PROVE (a \o b)[j] = IF j < i THEN s[j] ELSE s[j + 1]
  <2>1. CASE j < i
    BY <1>1, <1>2, <2>1
  <2>2. CASE ~(j < i)
    <3>1. (a \o b)[j] = b[j - (i - 1)]
      BY <1>1, <1>2, <2>2
    <3>2. j - (i - 1) \in 1 .. Len(s) - i /\ i + (j - (i - 1)) = j + 1
      BY <2>2
    <3> QED BY <1>2, <2>2, <3>1, <3>2
  <2> QED BY <2>1, <2>2
<1> QED BY <1>3, <1>4, <1>5

-----------------------------------------------------------------------------
(* Types, and where a call can be.                                         *)
Types ==
  /\ JsInv(Pcs)
  /\ platform \in Platforms
  /\ contexts \in [Ids -> Contexts] /\ controllers \in [Ids -> Contexts]
  /\ alive \subseteq Calls /\ aborted \subseteq Calls
  /\ listeners \in Seq(Calls)
  /\ disposing \in [Calls -> SUBSET Ids]
  /\ cleared \subseteq Made /\ failed \subseteq Made /\ stranded \subseteq Made

Releases == {"releaseContext", "releaseAllContexts"}

Placed(c, pc) ==
  \/ pc \in {"sent", "done"}
  \/ Op(c) = "initContext" /\ pc \in {"loading", "loaded"}
  \/ Op(c) = "completion" /\ pc = "calling" /\ OnToken(c)
  \/ platform = "web" /\ Op(c) = "completion" /\ pc = "running" /\ Form(c) # "none"
  \/ platform = "electron" /\ Op(c) = "completion" /\ pc \in {"history", "running"} /\ Form(c) = "chat"
  \/ platform = "electron" /\ Op(c) = "completion" /\ pc = "evaluating" /\ Form(c) = "prompt"
  \/ platform = "electron" /\ Op(c) \in Releases /\ pc = "disposing"

PlaceInv == \A c \in Made : Placed(c, Pc(c))

(* The steps of a call but those that end a load which has stored its      *)
(* context.                                                                *)
Act(c) ==
  /\ UNCHANGED <<contextCounter, own, platform>>
  /\ \/ StartLoad(c) \/ FinishLoad(c) \/ StopCompletion(c) \/ Tokenize(c) \/ Listen(c)
     \/ platform = "web" /\ (WebCompletion(c) \/ WebEnd(c) \/ WebRelease(c))
     \/ /\ platform = "electron"
        /\ \/ ElectronCompletion(c) \/ ChatHistory(c) \/ Throw(c) \/ EndChat(c) \/ EndEvaluation(c)
           \/ ElectronRelease(c) \/ Disposed(c) \/ Released(c)

(* A load that has stored its context: it is answered, or it fails.        *)
Fail(c)  == FailStored(c) /\ UNCHANGED <<contextCounter, own>>
Close(c) == Answer(c) \/ Fail(c)
Rest == <<platform, contexts, alive, controllers, aborted, listeners, sequences, disposing, cleared, failed>>

LEMMA NextIsAct ==
  ASSUME [Next]_vars
  PROVE  \/ Application \/ RemoveAllListeners \/ UNCHANGED vars
         \/ \E c \in Made : Close(c) \/ Act(c)
<1> USE DEF Close
<1>1. ASSUME NEW c \in Made, Step(c) PROVE Close(c) \/ Act(c)
  <2>1. CASE Common(c)
    BY <2>1 DEF Common, Act, Fail, lib, StartLoad, FinishLoad, StopCompletion, Tokenize
  <2>2. CASE WebStep(c)
    BY <2>2 DEF WebStep, Act
  <2>3. CASE ElectronStep(c)
    BY <2>3 DEF ElectronStep, Act
  <2> QED BY <1>1, <2>1, <2>2, <2>3 DEF Step
<1>2. ASSUME NEW c \in Made, EndsByItself(c) PROVE Act(c)
  BY <1>2 DEF EndsByItself, Act
<1> QED BY <1>1, <1>2 DEF Next

LEMMA CallTypes ==
  ASSUME Types, NEW c \in Made
  PROVE  /\ CallsInv(Pcs) /\ c \in Calls /\ c \in Nat /\ Made \subseteq Calls
         /\ Context(c) \in Contexts /\ Id(c) \in Ids \cup {NoId} /\ Pc(c) \in Pcs /\ Op(c) \in Ops
         /\ calls[c].kind \in Kind
         /\ Op(c) # "releaseAllContexts" => Id(c) \in Ids /\ Found(c) \in Contexts
  BY CallsType DEF Types, JsInv, CallsInv, Context, Id, Pc, Found

LEMMA Goes ==
  ASSUME NEW P, CallsInv(P), NEW c \in Made, NEW pc, NEW h
  PROVE  /\ SetPc(c, pc) => Moved(c, pc, Context(c), Id(c))
         /\ calls' = [calls EXCEPT ![c].pc = pc, ![c].context = h] => Moved(c, pc, h, Id(c))
         /\ calls' = calls => Moved(c, Pc(c), Context(c), Id(c))
<1>1. calls[c] \in CallRecord(P) /\ calls \in Seq(CallRecord(P)) /\ c \in DOMAIN calls
  BY CallsType DEF CallsInv, Made
<1> DEFINE r(q, g) == [op |-> calls[c].op, id |-> calls[c].id, kind |-> calls[c].kind, pc |-> q,
                       context |-> g, during |-> calls[c].during]
<1>2. \A q, g : Moved(c, q, g, Id(c)) <=> calls' = [calls EXCEPT ![c] = r(q, g)]
  BY DEF Moved, Id
<1>3. [calls[c] EXCEPT !.pc = pc] = r(pc, Context(c)) /\ calls[c] = r(Pc(c), Context(c))
  BY <1>1 DEF CallRecord, Context, Id, Pc
<1>4. ASSUME SetPc(c, pc) PROVE Moved(c, pc, Context(c), Id(c))
  <2>1. calls' = [calls EXCEPT ![c] = [calls[c] EXCEPT !.pc = pc]]
    BY <1>1, <1>4 DEF SetPc
  <2> HIDE DEF r
  <2> QED BY <1>2, <1>3, <2>1
<1>5. ASSUME calls' = [calls EXCEPT ![c].pc = pc, ![c].context = h] PROVE Moved(c, pc, h, Id(c))
  <2>1. calls' = [calls EXCEPT ![c] = [calls[c] EXCEPT !.pc = pc, !.context = h]]
    BY <1>1, <1>5
  <2>2. [calls[c] EXCEPT !.pc = pc, !.context = h] = r(pc, h)
    <3>1. [calls[c] EXCEPT !.pc = pc, !.context = h] = [[calls[c] EXCEPT !.pc = pc] EXCEPT !.context = h]
      BY <1>1 DEF CallRecord
    <3>2. [r(pc, Context(c)) EXCEPT !.context = h] = r(pc, h)
      OBVIOUS
    <3> HIDE DEF r
    <3> QED BY <1>3, <3>1, <3>2
  <2> HIDE DEF r
  <2> QED BY <1>2, <2>1, <2>2
<1>6. ASSUME calls' = calls PROVE Moved(c, Pc(c), Context(c), Id(c))
  <2>1. calls' = [calls EXCEPT ![c] = calls[c]]
    BY <1>1, <1>6
  <2> HIDE DEF r
  <2> QED BY <1>2, <1>3, <2>1
<1> QED BY <1>4, <1>5, <1>6

LEMMA Arrives ==
  ASSUME Types, NEW c \in Made, NEW pc, NEW h
  PROVE  /\ SetPc(c, pc) => Pc(c)' = pc /\ Context(c)' = Context(c)
         /\ calls' = [calls EXCEPT ![c].pc = pc, ![c].context = h] => Pc(c)' = pc /\ Context(c)' = h
<1>1. CallsInv(Pcs)
  BY DEF Types, JsInv
<1>2. ASSUME NEW g, Moved(c, pc, g, Id(c)) PROVE Pc(c)' = pc /\ Context(c)' = g
  BY <1>1, <1>2, MovedFrame DEF Pc, Context
<1>3. SetPc(c, pc) => Moved(c, pc, Context(c), Id(c))
  BY <1>1, Goes
<1>4. calls' = [calls EXCEPT ![c].pc = pc, ![c].context = h] => Moved(c, pc, h, Id(c))
  BY <1>1, Goes
<1> QED BY <1>2, <1>3, <1>4

(* What a step of one call leaves as it was.                               *)
LEMMA Frame ==
  ASSUME Types, NEW c \in Made, NEW pc, NEW h, Moved(c, pc, h, Id(c))
  PROVE  /\ Made' = Made
         /\ \A d \in Made : d # c => Pc(d)' = Pc(d) /\ Context(d)' = Context(d) /\ (Over(d)' <=> Over(d))
         /\ Pc(c)' = pc /\ Context(c)' = h /\ (Over(c)' <=> pc = "done")
         /\ \A d \in Made : /\ Op(d)' = Op(d) /\ Id(d)' = Id(d) /\ calls'[d].during = calls[d].during
                            /\ Form(d)' = Form(d) /\ OnToken(d)' = OnToken(d)
         /\ \A d, e \in Made : Overlap(d, e)' <=> Overlap(d, e)
<1>1. CallsInv(Pcs)
  BY DEF Types, JsInv
<1> QED BY <1>1, MovedFrame DEF Pc, Id, Context, Op, Over, Overlap, Form, OnToken

(* A step takes its call, which is not over, to a place where it can be.   *)
LEMMA Moves ==
  ASSUME Types, PlaceInv, NEW c \in Made, Act(c)
  PROVE  /\ ~Over(c) /\ Pc(c) # "done"
         /\ \E pc \in Pcs \ {"sent"}, h \in Contexts : Moved(c, pc, h, Id(c)) /\ Placed(c, pc)
<1> USE DEF Over, At, Pc
<1>1. ASSUME NEW pc \in Pcs \ {"sent"}, SetPc(c, pc) PROVE Moved(c, pc, Context(c), Id(c)) /\ Context(c) \in Contexts
  BY <1>1, Goes, CallTypes
<1>2. ASSUME NEW h, NEW pc, calls' = [calls EXCEPT ![c].pc = pc, ![c].context = h]
      PROVE  Moved(c, pc, h, Id(c))
  BY <1>2, Goes, CallTypes
<1>3. CASE StartLoad(c) \/ FinishLoad(c) \/ StopCompletion(c) \/ Tokenize(c) \/ Listen(c)
  BY <1>1, <1>3 DEF StartLoad, FinishLoad, StopCompletion, Tokenize, Listen, Pcs, Placed
<1>4. CASE platform = "web" /\ WebCompletion(c)
  <2>1. Op(c) = "completion" /\ Pc(c) # "done" /\ Found(c) \in Contexts
    BY <1>4, CallTypes DEF WebCompletion, Called
  <2> QED BY <1>2, <1>4, <2>1 DEF WebCompletion, Settle, Run, Pcs, Placed
<1>5. CASE platform = "web" /\ (WebEnd(c) \/ WebRelease(c))
  BY <1>1, <1>2, <1>5, CallTypes DEF WebEnd, WebRelease, Releasing, Settle, Pcs, Placed
<1>6. CASE platform = "electron" /\ ElectronCompletion(c)
  <2>1. Op(c) = "completion" /\ Pc(c) # "done" /\ Found(c) \in Contexts
    BY <1>6, CallTypes DEF ElectronCompletion, Called
  <2>2. Form(c) \in {"chat", "prompt", "none"}
    BY CallTypes DEF Form, Kind
  <2> QED BY <1>2, <1>6, <2>1, <2>2 DEF ElectronCompletion, Settle, Run, Pcs, Placed
<1>7. CASE platform = "electron" /\ (ChatHistory(c) \/ Throw(c) \/ EndChat(c) \/ EndEvaluation(c))
  <2>1. Context(c) \in Contexts
    BY CallTypes
  <2> QED BY <1>2, <1>7, <2>1 DEF ChatHistory, Throw, EndChat, EndEvaluation, Settle, Run, Pcs, Placed, PlaceInv
<1>8. CASE platform = "electron" /\ (ElectronRelease(c) \/ Released(c))
  BY <1>1, <1>8 DEF ElectronRelease, Released, Releasing, Releases, Pcs, Placed
<1>9. CASE platform = "electron" /\ Disposed(c)
  <2>1. Moved(c, "disposing", Context(c), Id(c)) /\ Context(c) \in Contexts
    BY <1>9, Goes, CallTypes DEF Disposed
  <2> QED BY <1>9, <2>1 DEF Disposed, PlaceInv, Placed, Pcs
<1> QED BY <1>3, <1>4, <1>5, <1>6, <1>7, <1>8, <1>9 DEF Act

(* Without takes one listener out, the given one if it is there.           *)
Once == \A i, j \in DOMAIN listeners : listeners[i] = listeners[j] => i = j

LEMMA WithoutProperties ==
  ASSUME NEW S, listeners \in Seq(S), NEW c
  PROVE  /\ Without(c) \in Seq(S)
         /\ \A j \in DOMAIN Without(c) : \E k \in DOMAIN listeners : Without(c)[j] = listeners[k]
         /\ Once => /\ \A i, j \in DOMAIN Without(c) : Without(c)[i] = Without(c)[j] => i = j
                    /\ \A j \in DOMAIN Without(c) : Without(c)[j] # c
         /\ (\E i \in DOMAIN listeners : listeners[i] = c) =>
              \A k \in DOMAIN listeners : listeners[k] # c =>
                \E j \in DOMAIN Without(c) : Without(c)[j] = listeners[k]
<1>0. DOMAIN listeners = 1 .. Len(listeners) /\ Len(listeners) \in Nat
  OBVIOUS
<1>1. CASE listeners = <<>>
  <2>1. Without(c) = RemoveAt(<<>>, 0)
    BY <1>1 DEF Without
  <2>2. SubSeq(<<>>, 1, 0 - 1) = <<>> /\ SubSeq(<<>>, 0 + 1, 0) = <<>> /\ Len(<<>>) = 0
    BY SubSeqEmpty
  <2>3. Without(c) = <<>> \o <<>>
    BY <2>1, <2>2 DEF RemoveAt
  <2>4. <<>> \o <<>> = <<>>
    OBVIOUS
  <2> QED BY <1>1, <2>3, <2>4
<1>2. CASE listeners # <<>>
  <2> DEFINE there == \E i \in DOMAIN listeners : listeners[i] = c
             i == IF there THEN CHOOSE k \in DOMAIN listeners : listeners[k] = c ELSE Len(listeners)
  <2>1. /\ i \in 1 .. Len(listeners) /\ Without(c) = RemoveAt(listeners, i)
        /\ there => listeners[i] = c
    BY <1>0, <1>2 DEF Without
  <2> HIDE DEF i
  <2>2. /\ Without(c) \in Seq(S) /\ DOMAIN Without(c) = 1 .. Len(listeners) - 1
        /\ \A j \in 1 .. Len(listeners) - 1 :
             Without(c)[j] = IF j < i THEN listeners[j] ELSE listeners[j + 1]
    <3>1. RemoveAt(listeners, i) \in Seq(S) /\ Len(RemoveAt(listeners, i)) = Len(listeners) - 1
      BY <2>1, RemoveAtProperties
    <3>2. \A j \in 1 .. Len(listeners) - 1 :
            RemoveAt(listeners, i)[j] = IF j < i THEN listeners[j] ELSE listeners[j + 1]
      BY <2>1, RemoveAtProperties
    <3>3. DOMAIN RemoveAt(listeners, i) = 1 .. Len(listeners) - 1
      BY <3>1
    <3> QED BY <2>1, <3>1, <3>2, <3>3
  <2> DEFINE k(j) == IF j < i THEN j ELSE j + 1
  <2>3. \A j \in DOMAIN Without(c) : k(j) \in DOMAIN listeners /\ k(j) # i /\ Without(c)[j] = listeners[k(j)]
    BY <1>0, <2>1, <2>2
  <2>4. \A j, m \in DOMAIN Without(c) : k(j) = k(m) => j = m
    BY <1>0, <2>1, <2>2
  <2>5. \A m \in DOMAIN listeners : m # i => \E j \in DOMAIN Without(c) : k(j) = m
    <3>1. ASSUME NEW m \in DOMAIN listeners, m # i PROVE \E j \in DOMAIN Without(c) : k(j) = m
      <4>1. CASE m < i
        <5>1. m \in DOMAIN Without(c) /\ k(m) = m
          BY <1>0, <2>1, <2>2, <4>1
        <5> QED BY <5>1
      <4>2. CASE ~(m < i)
        <5>1. m - 1 \in DOMAIN Without(c) /\ k(m - 1) = m
          BY <1>0, <2>1, <2>2, <3>1, <4>2
        <5> QED BY <5>1
      <4> QED BY <4>1, <4>2
    <3> QED BY <3>1
  <2> HIDE DEF k
  <2>6. ASSUME Once, NEW j \in DOMAIN Without(c) PROVE Without(c)[j] # c
    <3>1. CASE there
      BY <1>0, <2>1, <2>3, <2>6, <3>1 DEF Once
    <3>2. CASE ~there
      BY <2>3, <3>2
    <3> QED BY <3>1, <3>2
  <2>7. ASSUME Once, NEW j \in DOMAIN Without(c), NEW m \in DOMAIN Without(c), Without(c)[j] = Without(c)[m]
        PROVE  j = m
    BY <2>3, <2>4, <2>7 DEF Once
  <2>8. ASSUME there, NEW m \in DOMAIN listeners, listeners[m] # c
        PROVE  \E j \in DOMAIN Without(c) : Without(c)[j] = listeners[m]
    BY <2>1, <2>3, <2>5, <2>8
  <2> QED BY <2>2, <2>3, <2>6, <2>7, <2>8
<1> QED BY <1>1, <1>2

(* What each step changes.                                                 *)
LEMMA Effects ==
  ASSUME Types, NEW c \in Made, Act(c)
  PROVE  /\ \/ UNCHANGED <<contexts, alive, disposing>>
            \/ FinishLoad(c) \/ WebRelease(c)
            \/ platform = "electron" /\ (ElectronRelease(c) \/ Disposed(c))
         /\ UNCHANGED aborted \/ StopCompletion(c)
         /\ UNCHANGED <<cleared, stranded>>
         /\ UNCHANGED listeners \/ Listen(c) \/ listeners' = Without(c)
         /\ failed' \in {failed, failed \cup {c}}
         /\ \/ UNCHANGED controllers
            \/ Op(c) = "completion" /\ controllers' = [controllers EXCEPT ![Id(c)] = c]
            \/ /\ (platform = "web" /\ WebEnd(c)) \/ (platform = "electron" /\ EndChat(c))
               /\ Op(c) = "completion" /\ controllers' = [controllers EXCEPT ![Id(c)] = NoContext]
            \/ WebRelease(c) \/ ElectronRelease(c) \/ Disposed(c)
<1> USE DEF Id
<1>1. CASE StartLoad(c)
  BY <1>1 DEF StartLoad, lib
<1>2. CASE FinishLoad(c)
  BY <1>2 DEF FinishLoad
<1>3. CASE StopCompletion(c)
  BY <1>3 DEF StopCompletion
<1>4. CASE Tokenize(c)
  BY <1>4 DEF Tokenize, lib
<1>5. CASE Listen(c)
  BY <1>5 DEF Listen
<1>6. CASE WebCompletion(c)
  BY <1>6 DEF WebCompletion, Settle, Run, Called, At
<1>7. CASE platform = "web" /\ WebEnd(c)
  <2>1. Op(c) = "completion" /\ controllers' = [controllers EXCEPT ![Id(c)] = NoContext]
    BY <1>7 DEF WebEnd, At
  <2>2. UNCHANGED <<contexts, alive, disposing, aborted, cleared, failed, stranded>>
    BY <1>7 DEF WebEnd, Settle
  <2>3. UNCHANGED listeners \/ listeners' = Without(c)
    BY <1>7 DEF WebEnd, Settle
  <2> QED BY <1>7, <2>1, <2>2, <2>3
<1>8. CASE WebRelease(c)
  BY <1>8 DEF WebRelease
<1>9. CASE ElectronCompletion(c)
  <2>1. Op(c) = "completion" /\ controllers' = [controllers EXCEPT ![Id(c)] = c]
    BY <1>9 DEF ElectronCompletion, Called, At
  <2>2. \/ \E h : Settle(c, h) /\ failed' \in {failed, failed \cup {c}}
        \/ \E pc, h : Run(c, pc, h)
    <3>1. CASE ~HasSequence(Found(c)) /\ Settle(c, Found(c)) /\ UNCHANGED <<sequences, failed>>
      BY <3>1
    <3>2. CASE Form(c) = "chat" /\ Run(c, "history", Found(c))
      BY <3>2
    <3>3. CASE Form(c) = "prompt" /\ Run(c, "evaluating", Found(c))
      BY <3>3
    <3>4. CASE Form(c) = "none" /\ Settle(c, Found(c)) /\ failed' = failed \cup {c}
      BY <3>4
    <3>5. Form(c) \in {"chat", "prompt", "none"}
      BY CallTypes DEF Form, Kind
    <3> QED BY <1>9, <3>1, <3>2, <3>3, <3>4, <3>5 DEF ElectronCompletion
  <2> QED BY <2>1, <2>2 DEF Settle, Run
<1>10. CASE ChatHistory(c)
  BY <1>10 DEF ChatHistory, Run
<1>11. CASE Throw(c)
  BY <1>11 DEF Throw, Settle, At
<1>12. CASE platform = "electron" /\ EndChat(c)
  <2>1. Op(c) = "completion" /\ controllers' = [controllers EXCEPT ![Id(c)] = NoContext]
    BY <1>12 DEF EndChat, At
  <2>2. UNCHANGED <<contexts, alive, disposing, aborted, cleared, failed, stranded>>
    BY <1>12 DEF EndChat, Settle
  <2>3. UNCHANGED listeners \/ listeners' = Without(c)
    BY <1>12 DEF EndChat, Settle
  <2> QED BY <1>12, <2>1, <2>2, <2>3
<1>13. CASE EndEvaluation(c)
  BY <1>13 DEF EndEvaluation, Settle, At
<1>14. CASE platform = "electron" /\ ElectronRelease(c)
  BY <1>14 DEF ElectronRelease
<1>15. CASE platform = "electron" /\ Disposed(c)
  BY <1>15 DEF Disposed
<1>16. CASE Released(c)
  BY <1>16 DEF Released
<1> QED BY <1>1, <1>2, <1>3, <1>4, <1>5, <1>6, <1>7, <1>8, <1>9, <1>10, <1>11, <1>12, <1>13, <1>14, <1>15, <1>16 DEF Act

LEMMA TypesAct ==
  ASSUME Types, PlaceInv, NEW c \in Made, Act(c)
  PROVE  Types' /\ PlaceInv'
<1>0. /\ ~Over(c) /\ c \in Calls
      /\ Op(c) # "releaseAllContexts" => Id(c) \in Ids
  BY CallTypes, Moves
<1>1. PICK pc \in Pcs \ {"sent"}, h \in Contexts : Moved(c, pc, h, Id(c)) /\ Placed(c, pc)
  BY Moves
<1>2. UNCHANGED <<contextCounter, own, platform>> /\ Id(c) \in Ids \cup {NoId}
  BY CallTypes DEF Act
<1>3. JsInv(Pcs)'
  BY <1>0, <1>1, <1>2, JsMoved DEF Types
<1>4. PlaceInv'
  BY <1>1, <1>2, Frame DEF PlaceInv, Placed
<1>5. \A ids : Drop(contexts, ids) \in [Ids -> Contexts] /\ Drop(controllers, ids) \in [Ids -> Contexts]
  BY DEF Drop, Types, Contexts
<1>6. Without(c) \in Seq(Calls) /\ Append(listeners, c) \in Seq(Calls)
  BY <1>0, WithoutProperties DEF Types
<1>7. Made' = Made /\ c \in Contexts /\ NoContext \in Contexts
  BY <1>0, <1>1, Frame DEF Contexts
<1>8. contexts' \in [Ids -> Contexts] /\ alive' \subseteq Calls /\ disposing' \in [Calls -> SUBSET Ids]
  <2>1. CASE FinishLoad(c)
    BY <1>0, <1>7, <2>1 DEF FinishLoad, Types
  <2>2. CASE WebRelease(c)
    BY <1>5, <2>2 DEF WebRelease, Types
  <2>3. CASE ElectronRelease(c)
    <3>1. Keys(c) \subseteq Ids
      BY DEF Keys
    <3> QED BY <1>5, <2>3, <3>1 DEF ElectronRelease, Types
  <2>4. CASE Disposed(c)
    <3>1. contexts' \in [Ids -> Contexts] /\ alive' = alive
      BY <1>5, <2>4 DEF Disposed, Types
    <3>2. disposing' \in [Calls -> SUBSET Ids]
      <4>1. PICK i \in disposing[c] : disposing' = [disposing EXCEPT ![c] = @ \ {i}]
        BY <2>4 DEF Disposed
      <4> QED BY <1>0, <4>1 DEF Types
    <3> QED BY <3>1, <3>2 DEF Types
  <2> QED BY <2>1, <2>2, <2>3, <2>4, Effects DEF Types
<1>9. controllers' \in [Ids -> Contexts]
  <2>1. CASE WebRelease(c) \/ ElectronRelease(c) \/ Disposed(c)
    BY <1>5, <2>1, ZenonT(60) DEF WebRelease, ElectronRelease, Disposed, Types
  <2>2. ASSUME NEW g \in {c, NoContext}, controllers' = [controllers EXCEPT ![Id(c)] = g]
        PROVE  controllers' \in [Ids -> Contexts]
    BY <1>7, <2>2 DEF Types
  <2> QED BY <2>1, <2>2, Effects DEF Types
<1>10. aborted' \subseteq Calls
  <2>1. CASE StopCompletion(c)
    <3>1. Id(c) \in Ids
      BY <1>0, <2>1 DEF StopCompletion, At
    <3>2. controllers[Id(c)] \in Contexts
      BY <3>1 DEF Types
    <3> QED BY <2>1, <3>2 DEF StopCompletion, Types, Contexts, Id
  <2> QED BY <2>1, Effects DEF Types
<1>11. listeners' \in Seq(Calls)
  BY <1>6, Effects DEF Types, Listen
<1>12. cleared' \subseteq Made' /\ failed' \subseteq Made' /\ stranded' \subseteq Made'
  BY <1>7, Effects DEF Types
<1> QED
  BY <1>2, <1>3, <1>4, <1>8, <1>9, <1>10, <1>11, <1>12 DEF Types

LEMMA SentFrame ==
  ASSUME Types, Application
  PROVE  /\ JsInv(Pcs)' /\ UNCHANGED <<contextCounter, own, lib>>
         /\ \E n \in Calls, op \in Ops :
              /\ Made' = Made \cup {n} /\ n \notin Made /\ \A d \in Made : d < n
              /\ \A d \in Made : calls'[d] = calls[d]
              /\ calls'[n].op = op /\ calls'[n].pc = "sent" /\ calls'[n].context = NoContext
              /\ calls'[n].during = {d \in Made : ~Over(d)}
              /\ op = "initContext" => calls'[n].id = contextCounter
<1>0. CallsInv(Pcs) /\ JsInv(Pcs) /\ "sent" \in Pcs /\ NoKind \in Kind
  BY DEF Types, JsInv, Pcs, NoKind, Kind
<1>1. JsInv(Pcs)'
  BY <1>0, JsLoad, JsReleaseAll, JsUse DEF Application
<1>2. UNCHANGED <<contextCounter, own, lib>>
  BY DEF Application, Load, ReleaseAll, Use
<1>3. PICK op, k, kind : op \in Ops /\ Send(op, k, kind) /\ (op = "initContext" => k = contextCounter)
  BY DEF Application, Load, ReleaseAll, Use, Ops
<1>4. Len(calls) + 1 \in Calls
  BY <1>0, <1>3, SendFrame
<1>5. /\ Made' = Made \cup {Len(calls) + 1} /\ Len(calls) + 1 \notin Made
      /\ \A d \in Made : d < Len(calls) + 1 /\ calls'[d] = calls[d]
      /\ calls'[Len(calls) + 1].op = op /\ calls'[Len(calls) + 1].pc = "sent"
      /\ calls'[Len(calls) + 1].id = k /\ calls'[Len(calls) + 1].context = NoContext
      /\ calls'[Len(calls) + 1].during = {d \in Made : ~Over(d)}
  BY <1>0, <1>3, SendFrame
<1> QED BY <1>1, <1>2, <1>3, <1>4, <1>5

LEMMA CloseFrame ==
  ASSUME Types, NEW c \in Made, Close(c)
  PROVE  /\ JsInv(Pcs)' /\ UNCHANGED Rest
         /\ Op(c) = "initContext" /\ Pc(c) = "loaded" /\ Moved(c, "done", Context(c), Id(c))
         /\ \/ /\ stranded' = stranded
               /\ Len(own') = Len(own) + 1 /\ own'[Len(own) + 1] = c
            \/ platform = "web" /\ stranded' = stranded \cup {c} /\ own' = own
         /\ Len(own) \in Nat /\ Len(own') >= Len(own)
         /\ \A k \in 1 .. Len(own) : own'[k] = own[k]
<1>0. JsInv(Pcs) /\ CallsInv(Pcs) /\ "done" \in Pcs /\ own \in Seq(Calls) /\ c \in Calls
  BY CallTypes DEF Types, JsInv, Pcs, OwnInv
<1>1. CASE Answer(c)
  <2>1. LoadAnswered(c) /\ UNCHANGED lib
    BY <1>1 DEF Answer
  <2>2. JsInv(Pcs)'
    BY <1>0, <2>1, JsAnswered
  <2>3. Moved(c, "done", Context(c), Id(c))
    BY <1>0, <2>1, AnsweredMoves DEF Context, Id
  <2>4. own' = Append(own, c)
    BY <2>1 DEF LoadAnswered
  <2>5. /\ Len(own') = Len(own) + 1 /\ own'[Len(own) + 1] = c
        /\ Len(own) \in Nat /\ Len(own') >= Len(own) /\ \A k \in 1 .. Len(own) : own'[k] = own[k]
    BY <1>0, <2>4
  <2> QED BY <2>1, <2>2, <2>3, <2>5 DEF LoadAnswered, lib, Rest, Pc
<1>2. CASE Fail(c)
  <2>1. /\ platform = "web" /\ Op(c) = "initContext" /\ Pc(c) = "loaded" /\ SetPc(c, "done")
        /\ stranded' = stranded \cup {c} /\ UNCHANGED <<contextCounter, own>> /\ UNCHANGED Rest
    BY <1>2 DEF Fail, FailStored, At, Pc, Rest
  <2>2. Moved(c, "done", Context(c), Id(c))
    BY <1>0, <2>1, Goes
  <2>3. JsInv(Pcs)'
    <3>1. ~Over(c) /\ Context(c) \in Contexts /\ Id(c) \in Ids \cup {NoId}
      BY <2>1, CallTypes DEF Over, Pc
    <3> QED BY <1>0, <2>1, <2>2, <3>1, JsMoved
  <2> QED BY <1>0, <2>1, <2>2, <2>3
<1> QED BY <1>1, <1>2 DEF Close

-----------------------------------------------------------------------------
(* Stops.  A release takes only the controllers of its own id.             *)
OtherCompletion(c, d) ==
  /\ Op(d) = "completion" /\ Id(d) = Id(c) /\ Overlap(c, d)
  /\ controllers[Id(c)] = d \/ (Over(d) /\ Deletes(d))
ItsRelease(c, d) ==
  /\ Overlap(c, d)
  /\ Op(d) = "releaseAllContexts" \/ (Op(d) = "releaseContext" /\ Id(d) = Id(c))
Reached(c) ==
  controllers[Id(c)] = c \/ \E d \in Made : OtherCompletion(c, d) \/ ItsRelease(c, d)

ControlInv ==
  /\ \A c \in Made : Running(c) => Reached(c)
  /\ \A c \in Made : Op(c) = "releaseContext" /\ Pc(c) = "disposing" => disposing[c] \subseteq {Id(c)}

LEMMA ReachedStays ==
  ASSUME Types, NEW c \in Made, NEW pc, NEW h, Moved(c, pc, h, Id(c)), ~Over(c), platform' = platform,
         NEW d \in Made, controllers'[Id(d)] = controllers[Id(d)], Reached(d)
  PROVE  Reached(d)'
<1>1. /\ Made' = Made
      /\ \A e \in Made : /\ Op(e)' = Op(e) /\ Id(e)' = Id(e) /\ Form(e)' = Form(e)
                         /\ Over(e) => Over(e)'
      /\ \A e \in Made : Overlap(d, e)' <=> Overlap(d, e)
  BY Frame
<1>2. \A e \in Made : OtherCompletion(d, e) => OtherCompletion(d, e)'
  BY <1>1 DEF OtherCompletion, Deletes
<1>3. \A e \in Made : ItsRelease(d, e) => ItsRelease(d, e)'
  BY <1>1 DEF ItsRelease
<1> QED BY <1>1, <1>2, <1>3 DEF Reached

LEMMA ControlAct ==
  ASSUME Types, PlaceInv, ControlInv, NEW c \in Made, Act(c)
  PROVE  ControlInv'
<1>0. PICK pc \in Pcs \ {"sent"}, h \in Contexts : Moved(c, pc, h, Id(c)) /\ Placed(c, pc)
  BY Moves
<1>1. /\ Made' = Made /\ ~Over(c) /\ Pc(c) # "done" /\ platform' = platform
      /\ \A d \in Made : /\ Op(d)' = Op(d) /\ Id(d)' = Id(d) /\ Form(d)' = Form(d)
                         /\ d # c => Pc(d)' = Pc(d) /\ (Over(d)' <=> Over(d))
      /\ Pc(c)' = pc
      /\ \A d, e \in Made : Overlap(d, e)' <=> Overlap(d, e)
  BY <1>0, Frame, Moves DEF Act
<1>2. \A d \in Made : controllers'[Id(d)] = controllers[Id(d)] /\ Reached(d) => Reached(d)'
  BY <1>0, <1>1, ReachedStays
<1>3. \A d \in Made : Op(d) = "completion" => Id(d) \in Ids
  BY CallTypes
<1>4. ASSUME NEW d \in Made, d # c, Running(d)' PROVE Reached(d)'
  <2>1. Op(d) = "completion" /\ Running(d) /\ Reached(d) /\ ~Over(d) /\ Id(d) \in Ids
    BY <1>1, <1>3, <1>4 DEF Running, ControlInv, Over, Pc
  <2>2. Overlap(d, c) /\ Overlap(d, c)'
    <3>1. Overlap(d, c)
      BY <1>1, <1>4, <2>1, InFlight DEF Types, JsInv
    <3> QED BY <1>1, <3>1
  <2>3. CASE UNCHANGED controllers
    BY <1>2, <2>1, <2>3
  <2>4. CASE Op(c) = "completion" /\ controllers' = [controllers EXCEPT ![Id(c)] = c]
    <3>1. CASE Id(d) = Id(c)
      <4>1. controllers'[Id(d)] = c
        BY <2>1, <2>4, <3>1 DEF Types
      <4>2. OtherCompletion(d, c)'
        BY <1>1, <2>2, <2>4, <3>1, <4>1 DEF OtherCompletion
      <4> QED BY <1>1, <4>2 DEF Reached
    <3>2. CASE Id(d) # Id(c)
      BY <1>2, <2>1, <2>4, <3>2 DEF Types
    <3> QED BY <3>1, <3>2
  <2>5. CASE /\ (platform = "web" /\ WebEnd(c)) \/ (platform = "electron" /\ EndChat(c))
             /\ Op(c) = "completion" /\ controllers' = [controllers EXCEPT ![Id(c)] = NoContext]
    <3>1. CASE Id(d) = Id(c)
      <4>1. Pc(c) = "running" /\ Deletes(c)
        BY <2>5 DEF WebEnd, EndChat, At, PlaceInv, Placed, Pc, Deletes, Releases
      <4>2. Over(c)'
        BY <2>5, Arrives DEF WebEnd, EndChat, Settle, Over, Pc
      <4>3. OtherCompletion(d, c)'
        BY <1>1, <2>2, <2>5, <3>1, <4>1, <4>2 DEF OtherCompletion, Deletes
      <4> QED BY <1>1, <4>3 DEF Reached
    <3>2. CASE Id(d) # Id(c)
      BY <1>2, <2>1, <2>5, <3>2 DEF Types
    <3> QED BY <3>1, <3>2
  <2>6. ASSUME NEW K \in SUBSET Ids, controllers' = Drop(controllers, K),
               \A i \in K : Op(c) = "releaseAllContexts" \/ (Op(c) = "releaseContext" /\ i = Id(c))
        PROVE  Reached(d)'
    <3>1. CASE Id(d) \in K
      <4>1. ItsRelease(d, c)'
        BY <1>1, <2>2, <2>6, <3>1 DEF ItsRelease
      <4> QED BY <1>1, <4>1 DEF Reached
    <3>2. CASE Id(d) \notin K
      BY <1>2, <2>1, <2>6, <3>2 DEF Drop
    <3> QED BY <3>1, <3>2
  <2>7. CASE WebRelease(c)
    <3>1. Op(c) \in Releases /\ controllers' = Drop(controllers, Keys(c))
      BY <2>7 DEF WebRelease, Releasing, At, Releases
    <3>2. Keys(c) \in SUBSET Ids
      BY DEF Keys
    <3>3. \A i \in Keys(c) : Op(c) = "releaseAllContexts" \/ (Op(c) = "releaseContext" /\ i = Id(c))
      BY <3>1 DEF Keys, Releases, Id
    <3> QED BY <2>6, <3>1, <3>2, <3>3
  <2>8. CASE Disposed(c)
    <3>1. Pc(c) = "disposing" /\ Op(c) \in Releases /\ c \in Calls
      BY <2>8, CallTypes DEF Disposed, PlaceInv, Placed, Pc
    <3>2. PICK i \in disposing[c] : controllers' = Drop(controllers, {i}) \/ UNCHANGED controllers
      BY <2>8 DEF Disposed
    <3>3. {i} \in SUBSET Ids
      BY <3>1, <3>2 DEF Types
    <3>4. Op(c) = "releaseAllContexts" \/ (Op(c) = "releaseContext" /\ i = Id(c))
      BY <3>1, <3>2 DEF ControlInv, Releases
    <3> QED BY <2>3, <2>6, <3>2, <3>3, <3>4
  <2>9. CASE ElectronRelease(c)
    <3>1. Op(c) \in Releases /\ controllers' = Drop(controllers, Forgotten(c))
      BY <2>9 DEF ElectronRelease, Releasing, At, Releases
    <3>2. Forgotten(c) \in SUBSET Ids
      BY DEF Forgotten, Keys
    <3>3. \A i \in Forgotten(c) : Op(c) = "releaseAllContexts" \/ (Op(c) = "releaseContext" /\ i = Id(c))
      BY <3>1 DEF Forgotten, Keys, Releases, Id
    <3> QED BY <2>6, <3>1, <3>2, <3>3
  <2> QED BY <2>3, <2>4, <2>5, <2>7, <2>8, <2>9, Effects
<1>5. ASSUME Running(c)' PROVE Reached(c)'
  <2>1. Op(c) = "completion" /\ Id(c) \in Ids /\ pc # "done"
    BY <1>1, <1>3, <1>5 DEF Running, Pc
  <2>2. CASE controllers' = [controllers EXCEPT ![Id(c)] = c]
    <3>1. controllers'[Id(c)] = c
      BY <2>1, <2>2 DEF Types
    <3> QED BY <1>1, <2>1, <3>1 DEF Reached
  <2>3. CASE ChatHistory(c)
    <3>1. Reached(c) /\ UNCHANGED controllers
      BY <2>3 DEF ChatHistory, ControlInv, Running, At
    <3> QED BY <1>2, <3>1
  <2>4. CASE Listen(c)
    <3>1. pc = "calling"
      BY <1>1, <2>4, Arrives DEF Listen
    <3> QED BY <1>1, <1>5, <3>1 DEF Running, Pc
  <2>5. ASSUME NEW g, Settle(c, g) PROVE FALSE
    <3>1. pc = "done"
      BY <1>1, <2>5, Arrives DEF Settle
    <3> QED BY <2>1, <3>1
  <2> QED BY <2>1, <2>2, <2>3, <2>4, <2>5
     DEF Act, StartLoad, FinishLoad, StopCompletion, Tokenize, WebCompletion, WebEnd, WebRelease, ElectronCompletion,
         Throw, EndChat, EndEvaluation, ElectronRelease, Disposed, Released, At, Releasing, Id, PlaceInv, Placed, Pc, Releases
<1>6. ASSUME NEW d \in Made, Op(d) = "releaseContext", Pc(d)' = "disposing"
      PROVE  disposing'[d] \subseteq {Id(d)}
  <2>1. CASE ElectronRelease(c)
    <3>1. Keys(c) \subseteq Ids /\ (Op(c) = "releaseContext" => Keys(c) \subseteq {Id(c)}) /\ d \in Calls /\ c \in Calls
      BY CallTypes DEF Keys, Id
    <3> QED BY <1>1, <1>6, <2>1, <3>1 DEF ElectronRelease, ControlInv, Types
  <2>2. CASE Disposed(c)
    <3>1. PICK i \in disposing[c] : disposing' = [disposing EXCEPT ![c] = @ \ {i}]
      BY <2>2 DEF Disposed
    <3>2. disposing'[d] \subseteq disposing[d] /\ Pc(c) = "disposing"
      BY <2>2, <3>1, CallTypes DEF Types, Disposed, Pc
    <3> QED BY <1>1, <1>6, <3>2 DEF ControlInv
  <2>3. CASE ~ElectronRelease(c) /\ ~Disposed(c)
    <3>1. UNCHANGED disposing
      BY <2>3, Effects DEF FinishLoad, WebRelease
    <3>2. Pc(d) = "disposing"
      <4>1. ASSUME d = c PROVE FALSE
        <5>1. Released(c) \/ WebRelease(c)
          BY <1>6, <2>3, <4>1 DEF Act, StartLoad, FinishLoad, StopCompletion, Tokenize, Listen, WebCompletion, WebEnd,
             ElectronCompletion, ChatHistory, Throw, EndChat, EndEvaluation, Called, At
        <5>2. pc = "done"
          BY <1>1, <5>1, Arrives DEF Released, WebRelease
        <5> QED BY <1>1, <1>6, <4>1, <5>2
      <4> QED BY <1>1, <1>6, <4>1
    <3> QED BY <1>6, <3>1, <3>2 DEF ControlInv
  <2> QED BY <2>1, <2>2, <2>3
<1>7. \A d \in Made' : Op(d)' = "releaseContext" /\ Pc(d)' = "disposing" => disposing'[d] \subseteq {Id(d)'}
  BY <1>1, <1>6
<1> QED BY <1>1, <1>4, <1>5, <1>7 DEF ControlInv

LEMMA ControlSent ==
  ASSUME Types, ControlInv, Application
  PROVE  ControlInv'
<1>1. UNCHANGED lib
  BY SentFrame
<1>2. PICK n \in Calls, op \in Ops :
        /\ Made' = Made \cup {n} /\ \A d \in Made : calls'[d] = calls[d]
        /\ calls'[n].pc = "sent"
  BY SentFrame
<1>3. ASSUME NEW d \in Made, Reached(d) PROVE Reached(d)'
  <2>1. \A e \in Made : OtherCompletion(d, e) => OtherCompletion(d, e)'
    BY <1>1, <1>2 DEF OtherCompletion, Op, Id, Overlap, Over, Deletes, Form, lib
  <2>2. \A e \in Made : ItsRelease(d, e) => ItsRelease(d, e)'
    BY <1>2 DEF ItsRelease, Op, Id, Overlap
  <2> QED BY <1>1, <1>2, <1>3, <2>1, <2>2 DEF Reached, Id, lib
<1>4. \A d \in Made : Running(d)' => Running(d)
  BY <1>2 DEF Running, Op
<1>5. ~Running(n)' /\ Pc(n)' # "disposing"
  BY <1>2 DEF Running, Pc
<1> QED BY <1>1, <1>2, <1>3, <1>4, <1>5 DEF ControlInv, Op, Pc, Id, lib

LEMMA ControlClose ==
  ASSUME Types, ControlInv, NEW c \in Made, Close(c)
  PROVE  ControlInv'
<1>1. UNCHANGED Rest /\ Op(c) = "initContext" /\ Pc(c) = "loaded" /\ Moved(c, "done", Context(c), Id(c))
  BY CloseFrame
<1>2. ~Over(c) /\ platform' = platform /\ controllers' = controllers /\ disposing' = disposing
  BY <1>1 DEF Over, Pc, Rest
<1>3. /\ Made' = Made
      /\ \A d \in Made : Op(d)' = Op(d) /\ Id(d)' = Id(d) /\ (d # c => Pc(d)' = Pc(d))
  BY <1>1, Frame
<1>4. \A d \in Made : Reached(d) => Reached(d)'
  BY <1>1, <1>2, ReachedStays
<1>5. \A d \in Made : Running(d)' => Running(d)
  BY <1>1, <1>3 DEF Running, Pc
<1> QED BY <1>1, <1>2, <1>3, <1>4, <1>5 DEF ControlInv

-----------------------------------------------------------------------------
(* Listeners: each is there once, which is why a completion that finds its *)
(* own takes no other.                                                     *)
There(c) == \E i \in DOMAIN listeners : listeners[i] = c

ListenInv ==
  /\ Once
  /\ \A i \in DOMAIN listeners : \E d \in Made : listeners[i] = d /\ Listening(d)
  /\ \A c \in Made : Listening(c) => There(c) \/ c \in cleared \/ \E d \in cleared : Over(d)

LEMMA ListenEffects ==
  ASSUME Types, PlaceInv, NEW c \in Made, Act(c)
  PROVE  \/ Listen(c)
         \/ Listening(c) /\ Pc(c)' = "done" /\ listeners' = Without(c)
         \/ UNCHANGED listeners /\ (Listening(c)' <=> Listening(c))
<1>0. PICK pc, h : Moved(c, pc, h, Id(c))
  BY Moves
<1>1. Op(c)' = Op(c) /\ OnToken(c)' = OnToken(c)
  BY <1>0, Frame
<1>2. CASE Op(c) # "completion"
  <2>1. UNCHANGED listeners \/ Listen(c)
    BY <1>2 DEF Act, StartLoad, FinishLoad, StopCompletion, Tokenize, WebCompletion, WebEnd, WebRelease,
       ElectronCompletion, ChatHistory, Throw, EndChat, EndEvaluation, ElectronRelease, Disposed,
       Released, Called, At, lib
  <2> QED BY <1>1, <1>2, <2>1 DEF Listening
<1>3. CASE Op(c) = "completion"
  <2>1. ASSUME NEW g, Settle(c, g), Pc(c) # "done", Pc(c) # "sent" \/ ~OnToken(c)
        PROVE  \/ Listening(c) /\ Pc(c)' = "done" /\ listeners' = Without(c)
               \/ UNCHANGED listeners /\ (Listening(c)' <=> Listening(c))
    <3>1. Pc(c)' = "done"
      BY <2>1, Arrives DEF Settle
    <3> QED BY <1>1, <1>3, <2>1, <3>1 DEF Settle, Listening, Pc
  <2>2. ASSUME NEW g, NEW q, Run(c, q, g), q \notin {"sent", "done"}, Pc(c) # "done", Pc(c) # "sent" \/ ~OnToken(c)
        PROVE  UNCHANGED listeners /\ (Listening(c)' <=> Listening(c))
    <3>1. Pc(c)' = q
      BY <2>2, Arrives DEF Run
    <3> QED BY <1>1, <1>3, <2>2, <3>1 DEF Run, Listening, Pc
  <2>3. CASE WebCompletion(c) \/ ElectronCompletion(c)
    <3>1. Pc(c) # "done" /\ (Pc(c) # "sent" \/ ~OnToken(c))
      BY <2>3 DEF WebCompletion, ElectronCompletion, Called, At, Pc
    <3>2. (\E g : Settle(c, g)) \/ \E g, q : Run(c, q, g) /\ q \notin {"sent", "done"}
      <4>1. CASE WebCompletion(c)
        BY <4>1 DEF WebCompletion
      <4>2. CASE ElectronCompletion(c)
        <5>1. Form(c) \in {"chat", "prompt", "none"}
          BY CallTypes DEF Form, Kind
        <5>2. CASE Settle(c, Found(c))
          BY <5>2
        <5>3. CASE Form(c) = "chat" /\ Run(c, "history", Found(c))
          BY <5>3
        <5>4. CASE Form(c) = "prompt" /\ Run(c, "evaluating", Found(c))
          BY <5>4
        <5> QED BY <4>2, <5>1, <5>2, <5>3, <5>4 DEF ElectronCompletion
      <4> QED BY <2>3, <4>1, <4>2
    <3> QED BY <2>1, <2>2, <3>1, <3>2
  <2>4. CASE WebEnd(c) \/ Throw(c) \/ EndChat(c) \/ EndEvaluation(c)
    <3>1. Pc(c) \notin {"sent", "done"} /\ \E g : Settle(c, g)
      BY <2>4 DEF WebEnd, Throw, EndChat, EndEvaluation, At, Pc
    <3> QED BY <2>1, <3>1
  <2>5. CASE ChatHistory(c)
    <3>1. Pc(c) \notin {"sent", "done"} /\ Run(c, "running", Context(c))
      BY <2>5 DEF ChatHistory, At, Pc
    <3> QED BY <2>2, <3>1
  <2> QED BY <1>3, <2>3, <2>4, <2>5 DEF Act, StartLoad, FinishLoad, StopCompletion, Tokenize, WebRelease,
       ElectronRelease, Disposed, Released, Releasing, Releases, At, PlaceInv, Placed, Pc
<1> QED BY <1>2, <1>3

LEMMA ListenAct ==
  ASSUME Types, PlaceInv, ListenInv, NEW c \in Made, Act(c)
  PROVE  ListenInv'
<1>0. PICK pc, h : Moved(c, pc, h, Id(c))
  BY Moves
<1>1. /\ Made' = Made /\ ~Over(c) /\ cleared' = cleared
      /\ \A d \in Made : /\ d # c => (Over(d)' <=> Over(d)) /\ (Listening(d)' <=> Listening(d))
                         /\ Over(d) => Over(d)'
  <2>1. /\ Made' = Made
        /\ \A d \in Made : /\ d # c => Pc(d)' = Pc(d) /\ (Over(d)' <=> Over(d))
                           /\ Op(d)' = Op(d) /\ OnToken(d)' = OnToken(d)
    BY <1>0, Frame
  <2>2. ~Over(c) /\ cleared' = cleared
    BY Moves, Effects
  <2> QED BY <2>1, <2>2 DEF Listening, Pc
<1>2. DOMAIN listeners = 1 .. Len(listeners) /\ Len(listeners) \in Nat /\ cleared \subseteq Made
  BY DEF Types
<1>3. CASE Listen(c)
  <2>1. /\ listeners' = Append(listeners, c) /\ ~Listening(c) /\ Pc(c)' = "calling"
        /\ Op(c) = "completion" /\ OnToken(c)
    BY <1>3, Arrives DEF Listen, Listening, At
  <2>2. Listening(c)'
    BY <1>0, <2>1, Frame DEF Listening, Pc
  <2>3. /\ DOMAIN listeners' = 1 .. Len(listeners) + 1 /\ listeners'[Len(listeners) + 1] = c
        /\ \A i \in DOMAIN listeners : listeners'[i] = listeners[i]
    BY <2>1 DEF Types
  <2>4. \A i \in DOMAIN listeners : listeners[i] # c
    BY <2>1 DEF ListenInv
  <2>5. \A i \in DOMAIN listeners' : i \in DOMAIN listeners \/ i = Len(listeners) + 1
    BY <1>2, <2>3
  <2>6. Once'
    BY <2>3, <2>4, <2>5 DEF Once, ListenInv
  <2>7. \A d \in Made : There(d) => There(d)'
    BY <1>2, <2>3 DEF There
  <2>8. There(c)'
    BY <1>2, <2>3 DEF There
  <2>9. \A i \in DOMAIN listeners' : \E d \in Made : listeners'[i] = d /\ Listening(d)'
    BY <1>1, <2>2, <2>3, <2>4, <2>5 DEF ListenInv
  <2>10. \A d \in Made : Listening(d)' => There(d)' \/ d \in cleared' \/ \E e \in cleared' : Over(e)'
    BY <1>1, <1>2, <2>7, <2>8 DEF ListenInv
  <2> QED BY <1>1, <2>6, <2>9, <2>10 DEF ListenInv
<1>4. CASE Listening(c) /\ Pc(c)' = "done" /\ listeners' = Without(c)
  <2>1. Once' /\ (\A j \in DOMAIN listeners' : listeners'[j] # c)
        /\ \A j \in DOMAIN listeners' : \E k \in DOMAIN listeners : listeners'[j] = listeners[k]
    BY <1>4, WithoutProperties DEF ListenInv, Types, Once
  <2>2. Over(c)' /\ ~Listening(c)'
    BY <1>4 DEF Over, Listening, Pc
  <2>3. \A i \in DOMAIN listeners' : \E d \in Made : listeners'[i] = d /\ Listening(d)'
    BY <1>1, <2>1 DEF ListenInv
  <2>4. ASSUME NEW d \in Made, Listening(d)'
        PROVE  There(d)' \/ d \in cleared' \/ \E e \in cleared' : Over(e)'
    <3>1. d # c /\ Listening(d)
      BY <1>1, <2>2, <2>4
    <3>2. CASE There(d) /\ There(c)
      <4>1. There(d)'
        BY <1>4, <3>1, <3>2, WithoutProperties DEF There, Types
      <4> QED BY <4>1
    <3>3. CASE ~There(c)
      BY <1>1, <1>2, <1>4, <2>2, <3>3 DEF ListenInv
    <3>4. CASE ~There(d)
      BY <1>1, <1>2, <3>1, <3>4 DEF ListenInv
    <3> QED BY <3>2, <3>3, <3>4
  <2> QED BY <1>1, <2>1, <2>3, <2>4 DEF ListenInv
<1>5. CASE UNCHANGED listeners /\ (Listening(c)' <=> Listening(c))
  <2>1. Once' /\ \A d \in Made : (There(d)' <=> There(d)) /\ (Listening(d)' <=> Listening(d))
    BY <1>1, <1>5 DEF Once, There, ListenInv
  <2>2. \A i \in DOMAIN listeners' : \E d \in Made : listeners'[i] = d /\ Listening(d)'
    BY <1>5, <2>1 DEF ListenInv
  <2>3. \A d \in Made : Listening(d)' => There(d)' \/ d \in cleared' \/ \E e \in cleared' : Over(e)'
    BY <1>1, <1>2, <2>1 DEF ListenInv
  <2> QED BY <1>1, <2>1, <2>2, <2>3 DEF ListenInv
<1> QED BY <1>3, <1>4, <1>5, ListenEffects

LEMMA ListenOther ==
  ASSUME Types, ListenInv,
         Application \/ RemoveAllListeners \/ \E c \in Made : Close(c)
  PROVE  ListenInv'
<1>1. CASE Application
  <2>1. UNCHANGED lib
    BY <1>1, SentFrame
  <2>2. PICK n \in Calls, op \in Ops :
          /\ Made' = Made \cup {n} /\ \A d \in Made : calls'[d] = calls[d]
          /\ calls'[n].pc = "sent"
    BY <1>1, SentFrame
  <2>3. \A d \in Made : (Listening(d)' <=> Listening(d)) /\ (Over(d)' <=> Over(d))
    BY <2>2 DEF Listening, Op, OnToken, Over
  <2>4. ~Listening(n)' /\ cleared \subseteq Made
    BY <2>2 DEF Listening, Types
  <2> QED BY <2>1, <2>2, <2>3, <2>4 DEF ListenInv, lib, Once, There
<1>2. CASE RemoveAllListeners
  <2>1. /\ calls' = calls /\ listeners' = <<>> /\ DOMAIN listeners' = {}
        /\ \A d \in Made : There(d) => d \in cleared'
        /\ cleared \subseteq cleared'
    BY <1>2 DEF RemoveAllListeners, jsVars, There
  <2>2. Made' = Made /\ \A d : (Listening(d)' <=> Listening(d)) /\ (Over(d)' <=> Over(d))
    BY <2>1 DEF Made, Listening, Op, OnToken, Over
  <2> QED BY <2>1, <2>2 DEF ListenInv, Once
<1>3. ASSUME NEW c \in Made, Close(c) PROVE ListenInv'
  <2>1. /\ UNCHANGED Rest /\ Op(c) = "initContext" /\ Moved(c, "done", Context(c), Id(c))
    BY <1>3, CloseFrame
  <2>2. /\ Made' = Made
        /\ \A d \in Made : /\ d # c => Pc(d)' = Pc(d) /\ (Over(d)' <=> Over(d))
                           /\ Op(d)' = Op(d) /\ OnToken(d)' = OnToken(d)
        /\ Over(c)'
    BY <2>1, Frame
  <2>3. \A d \in Made : (Listening(d)' <=> Listening(d)) /\ (Over(d) => Over(d)')
    BY <2>1, <2>2 DEF Listening, Pc
  <2>4. cleared \subseteq Made
    BY DEF Types
  <2> QED BY <2>1, <2>2, <2>3, <2>4 DEF ListenInv, Rest, Once, There
<1> QED BY <1>1, <1>2, <1>3

LEMMA TypesOther ==
  ASSUME Types, PlaceInv, ListenInv,
         Application \/ RemoveAllListeners \/ \E c \in Made : Close(c)
  PROVE  Types' /\ PlaceInv'
<1>1. CASE Application
  <2>1. UNCHANGED lib /\ JsInv(Pcs)'
    BY <1>1, SentFrame
  <2>2. PICK n \in Calls, op \in Ops :
          /\ Made' = Made \cup {n} /\ \A d \in Made : calls'[d] = calls[d]
          /\ calls'[n].pc = "sent"
    BY <1>1, SentFrame
  <2>3. PlaceInv'
    BY <2>1, <2>2 DEF PlaceInv, Placed, Pc, Op, OnToken, Form, lib
  <2> QED BY <2>1, <2>2, <2>3 DEF Types, lib
<1>2. CASE RemoveAllListeners
  <2>1. /\ UNCHANGED <<jsVars, platform, contexts, alive, controllers, aborted, disposing, failed, stranded>>
        /\ listeners' = <<>> /\ cleared' \subseteq Made
    BY <1>2 DEF RemoveAllListeners, ListenInv, Types
  <2>2. UNCHANGED <<calls, contextCounter, own>> /\ Made' = Made /\ <<>> \in Seq(Calls)
    BY <2>1 DEF jsVars, Made
  <2>3. JsInv(Pcs)'
    BY <2>2 DEF Types, JsInv, CallsInv, OwnInv, CounterInv, LoadMet, Made, Op, Over, Overlap
  <2>4. PlaceInv'
    BY <2>1, <2>2 DEF PlaceInv, Placed, Pc, Op, OnToken, Form
  <2> QED BY <2>1, <2>2, <2>3, <2>4 DEF Types
<1>3. ASSUME NEW c \in Made, Close(c) PROVE Types' /\ PlaceInv'
  <2>1. UNCHANGED Rest /\ JsInv(Pcs)' /\ Moved(c, "done", Context(c), Id(c))
    BY <1>3, CloseFrame
  <2>2. PlaceInv'
    BY <2>1, Frame DEF PlaceInv, Placed, Rest
  <2>3. Made' = Made /\ stranded' \subseteq stranded \cup {c}
    BY <1>3, <2>1, Frame, CloseFrame
  <2> QED BY <2>1, <2>2, <2>3 DEF Types, Rest
<1> QED BY <1>1, <1>2, <1>3

-----------------------------------------------------------------------------
(* Sequences: those that are taken are counted by the completions that     *)
(* have one, the ones under way and the ones that failed.                  *)
Takes(c) == Op(c) = "completion" /\ (Running(c) \/ c \in failed)
Takers(h) == {c \in Made : Takes(c) /\ Context(c) = h}

SequenceInv ==
  /\ sequences \in [Calls -> 0 .. NSequences]
  /\ \A c \in failed : Op(c) = "completion" /\ Over(c)
  /\ \A c \in Made : Running(c) => Context(c) \in Calls
  /\ platform = "web" => \A h \in Calls : sequences[h] = 0
  /\ platform = "electron" => \A h \in Calls : sequences[h] = Cardinality(Takers(h))

LEMMA SequenceEffects ==
  ASSUME Types, PlaceInv, SequenceInv, NEW c \in Made, Act(c)
  PROVE  /\ failed' = failed \/ (failed' = failed \cup {c} /\ Op(c) = "completion" /\ Pc(c)' = "done")
         /\ Running(c)' => Context(c)' \in Calls
         /\ \/ platform = "web" /\ UNCHANGED sequences
            \/ UNCHANGED sequences /\ (Takes(c)' <=> Takes(c)) /\ (Takes(c) => Context(c)' = Context(c))
            \/ /\ platform = "electron" /\ ~Takes(c) /\ Takes(c)' /\ Context(c)' \in alive
               /\ Take(Context(c)') /\ sequences[Context(c)'] < NSequences
            \/ platform = "electron" /\ Running(c) /\ ~Takes(c)' /\ Give(Context(c))
<1>0. PICK pc, h : Moved(c, pc, h, Id(c))
  BY Moves
<1>1. Op(c)' = Op(c) /\ platform' = platform /\ c \notin failed
  BY <1>0, Frame, Moves DEF Act, SequenceInv
<1>2. ASSUME UNCHANGED <<sequences, failed>>, Op(c) # "completion"
      PROVE  /\ ~Running(c)' /\ failed' = failed
             /\ UNCHANGED sequences /\ (Takes(c)' <=> Takes(c)) /\ (Takes(c) => Context(c)' = Context(c))
  BY <1>1, <1>2 DEF Running, Takes
<1>3. ASSUME NEW g, Settle(c, g), UNCHANGED <<sequences, failed>>, ~Running(c)
      PROVE  /\ ~Running(c)' /\ failed' = failed
             /\ UNCHANGED sequences /\ (Takes(c)' <=> Takes(c)) /\ (Takes(c) => Context(c)' = Context(c))
  <2>1. Pc(c)' = "done"
    BY <1>3, Arrives DEF Settle
  <2> QED BY <1>1, <1>3, <2>1 DEF Running, Takes, Pc
<1>4. CASE StartLoad(c) \/ FinishLoad(c) \/ StopCompletion(c) \/ Tokenize(c)
  <2>1. UNCHANGED <<sequences, failed>> /\ Op(c) # "completion"
    BY <1>4 DEF StartLoad, FinishLoad, StopCompletion, Tokenize, At, lib
  <2> QED BY <1>2, <2>1
<1>5. CASE Listen(c)
  <2>1. UNCHANGED <<sequences, failed>> /\ ~Running(c) /\ Pc(c)' = "calling"
    BY <1>5, Arrives DEF Listen, Running, At
  <2> QED BY <1>1, <2>1 DEF Running, Takes, Pc
<1>6. CASE platform = "web" /\ (WebCompletion(c) \/ WebEnd(c))
  <2>1. UNCHANGED sequences /\ failed' = failed
    BY <1>6 DEF WebCompletion, WebEnd, Run
  <2>2. Running(c)' => Context(c)' \in Calls
    <3>1. ASSUME NEW g, Settle(c, g) PROVE ~Running(c)'
      <4>1. Pc(c)' = "done"
        BY <3>1, Arrives DEF Settle
      <4> QED BY <4>1 DEF Running, Pc
    <3>2. ASSUME Run(c, "running", Found(c)), Found(c) # NoContext, Op(c) = "completion" PROVE Context(c)' \in Calls
      <4>1. Context(c)' = Found(c) /\ Found(c) \in Contexts
        BY <3>2, Arrives, CallTypes DEF Run
      <4> QED BY <3>2, <4>1 DEF Contexts
    <3> QED BY <1>6, <3>1, <3>2 DEF WebCompletion, WebEnd, Called, At
  <2> QED BY <1>6, <2>1, <2>2
<1>7. CASE WebRelease(c) \/ ElectronRelease(c)
  <2>1. UNCHANGED <<sequences, failed>> /\ Op(c) # "completion"
    BY <1>7 DEF WebRelease, ElectronRelease, Releasing, At
  <2> QED BY <1>2, <2>1
<1>8. CASE Disposed(c) \/ Released(c)
  <2>1. UNCHANGED <<sequences, failed>> /\ Op(c) # "completion"
    BY <1>8 DEF Disposed, Released, PlaceInv, Placed, Pc, Releases
  <2> QED BY <1>2, <2>1
<1>9. CASE platform = "electron" /\ ElectronCompletion(c)
  <2>1. Op(c) = "completion" /\ ~Running(c) /\ Form(c) \in {"chat", "prompt", "none"}
    BY <1>9, CallTypes DEF ElectronCompletion, Called, At, Running, Form, Kind
  <2>2. CASE ~HasSequence(Found(c)) /\ Settle(c, Found(c)) /\ UNCHANGED <<sequences, failed>>
    BY <1>3, <2>1, <2>2
  <2>3. CASE HasSequence(Found(c)) /\ Take(Found(c)) /\ Form(c) \in {"chat", "prompt"}
    <3>1. PICK q \in {"history", "evaluating"} : Run(c, q, Found(c))
      BY <1>9, <2>3, <2>1 DEF ElectronCompletion
    <3>2. Context(c)' = Found(c) /\ Running(c)' /\ failed' = failed
      BY <1>1, <2>1, <3>1, Arrives DEF Run, Running, Pc
    <3> QED BY <1>1, <1>9, <2>1, <2>3, <3>2 DEF HasSequence, Takes, Types
  <2>4. CASE HasSequence(Found(c)) /\ Take(Found(c)) /\ Form(c) = "none"
    <3>1. Settle(c, Found(c)) /\ failed' = failed \cup {c}
      BY <1>9, <2>4 DEF ElectronCompletion
    <3>2. Context(c)' = Found(c) /\ Pc(c)' = "done"
      BY <3>1, Arrives DEF Settle
    <3> QED BY <1>1, <1>9, <2>1, <2>4, <3>1, <3>2 DEF HasSequence, Takes, Types, Running, Pc
  <2> QED BY <1>9, <2>1, <2>2, <2>3, <2>4 DEF ElectronCompletion
<1>10. CASE ChatHistory(c)
  <2>1. Running(c) /\ UNCHANGED <<sequences, failed>> /\ Context(c)' = Context(c) /\ Pc(c)' = "running"
    BY <1>10, Arrives DEF ChatHistory, Run, At, Running
  <2> QED BY <1>1, <2>1 DEF Running, Takes, Pc, SequenceInv
<1>11. CASE Throw(c)
  <2>1. /\ Running(c) /\ sequences' = sequences /\ failed' = failed \cup {c}
        /\ Context(c)' = Context(c) /\ Pc(c)' = "done"
    BY <1>11, Arrives DEF Throw, Settle, At, Running
  <2> QED BY <1>1, <2>1 DEF Running, Takes, Pc
<1>12. CASE platform = "electron" /\ (EndChat(c) \/ EndEvaluation(c))
  <2>1. /\ Running(c) /\ Give(Context(c)) /\ failed' = failed /\ Pc(c)' = "done"
    BY <1>12, Arrives DEF EndChat, EndEvaluation, Settle, At, Running
  <2> QED BY <1>1, <1>12, <2>1 DEF Running, Takes, Pc
<1> QED BY <1>4, <1>5, <1>6, <1>7, <1>8, <1>9, <1>10, <1>11, <1>12 DEF Act

LEMMA TakersFinite ==
  ASSUME Types, NEW h
  PROVE  IsFiniteSet(Takers(h)) /\ Cardinality(Takers(h)) \in Nat
<1>1. CallsInv(Pcs)
  BY DEF Types, JsInv
<1>2. Made = 1 .. Len(calls) /\ Len(calls) \in Nat
  BY <1>1, CallsType
<1>3. IsFiniteSet(Made)
  BY <1>2, FS_Interval
<1>4. Takers(h) \subseteq Made
  BY DEF Takers
<1>5. IsFiniteSet(Takers(h))
  BY <1>3, <1>4, FS_Subset
<1> QED BY <1>5, FS_CardinalityType

LEMMA SequenceAct ==
  ASSUME Types, PlaceInv, SequenceInv, NEW c \in Made, Act(c)
  PROVE  SequenceInv'
<1>0. PICK pc, h : Moved(c, pc, h, Id(c))
  BY Moves
<1>1. /\ Made' = Made /\ ~Over(c) /\ platform' = platform /\ platform \in {"web", "electron"}
      /\ \A d \in Made : /\ d # c => Pc(d)' = Pc(d) /\ Context(d)' = Context(d) /\ (Over(d)' <=> Over(d))
                         /\ Op(d)' = Op(d)
  BY <1>0, Frame, Moves DEF Act, Types
<1>2. failed' = failed \/ (failed' = failed \cup {c} /\ Op(c) = "completion" /\ Pc(c)' = "done")
  BY SequenceEffects
<1>3. failed \subseteq Made /\ c \notin failed
  BY <1>1 DEF Types, SequenceInv
<1>4. \A d \in failed' : Op(d)' = "completion" /\ Over(d)'
  BY <1>1, <1>2, <1>3 DEF SequenceInv, Over, Pc
<1>5. \A d \in Made : d # c => (Running(d)' <=> Running(d)) /\ (Takes(d)' <=> Takes(d))
  BY <1>1, <1>2 DEF Running, Takes, Pc
<1>6. \A d \in Made' : Running(d)' => Context(d)' \in Calls
  BY <1>1, <1>5, SequenceEffects DEF SequenceInv
<1>7. CASE platform = "web" /\ UNCHANGED sequences
  BY <1>1, <1>4, <1>6, <1>7 DEF SequenceInv
<1>8. ASSUME UNCHANGED sequences, Takes(c)' <=> Takes(c), Takes(c) => Context(c)' = Context(c)
      PROVE  SequenceInv'
  <2>1. \A g : Takers(g)' = Takers(g)
    BY <1>1, <1>5, <1>8 DEF Takers
  <2> QED BY <1>1, <1>4, <1>6, <1>8, <2>1 DEF SequenceInv
<1>9. ASSUME NEW g \in Calls, ~Takes(c), Takes(c)', Context(c)' = g, Take(g), sequences[g] < NSequences,
             platform = "electron"
      PROVE  SequenceInv'
  <2>1. \A f \in Calls : f # g => Takers(f)' = Takers(f)
    BY <1>1, <1>5, <1>9 DEF Takers
  <2>2. Takers(g)' = Takers(g) \cup {c} /\ c \notin Takers(g)
    BY <1>1, <1>5, <1>9 DEF Takers
  <2>3. Cardinality(Takers(g)') = Cardinality(Takers(g)) + 1
    BY <2>2, TakersFinite, FS_AddElement
  <2>4. /\ sequences' = [sequences EXCEPT ![g] = sequences[g] + 1] /\ sequences[g] = Cardinality(Takers(g))
        /\ sequences[g] \in 0 .. NSequences
    BY <1>9 DEF Take, SequenceInv
  <2>5. sequences' \in [Calls -> 0 .. NSequences]
    BY <1>9, <2>4 DEF SequenceInv
  <2>6. \A f \in Calls : sequences'[f] = Cardinality(Takers(f)')
    BY <1>9, <2>1, <2>3, <2>4 DEF SequenceInv
  <2> QED BY <1>1, <1>4, <1>6, <1>9, <2>5, <2>6 DEF SequenceInv
<1>10. ASSUME NEW g \in Calls, Running(c), ~Takes(c)', Context(c) = g, Give(g), platform = "electron"
       PROVE  SequenceInv'
  <2>1. \A f \in Calls : f # g => Takers(f)' = Takers(f)
    BY <1>1, <1>5, <1>10 DEF Takers
  <2>2. Takers(g)' = Takers(g) \ {c} /\ c \in Takers(g)
    BY <1>1, <1>5, <1>10 DEF Takers, Takes, Running
  <2>3. Cardinality(Takers(g)') = Cardinality(Takers(g)) - 1
    BY <2>2, TakersFinite, FS_RemoveElement
  <2>4. Cardinality(Takers(g)') \in Nat
    <3>1. IsFiniteSet(Takers(g)')
      BY <2>2, TakersFinite, FS_RemoveElement
    <3> QED BY <3>1, FS_CardinalityType
  <2>5. /\ sequences' = [sequences EXCEPT ![g] = sequences[g] - 1] /\ sequences[g] = Cardinality(Takers(g))
        /\ sequences[g] \in 0 .. NSequences
    BY <1>10 DEF Give, SequenceInv
  <2>6. sequences[g] - 1 \in 0 .. NSequences
    BY <2>3, <2>4, <2>5
  <2>7. sequences' \in [Calls -> 0 .. NSequences]
    BY <1>10, <2>5, <2>6 DEF SequenceInv
  <2>8. \A f \in Calls : sequences'[f] = Cardinality(Takers(f)')
    BY <1>10, <2>1, <2>3, <2>5 DEF SequenceInv
  <2> QED BY <1>1, <1>4, <1>6, <1>10, <2>7, <2>8 DEF SequenceInv
<1>11. alive \subseteq Calls /\ (Running(c) => Context(c) \in Calls)
  BY DEF Types, SequenceInv
<1>12. \/ platform = "web" /\ UNCHANGED sequences
       \/ UNCHANGED sequences /\ (Takes(c)' <=> Takes(c)) /\ (Takes(c) => Context(c)' = Context(c))
       \/ /\ platform = "electron" /\ ~Takes(c) /\ Takes(c)'
          /\ \E g \in alive : Context(c)' = g /\ Take(g) /\ sequences[g] < NSequences
       \/ platform = "electron" /\ Running(c) /\ ~Takes(c)' /\ Give(Context(c))
  BY SequenceEffects
<1> QED BY <1>1, <1>7, <1>8, <1>9, <1>10, <1>11, <1>12

LEMMA SequenceOther ==
  ASSUME Types, SequenceInv,
         Application \/ RemoveAllListeners \/ \E c \in Made : Close(c)
  PROVE  SequenceInv'
<1>0. failed \subseteq Made
  BY DEF Types
<1>1. CASE Application
  <2>1. UNCHANGED lib
    BY <1>1, SentFrame
  <2>2. PICK n \in Calls, op \in Ops :
          /\ Made' = Made \cup {n} /\ n \notin Made /\ \A d \in Made : calls'[d] = calls[d]
          /\ calls'[n].pc = "sent"
    BY <1>1, SentFrame
  <2>3. \A d \in Made : /\ (Running(d)' <=> Running(d)) /\ Context(d)' = Context(d)
                        /\ (Takes(d)' <=> Takes(d)) /\ (Over(d)' <=> Over(d)) /\ Op(d)' = Op(d)
    BY <2>1, <2>2 DEF Running, Takes, Over, Op, Context, lib
  <2>4. ~Running(n)' /\ ~Takes(n)'
    BY <1>0, <2>1, <2>2 DEF Running, Takes, lib
  <2>5. \A g : Takers(g)' = Takers(g)
    BY <2>2, <2>3, <2>4 DEF Takers
  <2> QED BY <1>0, <2>1, <2>2, <2>3, <2>4, <2>5 DEF SequenceInv, lib
<1>2. CASE RemoveAllListeners
  <2>1. UNCHANGED <<calls, platform, sequences, failed>> /\ Made' = Made
    BY <1>2 DEF RemoveAllListeners, jsVars, Made
  <2> QED BY <2>1 DEF SequenceInv, Takers, Takes, Running, Context, Op, Over
<1>3. ASSUME NEW c \in Made, Close(c) PROVE SequenceInv'
  <2>1. /\ UNCHANGED Rest /\ Op(c) = "initContext" /\ Moved(c, "done", Context(c), Id(c))
    BY <1>3, CloseFrame
  <2>2. /\ Made' = Made
        /\ \A d \in Made : /\ d # c => Pc(d)' = Pc(d) /\ (Over(d)' <=> Over(d))
                           /\ Op(d)' = Op(d) /\ Context(d)' = Context(d)
    BY <2>1, Frame
  <2>3. \A d \in Made : (Running(d)' <=> Running(d)) /\ (Takes(d)' <=> Takes(d))
    BY <2>1, <2>2 DEF Running, Takes, Pc, Rest
  <2>4. \A g : Takers(g)' = Takers(g)
    BY <2>2, <2>3 DEF Takers
  <2>5. c \notin failed
    BY <2>1 DEF SequenceInv
  <2> QED BY <1>0, <2>1, <2>2, <2>3, <2>4, <2>5 DEF SequenceInv, Rest
<1> QED BY <1>1, <1>2, <1>3

-----------------------------------------------------------------------------
(* Contexts: a load that met no other one stores its context under an id   *)
(* that no context was stored under before.                                *)
Answered(c) == \E k \in 1 .. Len(own) : own[k] = c
Stores(h, i) == Op(h) = "initContext" /\ Id(h) = i /\ (Pc(h) = "loaded" \/ Answered(h))
LoadsMet == \E c, d \in Made : Op(c) = "initContext" /\ Op(d) = "initContext" /\ Overlap(c, d)

(* A load that failed after the store leaves its context, under the id     *)
(* that the next load is sent.                                             *)
Kept(h, i) == Stores(h, i) \/ (h \in stranded /\ Id(h) = i)
Replaced(c) == c \in stranded /\ \E d \in Made \ {c} : Kept(d, Id(c))

OwnedInv ==
  /\ \A c \in stranded : Op(c) = "initContext" /\ Over(c)
  /\ platform = "electron" => stranded = {}
  /\ platform = "web" => \A r \in Calls : disposing[r] = {}
  /\ \A i \in Ids : contexts[i] # NoContext => contexts[i] \in Made /\ Kept(contexts[i], i)
  /\ \A c \in alive : c \in Made /\ Kept(c, Id(c))
  /\ LoadsMet \/ \A c \in alive : contexts[Id(c)] = c \/ Replaced(c)
  /\ \A r \in Calls : \A i \in disposing[r] :
       \/ LoadsMet
       \/ ((\E h \in Made : Stores(h, i)) /\ \A c \in alive : Id(c) # i)

LEMMA OwnId ==
  ASSUME Types, NEW c \in Made, Answered(c), ~LoadsMet
  PROVE  Id(c) < contextCounter /\ Own(Id(c)) = c /\ Over(c)
<1>1. PICK k \in 1 .. Len(own) : own[k] = c
  BY DEF Answered
<1>2. /\ Op(c) = "initContext" /\ Over(c) /\ contextCounter = Len(own) /\ Len(own) \in Nat
      /\ Id(c) = k - 1 \/ LoadMet(c)
  BY <1>1 DEF Types, JsInv, OwnInv, CounterInv, Id
<1>3. ~LoadMet(c)
  BY <1>2 DEF LoadMet, LoadsMet, Overlap
<1>4. Id(c) = k - 1 /\ Id(c) + 1 = k /\ k - 1 < Len(own)
  BY <1>2, <1>3
<1> QED BY <1>1, <1>2, <1>4 DEF Own

LEMMA NewId ==
  ASSUME Types, ~LoadsMet, NEW c \in Made, Op(c) = "initContext", Pc(c) = "loading",
         NEW h \in Made, NEW i, Stores(h, i)
  PROVE  Id(c) # i
<1>1. ~Over(c) /\ Op(h) = "initContext"
  BY DEF Over, Pc, Stores
<1>2. CASE Pc(h) = "loaded"
  <2>1. h # c /\ ~Over(h)
    BY <1>2 DEF Over, Pc
  <2>2. Overlap(c, h)
    BY <1>1, <2>1, InFlight DEF Types, JsInv
  <2> QED BY <1>1, <2>2 DEF LoadsMet
<1>3. CASE Answered(h)
  <2>1. Id(h) < contextCounter
    BY <1>3, OwnId
  <2>2. ~LoadMet(c)
    BY DEF LoadMet, LoadsMet, Overlap
  <2>3. Id(c) = contextCounter
    BY <1>1, <2>2 DEF Types, JsInv, CounterInv, Id
  <2>4. contextCounter \in Nat
    BY CounterBound DEF Types, JsInv
  <2> QED BY <2>1, <2>3, <2>4 DEF Stores
<1> QED BY <1>2, <1>3 DEF Stores

LEMMA OwnedEffects ==
  ASSUME Types, PlaceInv, NEW c \in Made, Act(c)
  PROVE  /\ Pc(c) # "loaded"
         /\ \/ UNCHANGED <<contexts, alive, disposing>>
            \/ /\ Op(c) = "initContext" /\ Pc(c) = "loading" /\ Pc(c)' = "loaded" /\ Id(c) \in Ids
               /\ contexts' = [contexts EXCEPT ![Id(c)] = c] /\ alive' = alive \cup {c}
               /\ UNCHANGED disposing
            \/ WebRelease(c)
            \/ platform = "electron" /\ (ElectronRelease(c) \/ Disposed(c))
<1>1. Pc(c) # "loaded"
  BY DEF Act, StartLoad, FinishLoad, StopCompletion, Tokenize, Listen, WebCompletion, WebEnd, WebRelease,
     ElectronCompletion, ChatHistory, Throw, EndChat, EndEvaluation, ElectronRelease, Disposed,
     Released, Releasing, Called, At, Pc
<1>2. ASSUME FinishLoad(c), ~UNCHANGED <<contexts, alive, disposing>>
      PROVE  /\ Op(c) = "initContext" /\ Pc(c) = "loading" /\ Pc(c)' = "loaded" /\ Id(c) \in Ids
             /\ contexts' = [contexts EXCEPT ![Id(c)] = c] /\ alive' = alive \cup {c}
             /\ UNCHANGED disposing
  <2>1. Op(c) = "initContext" /\ Pc(c) = "loading" /\ Id(c) \in Ids
    BY <1>2, CallTypes DEF FinishLoad, At, Pc
  <2>2. SetPc(c, "loaded") => Pc(c)' = "loaded"
    BY Arrives
  <2> QED BY <1>2, <2>1, <2>2 DEF FinishLoad, Id
<1> QED BY <1>1, <1>2, Effects

LEMMA OwnedAct ==
  ASSUME Types, PlaceInv, OwnedInv, NEW c \in Made, Act(c)
  PROVE  OwnedInv'
<1>0. PICK pc, h : Moved(c, pc, h, Id(c))
  BY Moves
<1>1. /\ Made' = Made /\ ~Over(c) /\ own' = own /\ Pc(c) # "loaded" /\ c \in Calls /\ c # NoContext
      /\ stranded' = stranded /\ platform' = platform /\ platform \in {"web", "electron"}
      /\ \A d \in Made : d # c => Pc(d)' = Pc(d) /\ (Over(d)' <=> Over(d))
      /\ \A d \in Made : Op(d)' = Op(d) /\ Id(d)' = Id(d)
      /\ \A d, e \in Made : Overlap(d, e)' <=> Overlap(d, e)
  <2>1. ~Over(c) /\ own' = own /\ Pc(c) # "loaded" /\ platform' = platform /\ stranded' = stranded
    BY Moves, OwnedEffects, Effects DEF Act
  <2>2. c \in Calls /\ c # NoContext /\ platform \in {"web", "electron"}
    BY CallTypes DEF Calls, NoContext, Types
  <2> QED BY <1>0, <2>1, <2>2, Frame
<1>2. LoadsMet' <=> LoadsMet
  BY <1>1 DEF LoadsMet
<1>3. ~Answered(c) /\ c \notin stranded /\ stranded \subseteq Made
  BY <1>1 DEF Answered, Types, JsInv, OwnInv, OwnedInv
<1>4. /\ \A d \in Made : \A i : Stores(d, i) => Stores(d, i)'
      /\ \A d \in Made : \A i : Kept(d, i) => Kept(d, i)'
  <2>1. ASSUME NEW d \in Made, NEW i, Stores(d, i) PROVE Stores(d, i)'
    BY <1>1, <1>3, <2>1 DEF Stores, Answered
  <2> QED BY <1>1, <2>1 DEF Kept
<1>5. \A d \in Made : Replaced(d) => Replaced(d)'
  <2>1. ASSUME NEW d \in Made, NEW e \in Made, Kept(e, Id(d)) PROVE Kept(e, Id(d))'
    <3>1. Kept(e, Id(d)) /\ Id(d)' = Id(d) /\ Id(e)' = Id(e) /\ Op(e)' = Op(e)
      BY <1>1, <2>1
    <3>2. Stores(e, Id(d)) => Stores(e, Id(d))'
      BY <1>1, <1>3, <3>1 DEF Stores, Answered
    <3> QED BY <1>1, <3>1, <3>2 DEF Kept
  <2> QED BY <1>1, <2>1 DEF Replaced
<1>6. \A d \in alive : d \in Made /\ Id(d) \in Ids /\ Kept(d, Id(d)) /\ Op(d) = "initContext"
  BY CallTypes DEF OwnedInv, Stores, Kept
<1>7. /\ contexts \in [Ids -> Contexts] /\ disposing \in [Calls -> SUBSET Ids]
      /\ \A d \in Made : Id(d) \in Ids \cup {NoId}
  BY CallTypes DEF Types
<1>8. \A d \in stranded' : Op(d)' = "initContext" /\ Over(d)'
  BY <1>1, <1>3 DEF OwnedInv
<1>9. \A d \in alive : Kept(d, Id(d))' /\ Id(d)' = Id(d)
  <2>1. ASSUME NEW d \in alive PROVE Kept(d, Id(d))' /\ Id(d)' = Id(d)
    <3>1. d \in Made /\ Kept(d, Id(d)) /\ Id(d)' = Id(d) /\ Op(d)' = Op(d)
      BY <1>1, <1>6
    <3>2. Stores(d, Id(d)) => Stores(d, Id(d))'
      BY <1>1, <1>3, <3>1 DEF Stores, Answered
    <3> QED BY <1>1, <3>1, <3>2 DEF Kept
  <2> QED BY <2>1
<1>10. ASSUME \A i \in Ids : contexts'[i] \in {contexts[i], NoContext}, alive' \subseteq alive,
             LoadsMet \/ \A d \in alive' : contexts[Id(d)] = d => contexts'[Id(d)] = d,
             platform = "web" => disposing' = disposing,
             \A r \in Calls : \A i \in disposing'[r] :
               \/ i \in disposing[r] \/ LoadsMet
               \/ (i \in Ids /\ (\E g \in Made : Stores(g, i)) /\ \A d \in alive' : Id(d) # i)
      PROVE  OwnedInv'
  <2>1. \A i \in Ids : contexts'[i] # NoContext => contexts'[i] \in Made /\ Kept(contexts[i], i)'
    <3>1. \A i \in Ids : contexts'[i] # NoContext => contexts'[i] \in Made /\ \E d \in Made : contexts'[i] = d /\ Kept(d, i)'
      BY <1>4, <1>10 DEF OwnedInv
    <3> QED BY <3>1
  <2>2. \A d \in alive' : d \in Made /\ Id(d)' = Id(d) /\ Kept(d, Id(d))'
    BY <1>6, <1>9, <1>10
  <2>3. LoadsMet \/ \A d \in alive' : contexts'[Id(d)'] = d \/ Replaced(d)'
    BY <1>5, <1>10, <2>2 DEF OwnedInv
  <2>4. \A r \in Calls : \A i \in disposing'[r] :
          LoadsMet \/ ((\E g \in Made : Stores(g, i)') /\ \A d \in alive' : Id(d)' # i)
    <3>1. ASSUME NEW r \in Calls, NEW i \in disposing'[r], ~LoadsMet
          PROVE  (\E g \in Made : Stores(g, i)') /\ \A d \in alive' : Id(d)' # i
      <4>1. i \in Ids /\ (\E g \in Made : Stores(g, i)) /\ \A d \in alive' : Id(d) # i
        BY <1>7, <1>10, <3>1 DEF OwnedInv
      <4> QED BY <1>4, <2>2, <4>1
    <3> QED BY <3>1
  <2>5. (platform = "web" => \A r \in Calls : disposing'[r] = {}) /\ (platform = "electron" => stranded = {})
    BY <1>10 DEF OwnedInv
  <2> QED BY <1>1, <1>2, <1>8, <2>1, <2>2, <2>3, <2>4, <2>5 DEF OwnedInv
<1>11. CASE UNCHANGED <<contexts, alive, disposing>>
  BY <1>10, <1>11
<1>12. CASE /\ Op(c) = "initContext" /\ Pc(c) = "loading" /\ Pc(c)' = "loaded" /\ Id(c) \in Ids
            /\ contexts' = [contexts EXCEPT ![Id(c)] = c] /\ alive' = alive \cup {c}
            /\ UNCHANGED disposing
  <2>1. Stores(c, Id(c))' /\ Kept(c, Id(c))' /\ Id(c)' = Id(c)
    BY <1>1, <1>12 DEF Stores, Kept
  <2>2. ~LoadsMet => \A g \in Made, i \in Ids : Stores(g, i) => i # Id(c)
    BY <1>12, NewId
  <2>3. contexts'[Id(c)] = c /\ \A i \in Ids : i # Id(c) => contexts'[i] = contexts[i]
    BY <1>7, <1>12
  <2>4. \A i \in Ids : contexts'[i] # NoContext => \E d \in Made : contexts'[i] = d /\ Kept(d, i)'
    <3>1. ASSUME NEW i \in Ids, i # Id(c), contexts'[i] # NoContext
          PROVE  \E d \in Made : contexts'[i] = d /\ Kept(d, i)'
      BY <1>4, <2>3, <3>1 DEF OwnedInv
    <3>2. \A i \in Ids : i = Id(c) => contexts'[i] = c /\ Kept(c, i)'
      BY <1>1, <1>12, <2>3 DEF Stores, Kept
    <3> QED BY <3>1, <3>2
  <2>5. c \notin alive
    BY <1>1, <1>3, <1>6, <1>12 DEF Kept, Stores
  <2>6. ASSUME ~LoadsMet, NEW d \in alive PROVE contexts'[Id(d)] = d \/ Replaced(d)'
    <3>1. CASE Replaced(d)
      BY <1>5, <1>6, <3>1
    <3>2. CASE contexts[Id(d)] = d /\ Id(d) # Id(c)
      BY <1>6, <2>3, <3>2
    <3>3. CASE Id(d) = Id(c)
      <4>1. d \in stranded /\ d # c
        BY <1>6, <2>2, <2>5, <2>6, <3>3 DEF Kept
      <4>2. Kept(c, Id(c))' /\ Id(d)' = Id(c)'
        BY <1>1, <1>6, <2>1, <3>3
      <4>3. Kept(c, Id(d))'
        BY <4>2 DEF Kept, Stores
      <4> QED BY <1>1, <4>1, <4>3 DEF Replaced
    <3> QED BY <2>6, <3>1, <3>2, <3>3 DEF OwnedInv
  <2>7. \A r \in Calls : \A i \in disposing'[r] :
          LoadsMet \/ ((\E g \in Made : Stores(g, i)') /\ \A d \in alive' : Id(d)' # i)
    <3>1. ASSUME NEW r \in Calls, NEW i \in disposing'[r], ~LoadsMet
          PROVE  (\E g \in Made : Stores(g, i)') /\ \A d \in alive' : Id(d)' # i
      <4>1. i \in Ids /\ (\E g \in Made : Stores(g, i)) /\ \A d \in alive : Id(d) # i
        BY <1>7, <1>12, <3>1 DEF OwnedInv
      <4>2. i # Id(c)
        BY <2>2, <3>1, <4>1
      <4>3. \A d \in alive' : Id(d)' # i
        BY <1>9, <1>12, <2>1, <4>1, <4>2
      <4> QED BY <1>4, <4>1, <4>3
    <3> QED BY <3>1
  <2>8. \A d \in alive' : d \in Made /\ Id(d)' = Id(d) /\ Kept(d, Id(d))'
    BY <1>6, <1>9, <1>12, <2>1
  <2>9. LoadsMet \/ \A d \in alive' : contexts'[Id(d)'] = d \/ Replaced(d)'
    BY <1>12, <2>3, <2>6, <2>8
  <2>10. (platform = "web" => \A r \in Calls : disposing'[r] = {}) /\ (platform = "electron" => stranded = {})
    BY <1>12 DEF OwnedInv
  <2>11. \A i \in Ids : contexts'[i] # NoContext => contexts'[i] \in Made /\ Kept(contexts[i], i)'
    BY <2>4
  <2> QED BY <1>1, <1>2, <1>8, <2>7, <2>8, <2>9, <2>10, <2>11 DEF OwnedInv
<1>13. CASE WebRelease(c)
  <2>1. /\ alive' = alive \ Stored(Keys(c)) /\ contexts' = Drop(contexts, Keys(c)) /\ disposing' = disposing
    BY <1>13 DEF WebRelease
  <2>2. \A d \in alive' : contexts[Id(d)] = d => Id(d) \notin Keys(c)
    BY <2>1 DEF Stored
  <2>3. \A d \in alive' : contexts[Id(d)] = d => contexts'[Id(d)] = d
    BY <1>6, <2>1, <2>2 DEF Drop
  <2> QED BY <1>10, <2>1, <2>3 DEF Drop
<1>14. CASE platform = "electron" /\ ElectronRelease(c)
  <2>1. /\ alive' = alive \ Stored(Keys(c)) /\ contexts' = Drop(contexts, Forgotten(c))
        /\ disposing' = [disposing EXCEPT ![c] = Keys(c) \ Forgotten(c)]
    BY <1>14 DEF ElectronRelease
  <2>2. \A d \in alive' : contexts[Id(d)] = d => contexts'[Id(d)] = d
    BY <1>6, <2>1 DEF Drop, Forgotten
  <2>3. LoadsMet \/ \A d \in alive' : Id(d) \notin Keys(c)
    BY <1>6, <1>14, <2>1 DEF OwnedInv, Stored, Replaced
  <2>4. \A i \in Keys(c) : i \in Ids /\ \E g \in Made : Stores(g, i)
    <3>1. \A i \in Keys(c) : i \in Ids /\ contexts[i] \in Made /\ Kept(contexts[i], i)
      BY DEF OwnedInv, Keys
    <3> QED BY <1>14, <3>1 DEF OwnedInv, Kept
  <2>5. \A r \in Calls : \A i \in disposing'[r] : i \in disposing[r] \/ i \in Keys(c)
    BY <1>7, <2>1
  <2> QED BY <1>10, <1>14, <2>1, <2>2, <2>3, <2>4, <2>5 DEF Drop
<1>15. CASE platform = "electron" /\ Disposed(c)
  <2>1. PICK i \in disposing[c] : /\ contexts' = Drop(contexts, {i}) \/ contexts' = contexts
                                 /\ disposing' = [disposing EXCEPT ![c] = @ \ {i}]
    BY <1>15 DEF Disposed
  <2>2. alive' = alive
    BY <1>15 DEF Disposed
  <2>3. LoadsMet \/ \A d \in alive : Id(d) # i
    BY <1>1, <2>1 DEF OwnedInv
  <2>4. \A r \in Calls : disposing'[r] \subseteq disposing[r]
    BY <1>1, <1>7, <2>1
  <2>5. LoadsMet \/ \A d \in alive' : contexts[Id(d)] = d => contexts'[Id(d)] = d
    BY <1>6, <2>1, <2>2, <2>3 DEF Drop
  <2>6. \A k \in Ids : contexts'[k] \in {contexts[k], NoContext}
    BY <2>1 DEF Drop
  <2> QED BY <1>10, <1>15, <2>2, <2>4, <2>5, <2>6
<1> QED BY <1>11, <1>12, <1>13, <1>14, <1>15, OwnedEffects

LEMMA OwnedOther ==
  ASSUME Types, OwnedInv,
         Application \/ RemoveAllListeners \/ \E c \in Made : Close(c)
  PROVE  OwnedInv'
<1>0. /\ \A d \in alive : d \in Made /\ Kept(d, Id(d))
      /\ \A i \in Ids : contexts[i] # NoContext => \E g \in Made : contexts[i] = g /\ Kept(g, i)
      /\ stranded \subseteq Made
  BY DEF OwnedInv, Types
<1>1. ASSUME UNCHANGED <<contexts, alive, disposing, platform>>, Made \subseteq Made', LoadsMet => LoadsMet',
             stranded \subseteq stranded', platform = "electron" => stranded' = {},
             \A d \in stranded' : Op(d)' = "initContext" /\ Over(d)',
             \A d \in Made : Id(d)' = Id(d),
             \A d \in Made : \A i : Kept(d, i) => Kept(d, i)',
             platform = "electron" => \A d \in Made : \A i : Stores(d, i) => Stores(d, i)'
      PROVE  OwnedInv'
  <2>1. \A i \in Ids : contexts'[i] # NoContext => contexts'[i] \in Made' /\ Kept(contexts[i], i)'
    BY <1>0, <1>1
  <2>2. \A d \in Made, e \in Made : Kept(e, Id(d)) => Kept(e, Id(d))'
    <3>1. ASSUME NEW d \in Made, NEW e \in Made, Kept(e, Id(d)) PROVE Kept(e, Id(d))'
      <4> DEFINE k == Id(d)
      <4>1. Kept(e, k)' /\ k' = k
        BY <1>1, <3>1
      <4> QED BY <4>1
    <3> QED BY <3>1
  <2>3. \A d \in alive' : d \in Made' /\ Kept(d, Id(d))' /\ Id(d)' = Id(d)
    BY <1>0, <1>1, <2>2
  <2>4. \A d \in Made : Replaced(d) => Replaced(d)'
    BY <1>1, <2>2 DEF Replaced
  <2>5. LoadsMet' \/ \A d \in alive' : contexts'[Id(d)'] = d \/ Replaced(d)'
    BY <1>0, <1>1, <2>3, <2>4 DEF OwnedInv
  <2>6. \A r \in Calls : \A i \in disposing'[r] :
          LoadsMet' \/ ((\E g \in Made' : Stores(g, i)') /\ \A d \in alive' : Id(d)' # i)
    <3>1. CASE platform = "electron"
      BY <1>1, <2>3, <3>1 DEF OwnedInv
    <3>2. CASE platform = "web"
      BY <1>1, <3>2 DEF OwnedInv
    <3> QED BY <3>1, <3>2 DEF Types
  <2> QED BY <1>1, <2>1, <2>3, <2>5, <2>6 DEF OwnedInv
<1>2. CASE Application
  <2>1. UNCHANGED lib /\ own' = own
    BY <1>2, SentFrame
  <2>2. PICK n \in Calls, op \in Ops :
          /\ Made' = Made \cup {n} /\ n \notin Made /\ \A d \in Made : calls'[d] = calls[d]
    BY <1>2, SentFrame
  <2>3. LoadsMet => LoadsMet'
    BY <2>2 DEF LoadsMet, Op, Overlap
  <2>4. \A d \in Made : Id(d)' = Id(d) /\ \A i : Stores(d, i) => Stores(d, i)'
    BY <2>1, <2>2 DEF Stores, Answered, Op, Id, Pc
  <2>5. \A d \in Made : \A i : Kept(d, i) => Kept(d, i)'
    BY <2>1, <2>4 DEF Kept, lib
  <2>6. \A d \in stranded' : Op(d)' = "initContext" /\ Over(d)'
    BY <1>0, <2>1, <2>2 DEF OwnedInv, Op, Over, lib
  <2>7. platform = "electron" => stranded' = {}
    BY <2>1 DEF OwnedInv, lib
  <2> QED BY <1>1, <2>1, <2>2, <2>3, <2>4, <2>5, <2>6, <2>7 DEF lib
<1>3. CASE RemoveAllListeners
  <2>1. UNCHANGED <<calls, own, contexts, alive, disposing, stranded, platform>> /\ Made' = Made
    BY <1>3 DEF RemoveAllListeners, jsVars, Made
  <2> QED BY <2>1 DEF OwnedInv, LoadsMet, Stores, Kept, Replaced, Answered, Op, Id, Pc, Overlap, Over
<1>4. ASSUME NEW c \in Made, Close(c) PROVE OwnedInv'
  <2>1. /\ UNCHANGED Rest /\ Op(c) = "initContext" /\ Moved(c, "done", Context(c), Id(c))
        /\ \/ /\ stranded' = stranded
              /\ Len(own') = Len(own) + 1 /\ own'[Len(own) + 1] = c
           \/ platform = "web" /\ stranded' = stranded \cup {c} /\ own' = own
        /\ Len(own) \in Nat /\ Len(own') >= Len(own)
        /\ \A k \in 1 .. Len(own) : own'[k] = own[k]
    BY <1>4, CloseFrame
  <2>2. /\ Made' = Made
        /\ \A d \in Made : /\ d # c => Pc(d)' = Pc(d) /\ (Over(d)' <=> Over(d))
                           /\ Op(d)' = Op(d) /\ Id(d)' = Id(d)
        /\ Over(c)'
        /\ \A d, e \in Made : Overlap(d, e)' <=> Overlap(d, e)
    BY <2>1, Frame
  <2>3. (Answered(c)' \/ c \in stranded') /\ \A d : Answered(d) => Answered(d)'
    <3>1. \A d : Answered(d) => Answered(d)'
      <4>1. \A k \in 1 .. Len(own) : k \in 1 .. Len(own')
        <5>1. Len(own') \in Int
          BY <2>1
        <5> QED BY <2>1, <5>1
      <4> QED BY <2>1, <4>1 DEF Answered
    <3>2. CASE Len(own') = Len(own) + 1 /\ own'[Len(own) + 1] = c
      <4>1. Len(own) + 1 \in 1 .. Len(own')
        BY <2>1, <3>2
      <4> QED BY <3>1, <3>2, <4>1 DEF Answered
    <3> QED BY <2>1, <3>1, <3>2
  <2>4. LoadsMet => LoadsMet'
    BY <2>2 DEF LoadsMet
  <2>5. \A d \in Made : \A i : (Answered(c)' \/ d # c) /\ Stores(d, i) => Stores(d, i)'
    BY <2>2, <2>3 DEF Stores
  <2>6. stranded \subseteq stranded' /\ stranded' \subseteq stranded \cup {c} /\ platform \in {"web", "electron"}
    BY <2>1 DEF Types
  <2>7. \A d \in Made : \A i : Kept(d, i) => Kept(d, i)'
    BY <2>2, <2>3, <2>5, <2>6 DEF Kept, Stores
  <2>8. \A d \in stranded' : Op(d)' = "initContext" /\ Over(d)'
    BY <1>0, <2>1, <2>2, <2>6 DEF OwnedInv
  <2>9. platform = "electron" => stranded' = {} /\ \A d \in Made : \A i : Stores(d, i) => Stores(d, i)'
    BY <2>1, <2>3, <2>5, <2>6 DEF OwnedInv
  <2>10. UNCHANGED <<contexts, alive, disposing, platform>>
    BY <2>1 DEF Rest
  <2> QED BY <1>1, <2>2, <2>4, <2>6, <2>7, <2>8, <2>9, <2>10
<1> QED BY <1>2, <1>3, <1>4

-----------------------------------------------------------------------------
ScriptInv == Types /\ PlaceInv /\ ControlInv /\ ListenInv /\ SequenceInv /\ OwnedInv

LEMMA ScriptInit == Init => ScriptInv
<1> SUFFICES ASSUME Init PROVE ScriptInv
  OBVIOUS
<1>1. JsInv(Pcs) /\ Made = {} /\ own = <<>>
  BY JsInitially DEF Init, JsInit, Made
<1>2. Types /\ PlaceInv /\ ControlInv
  BY <1>1 DEF Init, Types, PlaceInv, ControlInv, Contexts
<1>3. ListenInv
  BY <1>1 DEF Init, ListenInv, Once
<1>4. SequenceInv
  <2>1. \A h : Takers(h) = {}
    BY <1>1 DEF Takers
  <2>2. Cardinality({}) = 0
    BY FS_EmptySet
  <2>3. \A h \in Calls : Cardinality(Takers(h)) = 0
    BY <2>1, <2>2
  <2>4. sequences = [h \in Calls |-> 0] /\ sequences \in [Calls -> 0 .. NSequences] /\ failed = {}
    BY DEF Init
  <2> QED BY <1>1, <2>3, <2>4 DEF SequenceInv
<1>5. OwnedInv
  BY DEF Init, OwnedInv
<1> QED BY <1>2, <1>3, <1>4, <1>5 DEF ScriptInv

LEMMA ScriptStep == ScriptInv /\ [Next]_vars => ScriptInv'
<1> SUFFICES ASSUME ScriptInv, [Next]_vars PROVE ScriptInv'
  OBVIOUS
<1> USE DEF ScriptInv
<1>1. CASE Application \/ RemoveAllListeners \/ \E c \in Made : Close(c)
  <2>1. ControlInv'
    <3>1. CASE RemoveAllListeners
      <4>1. UNCHANGED <<calls, platform, controllers, disposing>> /\ Made' = Made
        BY <3>1 DEF RemoveAllListeners, jsVars, Made
      <4> QED BY <4>1 DEF ControlInv, Running, Reached, OtherCompletion, ItsRelease, Overlap, Over,
           Deletes, Form, Op, Id, Pc
    <3> QED BY <1>1, <3>1, ControlSent, ControlClose
  <2> QED BY <1>1, <2>1, TypesOther, ListenOther, SequenceOther, OwnedOther
<1>2. ASSUME NEW c \in Made, Act(c) PROVE ScriptInv'
  BY <1>2, TypesAct, ControlAct, ListenAct, SequenceAct, OwnedAct
<1>3. CASE UNCHANGED vars
  <2>1. UNCHANGED <<contextCounter, own, calls, platform, contexts, alive, controllers, aborted, listeners,
                    sequences, disposing, cleared, failed, stranded>> /\ Made' = Made
    BY <1>3 DEF vars, jsVars, lib, Made
  <2>2. Types' /\ PlaceInv'
    BY <2>1 DEF Types, PlaceInv, Placed, JsInv, CallsInv, OwnInv, CounterInv, LoadMet, Op, Over, Overlap,
       Pc, Form, OnToken
  <2>3. ControlInv'
    BY <2>1 DEF ControlInv, Running, Reached, OtherCompletion, ItsRelease, Overlap, Over, Deletes, Form, Op, Id, Pc
  <2>4. ListenInv'
    BY <2>1 DEF ListenInv, Once, There, Listening, Op, Over, OnToken
  <2>5. SequenceInv'
    BY <2>1 DEF SequenceInv, Takers, Takes, Running, Context, Op, Over
  <2>6. OwnedInv'
    BY <2>1 DEF OwnedInv, LoadsMet, Stores, Kept, Replaced, Answered, Op, Id, Pc, Overlap, Over
  <2> QED BY <2>2, <2>3, <2>4, <2>5, <2>6
<1> QED BY <1>1, <1>2, <1>3, NextIsAct

-----------------------------------------------------------------------------
(* The plugin in JavaScript keeps its types.  In particular no context     *)
(* ever has more sequences taken, or fewer, than it has.                   *)
THEOREM TypeCorrect == Spec => []TypeOK
<1>1. ScriptInv => TypeOK
  <2> SUFFICES ASSUME ScriptInv PROVE TypeOK
    OBVIOUS
  <2>1. JsTypeOK /\ Made \subseteq Calls
    BY JsTypes, CallsType DEF ScriptInv, Types, JsInv
  <2>2. \A c \in Made : calls[c].pc \in Pcs
    BY CallTypes DEF ScriptInv, Pc
  <2> QED BY <2>1, <2>2 DEF TypeOK, ScriptInv, Types, SequenceInv
<1> QED BY ScriptInit, ScriptStep, <1>1, PTL DEF Spec

(* A stop reaches the completion that runs under its id, unless the        *)
(* application has another completion or a release of that context under   *)
(* way: in the browser and for chats each completion deletes the           *)
(* controller under the id when it ends, whosever it is.                   *)
THEOREM StopsReach == Spec => []StopReaches
<1>1. ScriptInv => StopReaches
  BY DEF ScriptInv, ControlInv, Reached, OtherCompletion, ItsRelease, StopReaches, Id
<1> QED BY ScriptInit, ScriptStep, <1>1, PTL DEF Spec

(* The listeners are those of the completions under way, as long as        *)
(* removeAllListeners is not called: remove splices at the index of the    *)
(* listener, and the index of one that is not there is the last.           *)
THEOREM ListenersAreBalanced == Spec => []ListenersBalanced
<1>1. ScriptInv => ListenersBalanced
  BY DEF ScriptInv, ListenInv, There, ListenersBalanced
<1> QED BY ScriptInit, ScriptStep, <1>1, PTL DEF Spec

(* A sequence of a node-llama-cpp context that is taken is that of a       *)
(* completion that runs, or of one that threw before it gave it back.      *)
THEOREM SequencesReturn == Spec => []SequencesComeBack
<1>1. ScriptInv => SequencesComeBack
  <2> SUFFICES ASSUME ScriptInv, NEW h \in Calls, sequences[h] > 0
               PROVE  \E c \in Made : Op(c) = "completion" /\ Context(c) = h /\ (Running(c) \/ c \in failed)
    BY DEF SequencesComeBack
  <2>1. sequences[h] = Cardinality(Takers(h))
    BY DEF ScriptInv, Types, SequenceInv
  <2>2. Takers(h) # {}
    BY <2>1, FS_EmptySet
  <2> QED BY <2>2 DEF Takers, Takes
<1> QED BY ScriptInit, ScriptStep, <1>1, PTL DEF Spec

(* Every context that is not released is stored under the id of the object *)
(* made from it, unless two loads were under way together - or, in the     *)
(* browser, the load failed after the store, and then until the next load  *)
(* has stored its own.                                                     *)
THEOREM ObjectsKeepTheirContext == Spec => []OwnContext
<1>1. ScriptInv => OwnContext
  <2> SUFFICES ASSUME ScriptInv, ~LoadsMet, NEW c \in alive
               PROVE  IF c \in stranded
                      THEN \/ contexts[calls[c].id] = c
                           \/ \E d \in Made \ {c} :
                                /\ Op(d) = "initContext" /\ calls[d].id = calls[c].id
                                /\ d \in stranded \/ calls[d].pc = "loaded" \/ MadeObject(d)
                      ELSE /\ contexts[calls[c].id] = c
                           /\ Over(c) => MadeObject(c)
    BY DEF OwnContext, LoadsMet
  <2>1. c \in Made /\ Kept(c, Id(c)) /\ (contexts[Id(c)] = c \/ Replaced(c)) /\ Types
    BY DEF ScriptInv, OwnedInv
  <2>2. \A d \in Made : Answered(d) => MadeObject(d)
    BY <2>1, OwnId DEF MadeObject, Id
  <2>3. CASE c \in stranded
    <3>1. ASSUME NEW d \in Made, Kept(d, Id(c))
          PROVE  /\ Op(d) = "initContext" /\ calls[d].id = calls[c].id
                 /\ d \in stranded \/ calls[d].pc = "loaded" \/ MadeObject(d)
      BY <2>2, <3>1 DEF Kept, Stores, ScriptInv, OwnedInv, Id, Pc
    <3> QED BY <2>1, <2>3, <3>1 DEF Replaced, Id
  <2>4. CASE c \notin stranded
    <3>1. contexts[Id(c)] = c /\ (Pc(c) = "loaded" \/ Answered(c))
      BY <2>1, <2>4 DEF Replaced, Kept, Stores
    <3> QED BY <2>1, <2>2, <2>4, <3>1 DEF Over, Pc, Id
  <2> QED BY <2>3, <2>4
<1> QED BY ScriptInit, ScriptStep, <1>1, PTL DEF Spec

-----------------------------------------------------------------------------
(* What a call still has before it: its steps, and for a release the       *)
(* disposals it awaits.                                                    *)
Awaited(c) == Cardinality(disposing[c])

Left(c) ==
  CASE Pc(c) = "done"                              -> 0
    [] Pc(c) \in {"running", "evaluating", "loaded"} -> 1
    [] Pc(c) \in {"history", "loading"}            -> 2
    [] Pc(c) = "calling"                           -> 3
    [] Pc(c) = "disposing"                         -> Awaited(c) + 1
    [] Pc(c) = "sent"                              -> MaxCalls + 4

(* One call goes on, nearer to its end, and no other one is touched.       *)
MovesOn(c) ==
  /\ Made' = Made
  /\ Left(c)' < Left(c)
  /\ \A d \in Made : d # c => calls'[d] = calls[d] /\ disposing'[d] = disposing[d]

(* The application sends a call; those before it stay where they are.      *)
OneSent ==
  /\ \E n \in Calls : /\ Made' = Made \cup {n} /\ n \notin Made
                      /\ \A d \in Made : calls'[d] = calls[d]
  /\ UNCHANGED disposing

LEMMA IdsAwaited ==
  ASSUME Types, NEW c \in Calls
  PROVE  /\ disposing[c] \subseteq Ids /\ IsFiniteSet(disposing[c]) /\ Awaited(c) \in 0 .. MaxCalls
         /\ \A S \in SUBSET Ids : Cardinality(S) \in 0 .. MaxCalls
         /\ \A i \in disposing[c] : Cardinality(disposing[c] \ {i}) = Awaited(c) - 1
<1>1. IsFiniteSet(Ids) /\ Cardinality(Ids) = MaxCalls
  <2>1. MaxCalls - 1 \in Int
    OBVIOUS
  <2>2. IsFiniteSet(0 .. MaxCalls - 1)
        /\ Cardinality(0 .. MaxCalls - 1) = IF 0 > MaxCalls - 1 THEN 0 ELSE (MaxCalls - 1) - 0 + 1
    BY <2>1, FS_Interval
  <2> QED BY <2>2 DEF Ids
<1>2. ASSUME NEW S \in SUBSET Ids PROVE IsFiniteSet(S) /\ Cardinality(S) \in 0 .. MaxCalls
  <2>1. IsFiniteSet(S) /\ Cardinality(S) <= Cardinality(Ids)
    BY <1>1, FS_Subset
  <2>2. Cardinality(S) \in Nat
    BY <2>1, FS_CardinalityType
  <2> QED BY <1>1, <2>1, <2>2
<1>3. disposing[c] \in SUBSET Ids
  BY DEF Types
<1>4. \A i \in disposing[c] : Cardinality(disposing[c] \ {i}) = Awaited(c) - 1
  <2>1. IsFiniteSet(disposing[c])
    BY <1>2, <1>3
  <2> QED BY <2>1, FS_RemoveElement DEF Awaited
<1> QED BY <1>2, <1>3, <1>4 DEF Awaited

LEMMA LeftBound ==
  ASSUME Types, NEW c \in Made
  PROVE  Left(c) \in 0 .. MaxCalls + 4
<1>1. c \in Calls /\ Pc(c) \in Pcs
  BY CallTypes
<1>2. Awaited(c) \in 0 .. MaxCalls
  BY <1>1, IdsAwaited
<1> QED BY <1>1, <1>2 DEF Left, Pcs

(* A step to pc that leaves the disposals alone.                           *)
LEMMA Falls ==
  ASSUME Types, NEW c \in Made, NEW pc \in Pcs, NEW h, Moved(c, pc, h, Id(c)), UNCHANGED disposing,
         \/ Pc(c) # "done" /\ pc = "done"
         \/ Pc(c) = "sent" /\ pc \in {"loading", "calling", "running", "evaluating", "history"}
         \/ Pc(c) = "calling" /\ pc \in {"running", "evaluating", "history"}
         \/ Pc(c) = "history" /\ pc = "running"
         \/ Pc(c) = "loading" /\ pc = "loaded"
  PROVE  MovesOn(c)
<1>1. CallsInv(Pcs) /\ c \in Calls /\ Pc(c) \in Pcs
  BY CallTypes
<1>2. /\ Made' = Made /\ Pc(c)' = pc
      /\ \A d \in Made : d # c => calls'[d] = calls[d]
  BY <1>1, MovedFrame DEF Pc
<1>3. Awaited(c) \in Nat /\ MaxCalls \in Nat
  BY <1>1, IdsAwaited
<1>4. Left(c)' < Left(c)
  <2>1. /\ pc = "done" => Left(c)' = 0
        /\ pc \in {"running", "evaluating", "loaded"} => Left(c)' = 1
        /\ pc \in {"history", "loading"} => Left(c)' = 2
        /\ pc = "calling" => Left(c)' = 3
    BY <1>2 DEF Left
  <2>2. /\ Pc(c) # "done" => Left(c) > 0
        /\ Pc(c) \in {"history", "loading"} => Left(c) = 2
        /\ Pc(c) = "calling" => Left(c) = 3
        /\ Pc(c) = "sent" => Left(c) > 3
    BY <1>1, <1>3 DEF Left, Pcs
  <2>3. Left(c) \in 0 .. MaxCalls + 4
    BY LeftBound
  <2> QED BY <2>1, <2>2, <2>3
<1> QED BY <1>2, <1>4 DEF MovesOn

LEMMA ActMovesOn ==
  ASSUME Types, PlaceInv, NEW c \in Made, Act(c)
  PROVE  MovesOn(c)
<1>0. /\ CallsInv(Pcs) /\ c \in Calls /\ Pc(c) \in Pcs /\ Placed(c, Pc(c))
      /\ {"done", "loading", "loaded", "calling", "running", "evaluating", "history", "disposing"} \subseteq Pcs
  BY CallTypes DEF PlaceInv, Pcs
<1>1. CASE StartLoad(c) \/ StopCompletion(c) \/ Tokenize(c)
  <2>1. /\ Pc(c) = "sent" /\ UNCHANGED disposing
        /\ \E pc \in {"loading", "done"} : Moved(c, pc, Context(c), Id(c))
    BY <1>0, <1>1, Goes DEF StartLoad, StopCompletion, Tokenize, lib, At, Pc
  <2> QED BY <1>0, <2>1, Falls
<1>2. CASE FinishLoad(c)
  <2>1. /\ Pc(c) = "loading" /\ UNCHANGED disposing
        /\ \E pc \in {"loaded", "done"} : Moved(c, pc, Context(c), Id(c))
    BY <1>0, <1>2, Goes DEF FinishLoad, At, Pc
  <2> QED BY <1>0, <2>1, Falls
<1>3. CASE Listen(c)
  <2>1. Pc(c) = "sent" /\ UNCHANGED disposing /\ Moved(c, "calling", Context(c), Id(c))
    BY <1>0, <1>3, Goes DEF Listen, At, Pc
  <2> QED BY <1>0, <2>1, Falls
<1>4. CASE WebCompletion(c) \/ ElectronCompletion(c)
  <2>1. Pc(c) \in {"sent", "calling"}
    BY <1>4 DEF WebCompletion, ElectronCompletion, Called, At, Pc
  <2>2. Form(c) \in {"chat", "prompt", "none"}
    BY CallTypes DEF Form, Kind
  <2>3. /\ UNCHANGED disposing
        /\ \E pc \in {"done", "running", "history", "evaluating"} :
             calls' = [calls EXCEPT ![c].pc = pc, ![c].context = Found(c)]
    BY <1>4, <2>2 DEF WebCompletion, ElectronCompletion, Settle, Run
  <2>4. \E pc \in {"done", "running", "history", "evaluating"} : Moved(c, pc, Found(c), Id(c))
    BY <1>0, <2>3, Goes
  <2> QED BY <1>0, <2>1, <2>3, <2>4, Falls
<1>5. CASE WebEnd(c) \/ Throw(c) \/ EndChat(c) \/ EndEvaluation(c)
  <2>1. /\ Pc(c) # "done" /\ UNCHANGED disposing
        /\ calls' = [calls EXCEPT ![c].pc = "done", ![c].context = Context(c)]
    BY <1>5 DEF WebEnd, Throw, EndChat, EndEvaluation, Settle, At, Pc
  <2>2. Moved(c, "done", Context(c), Id(c))
    BY <1>0, <2>1, Goes
  <2> QED BY <1>0, <2>1, <2>2, Falls
<1>6. CASE WebRelease(c)
  <2>1. Pc(c) = "sent" /\ UNCHANGED disposing /\ Moved(c, "done", Context(c), Id(c))
    BY <1>0, <1>6, Goes DEF WebRelease, Releasing, At, Pc
  <2> QED BY <1>0, <2>1, Falls
<1>7. CASE ChatHistory(c)
  <2>1. /\ Pc(c) = "history" /\ UNCHANGED disposing
        /\ calls' = [calls EXCEPT ![c].pc = "running", ![c].context = Context(c)]
    BY <1>7 DEF ChatHistory, Run, At, Pc
  <2>2. Moved(c, "running", Context(c), Id(c))
    BY <1>0, <2>1, Goes
  <2> QED BY <1>0, <2>1, <2>2, Falls
<1>8. CASE Released(c)
  <2>1. Pc(c) = "disposing" /\ UNCHANGED disposing /\ Moved(c, "done", Context(c), Id(c))
    BY <1>0, <1>8, Goes DEF Released, Pc
  <2> QED BY <1>0, <2>1, Falls
<1>9. CASE ElectronRelease(c)
  <2>1. /\ Pc(c) = "sent" /\ Moved(c, "disposing", Context(c), Id(c))
        /\ disposing' = [disposing EXCEPT ![c] = Keys(c) \ Forgotten(c)]
    BY <1>0, <1>9, Goes DEF ElectronRelease, Releasing, At, Pc
  <2>2. /\ Made' = Made /\ Pc(c)' = "disposing"
        /\ \A d \in Made : d # c => calls'[d] = calls[d] /\ disposing'[d] = disposing[d]
    BY <1>0, <2>1, MovedFrame, CallTypes DEF Pc, Types
  <2>3. Awaited(c)' \in 0 .. MaxCalls
    <3>1. Keys(c) \ Forgotten(c) \in SUBSET Ids
      BY DEF Keys
    <3>2. Cardinality(Keys(c) \ Forgotten(c)) \in 0 .. MaxCalls
      BY <1>0, <3>1, IdsAwaited
    <3>3. disposing'[c] = Keys(c) \ Forgotten(c)
      BY <1>0, <2>1 DEF Types
    <3> QED BY <3>2, <3>3 DEF Awaited
  <2>4. Left(c) = MaxCalls + 4 /\ Left(c)' = Awaited(c)' + 1
    BY <2>1, <2>2 DEF Left
  <2> QED BY <2>2, <2>3, <2>4 DEF MovesOn
<1>10. CASE Disposed(c)
  <2>1. PICK i \in disposing[c] : disposing' = [disposing EXCEPT ![c] = @ \ {i}]
    BY <1>10 DEF Disposed
  <2>2. /\ Pc(c) = "disposing" /\ Pc(c)' = "disposing" /\ Made' = Made
        /\ \A d \in Made : calls'[d] = calls[d]
    BY <1>10 DEF Disposed, Pc, Made
  <2>3. /\ disposing'[c] = disposing[c] \ {i}
        /\ \A d \in Made : d # c => disposing'[d] = disposing[d]
    BY <1>0, <2>1, CallTypes DEF Types
  <2>4. Awaited(c)' = Awaited(c) - 1 /\ Awaited(c) \in Nat
    BY <1>0, <2>3, IdsAwaited DEF Awaited
  <2>5. Left(c) = Awaited(c) + 1 /\ Left(c)' = Awaited(c)' + 1
    BY <2>2 DEF Left
  <2> QED BY <2>2, <2>3, <2>4, <2>5 DEF MovesOn
<1> QED BY <1>1, <1>2, <1>3, <1>4, <1>5, <1>6, <1>7, <1>8, <1>9, <1>10 DEF Act

(* No call goes back: every step of the plugin takes one call nearer to    *)
(* its end, by a number bounded by the calls the application can make, and *)
(* leaves the others and what they await alone; removeAllListeners touches *)
(* none.  It is why what is not kept waiting, an aborted completion above  *)
(* all, ends.                                                              *)
THEOREM CallsMoveOn ==
  Spec => /\ [](\A c \in Made : Left(c) \in 0 .. MaxCalls + 4)
          /\ [][OneSent \/ UNCHANGED <<calls, disposing>> \/ \E c \in Made : MovesOn(c)]_vars
<1>1. ScriptInv => \A c \in Made : Left(c) \in 0 .. MaxCalls + 4
  BY LeftBound DEF ScriptInv
<1>2. ScriptInv /\ [Next]_vars =>
        [OneSent \/ UNCHANGED <<calls, disposing>> \/ \E c \in Made : MovesOn(c)]_vars
  <2> SUFFICES ASSUME ScriptInv, [Next]_vars
               PROVE  [OneSent \/ UNCHANGED <<calls, disposing>> \/ \E c \in Made : MovesOn(c)]_vars
    OBVIOUS
  <2>0. Types /\ PlaceInv
    BY DEF ScriptInv
  <2>1. CASE Application
    BY <2>0, <2>1, SentFrame DEF OneSent, lib
  <2>2. CASE RemoveAllListeners
    BY <2>2 DEF RemoveAllListeners, jsVars
  <2>3. ASSUME NEW c \in Made, Close(c) PROVE MovesOn(c)
    <3>1. Pc(c) = "loaded" /\ Moved(c, "done", Context(c), Id(c)) /\ UNCHANGED disposing
      BY <2>0, <2>3, CloseFrame DEF Rest
    <3>2. "done" \in Pcs
      BY DEF Pcs
    <3> QED BY <2>0, <3>1, <3>2, Falls
  <2> QED BY <2>0, <2>1, <2>2, <2>3, ActMovesOn, NextIsAct
<1> QED BY ScriptInit, ScriptStep, <1>1, <1>2, PTL DEF Spec
=============================================================================
