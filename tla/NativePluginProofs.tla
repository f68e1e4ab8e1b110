------------------------- MODULE NativePluginProofs -------------------------
(* The native plugin for any number of calls: its types; on iOS, why a     *)
(* call may be refused; on Android, which calls may use a deleted context  *)
(* and which loads may lose theirs; what both promise of contexts; and     *)
(* which call may be lost, that no call goes back, and that no calls wait  *)
(* for each other in a circle.                                             *)
EXTENDS NativePlugin, JsInterfaceProofs

USE MaxCallsAssumption, PlatformsAssumption DEF MaxCallsAssumption, PlatformsAssumption

Pc(c) == calls[c].pc
Id(c) == calls[c].id

-----------------------------------------------------------------------------
(* The next entry of an iterator.                                          *)
LEMMA LeastOf ==
  ASSUME NEW n \in Int, NEW S \in SUBSET (0 .. n), S # {}
  PROVE  \E x \in S : \A y \in S : x <= y
<1> DEFINE Below(x) == {y \in S : y <= x}
           T == {Below(x) : x \in S}
           I == 0 .. n
           R == StrictSubsetOrdering(I)
<1>1. IsFiniteSet(I)
  BY FS_Interval
<1>2. IsWellFoundedOn(R, SUBSET I)
  BY <1>1, FS_StrictSubsetOrderingWellFounded, FS_FiniteSubsetsOfFinite
<1>3. T # {} /\ T \subseteq SUBSET I
  <2>1. T # {}
    <3>1. PICK x \in S : TRUE
      OBVIOUS
    <3>2. Below(x) \in T
      OBVIOUS
    <3> QED BY <3>2
  <2>2. \A x \in S : Below(x) \subseteq I
    OBVIOUS
  <2> HIDE DEF Below, I
  <2> QED BY <2>1, <2>2
<1> HIDE DEF T, R
<1>4. PICK t \in T : \A u \in T : <<u, t>> \notin R
  BY <1>2, <1>3, WFMin
<1>5. PICK x \in S : t = Below(x)
  BY <1>4 DEF T
<1>6. ASSUME NEW y \in S, y < x PROVE FALSE
  <2>1. Below(y) \subseteq Below(x) /\ x \in Below(x) /\ x \notin Below(y)
    <3>1. x \in Int /\ y \in Int /\ S \subseteq Int
      OBVIOUS
    <3>2. \A z \in Below(y) : z \in Below(x)
      BY <1>6, <3>1
    <3>3. x \in Below(x) /\ x \notin Below(y)
      BY <1>6, <3>1
    <3> HIDE DEF Below
    <3> QED BY <3>2, <3>3
  <2>2. Below(y) \in SUBSET I /\ Below(x) \in SUBSET I
    OBVIOUS
  <2> HIDE DEF Below, I
  <2>3. <<Below(y), Below(x)>> \in R
    BY <2>1, <2>2 DEF R, StrictSubsetOrdering
  <2>4. Below(y) \in T
    BY DEF T
  <2> QED BY <2>3, <2>4, <1>4, <1>5
<1> QED BY <1>6

LEMMA FirstKeyProperties ==
  ASSUME NEW k \in Nat
  PROVE  /\ FirstKey(k) \in Ids \cup {NoId}
         /\ FirstKey(k) # NoId => FirstKey(k) >= k /\ contexts[FirstKey(k)] # NoContext
         /\ \A i \in Ids : k <= i /\ contexts[i] # NoContext => FirstKey(k) # NoId /\ FirstKey(k) <= i
<1>1. CASE KeysFrom(k) = {}
  BY <1>1 DEF FirstKey, KeysFrom
<1>2. CASE KeysFrom(k) # {}
  <2>1. KeysFrom(k) \in SUBSET (0 .. MaxCalls - 1)
    BY DEF KeysFrom, Ids
  <2>2. \E i \in KeysFrom(k) : \A j \in KeysFrom(k) : i <= j
    <3>1. MaxCalls - 1 \in Int
      OBVIOUS
    <3> QED BY <1>2, <2>1, <3>1, LeastOf
  <2>3. FirstKey(k) \in KeysFrom(k) /\ \A j \in KeysFrom(k) : FirstKey(k) <= j
    BY <1>2, <2>2 DEF FirstKey
  <2> QED BY <2>3 DEF KeysFrom, NoId, Ids
<1> QED BY <1>1, <1>2

-----------------------------------------------------------------------------
(* Types.                                                                  *)
Types ==
  /\ JsInv(Pcs)
  /\ platform \in Platforms
  /\ contexts \in [Ids -> Contexts]
  /\ alive \subseteq Calls /\ interrupted \subseteq Calls /\ predicting \subseteq Calls
  /\ llamaDQueue \in Seq(Calls)
  /\ modified \subseteq Calls /\ fault \subseteq Calls /\ terminated \in BOOLEAN

LEMMA TypesTypeOK == Types => TypeOK
<1> SUFFICES ASSUME Types PROVE TypeOK
  OBVIOUS
<1>1. JsTypeOK
  BY JsTypes DEF Types
<1>2. \A c \in Made : calls[c].pc \in Pcs
  BY CallsType DEF Types, JsInv
<1> QED BY <1>1, <1>2 DEF Types, TypeOK

(* Whoever is between two of these steps has a context, and the iterator   *)
(* of a releaseAllContexts that is not out of date is at an entry.         *)
Holds ==
  /\ \A c \in Made : Pc(c) \in {"found", "stopping", "freeing", "queued", "starting", "running"}
                     => Context(c) # NoContext
  /\ \A c \in Made : Pc(c) \in {"found", "running"} => Op(c) # "releaseAllContexts"
  /\ \A c \in Made : Iterating(c) /\ c \notin modified /\ Id(c) # NoId => contexts[Id(c)] # NoContext

(* The four ways in which a call goes on.                                  *)
LEMMA Goes ==
  ASSUME NEW P, CallsInv(P), NEW c \in Made, NEW pc, NEW h, NEW k
  PROVE  /\ SetPc(c, pc) => Moved(c, pc, Context(c), Id(c))
         /\ Move(c, pc, h) => Moved(c, pc, h, Id(c))
         /\ calls' = [calls EXCEPT ![c].pc = pc, ![c].id = k] /\ Op(c) = "releaseAllContexts"
              => Moved(c, pc, Context(c), k)
         /\ calls' = [calls EXCEPT ![c].pc = pc, ![c].context = h, ![c].id = k]
              /\ Op(c) = "releaseAllContexts" => Moved(c, pc, h, k)
         /\ calls' = [calls EXCEPT ![c].pc = pc, ![c].id = k, ![c].context = h]
              /\ Op(c) = "releaseAllContexts" => Moved(c, pc, h, k)
<1>1. calls[c] \in CallRecord(P) /\ calls \in Seq(CallRecord(P)) /\ c \in DOMAIN calls
  BY CallsType DEF CallsInv, Made
<1> DEFINE r(q, g, i) == [op |-> calls[c].op, id |-> i, kind |-> calls[c].kind, pc |-> q,
                          context |-> g, during |-> calls[c].during]
<1>2. \A i : Moved(c, pc, h, i) <=>
        calls' = [calls EXCEPT ![c] = r(pc, h, i)] /\ (i = Id(c) \/ Op(c) = "releaseAllContexts")
  BY DEF Moved, Id
<1>3. \A i : Moved(c, pc, Context(c), i) <=>
        calls' = [calls EXCEPT ![c] = r(pc, Context(c), i)] /\ (i = Id(c) \/ Op(c) = "releaseAllContexts")
  BY DEF Moved, Id
<1>9. [calls[c] EXCEPT !.pc = pc] = r(pc, Context(c), Id(c))
  BY <1>1 DEF CallRecord, Context, Id
<1>4. ASSUME SetPc(c, pc) PROVE Moved(c, pc, Context(c), Id(c))
  <2>1. calls' = [calls EXCEPT ![c] = [calls[c] EXCEPT !.pc = pc]]
    BY <1>1, <1>4 DEF SetPc
  <2> HIDE DEF r
  <2> QED BY <1>3, <1>9, <2>1
<1>5. ASSUME Move(c, pc, h)
      PROVE  Moved(c, pc, h, Id(c))
  <2>1. calls' = [calls EXCEPT ![c] = [calls[c] EXCEPT !.pc = pc, !.context = h]]
    BY <1>1, <1>5 DEF Move
  <2>2. [calls[c] EXCEPT !.pc = pc, !.context = h] = r(pc, h, Id(c))
    <3>1. [calls[c] EXCEPT !.pc = pc, !.context = h] = [[calls[c] EXCEPT !.pc = pc] EXCEPT !.context = h]
      BY <1>1 DEF CallRecord
    <3>2. [r(pc, Context(c), Id(c)) EXCEPT !.context = h] = r(pc, h, Id(c))
      OBVIOUS
    <3> HIDE DEF r
    <3> QED BY <1>9, <3>1, <3>2
  <2> HIDE DEF r
  <2> QED BY <1>2, <1>5, <2>1, <2>2
<1>6. ASSUME calls' = [calls EXCEPT ![c].pc = pc, ![c].id = k], Op(c) = "releaseAllContexts"
      PROVE  Moved(c, pc, Context(c), k)
  <2>1. calls' = [calls EXCEPT ![c] = [calls[c] EXCEPT !.pc = pc, !.id = k]]
    BY <1>1, <1>6 DEF Move
  <2>2. [calls[c] EXCEPT !.pc = pc, !.id = k] = r(pc, Context(c), k)
    <3>1. [calls[c] EXCEPT !.pc = pc, !.id = k] = [[calls[c] EXCEPT !.pc = pc] EXCEPT !.id = k]
      BY <1>1 DEF CallRecord
    <3>2. [r(pc, Context(c), Id(c)) EXCEPT !.id = k] = r(pc, Context(c), k)
      OBVIOUS
    <3> HIDE DEF r
    <3> QED BY <1>9, <3>1, <3>2
  <2> HIDE DEF r
  <2> QED BY <1>3, <1>6, <2>1, <2>2
<1>7. ASSUME calls' = [calls EXCEPT ![c].pc = pc, ![c].context = h, ![c].id = k], Op(c) = "releaseAllContexts"
      PROVE  Moved(c, pc, h, k)
  <2>1. calls' = [calls EXCEPT ![c] = [calls[c] EXCEPT !.pc = pc, !.context = h, !.id = k]]
    BY <1>1, <1>7 DEF Move
  <2>2. [calls[c] EXCEPT !.pc = pc, !.context = h, !.id = k] = r(pc, h, k)
    <3>1. [calls[c] EXCEPT !.pc = pc, !.context = h, !.id = k] = [[[calls[c] EXCEPT !.pc = pc] EXCEPT !.context = h] EXCEPT !.id = k]
      BY <1>1 DEF CallRecord
    <3>2. [r(pc, Context(c), Id(c)) EXCEPT !.context = h] = r(pc, h, Id(c))
      OBVIOUS
    <3>3. [r(pc, h, Id(c)) EXCEPT !.id = k] = r(pc, h, k)
      OBVIOUS
    <3> HIDE DEF r
    <3> QED BY <1>9, <3>1, <3>2, <3>3
  <2> HIDE DEF r
  <2> QED BY <1>2, <1>7, <2>1, <2>2
<1>8. ASSUME calls' = [calls EXCEPT ![c].pc = pc, ![c].id = k, ![c].context = h], Op(c) = "releaseAllContexts"
      PROVE  Moved(c, pc, h, k)
  <2>1. calls' = [calls EXCEPT ![c] = [calls[c] EXCEPT !.pc = pc, !.id = k, !.context = h]]
    BY <1>1, <1>8 DEF Move
  <2>2. [calls[c] EXCEPT !.pc = pc, !.id = k, !.context = h] = r(pc, h, k)
    <3>1. [calls[c] EXCEPT !.pc = pc, !.id = k, !.context = h] = [[[calls[c] EXCEPT !.pc = pc] EXCEPT !.id = k] EXCEPT !.context = h]
      BY <1>1 DEF CallRecord
    <3>2. [r(pc, Context(c), Id(c)) EXCEPT !.id = k] = r(pc, Context(c), k)
      OBVIOUS
    <3>3. [r(pc, Context(c), k) EXCEPT !.context = h] = r(pc, h, k)
      OBVIOUS
    <3> HIDE DEF r
    <3> QED BY <1>9, <3>1, <3>2, <3>3
  <2> HIDE DEF r
  <2> QED BY <1>2, <1>8, <2>1, <2>2
<1> QED BY <1>4, <1>5, <1>6, <1>7, <1>8

LEMMA TypesMoved ==
  ASSUME Types, NEW c \in Made, ~Over(c), NEW pc \in Pcs, NEW h \in Contexts, NEW k \in Ids \cup {NoId},
         Moved(c, pc, h, k), UNCHANGED <<contextCounter, own, platform>>,
         contexts' \in [Ids -> Contexts], alive' \subseteq Calls, interrupted' \subseteq Calls,
         predicting' \subseteq Calls, llamaDQueue' \in Seq(Calls), modified' \subseteq Calls,
         fault' \subseteq Calls, terminated' \in BOOLEAN
  PROVE  Types'
<1>1. JsInv(Pcs)'
  BY JsMoved DEF Types
<1> QED BY <1>1 DEF Types

LEMMA CallTypes ==
  ASSUME Types, NEW c \in Made
  PROVE  /\ CallsInv(Pcs) /\ c \in Calls /\ c \in Nat /\ Made \subseteq Calls
         /\ Context(c) \in Contexts /\ Id(c) \in Ids \cup {NoId} /\ Pc(c) \in Pcs /\ Op(c) \in Ops
         /\ Op(c) # "releaseAllContexts" => Id(c) \in Ids /\ Found(c) \in Contexts
         /\ Context(c) # NoContext => Context(c) \in Calls
  BY CallsType DEF Types, JsInv, CallsInv, Context, Id, Pc, Found, Contexts

(* Using a context changes no more than the history and the application.   *)
LEMMA UseTypes ==
  ASSUME Types, NEW c \in Made, NEW h, Enter(c, h) \/ Dangle(c, h)
  PROVE  fault' \subseteq Calls /\ terminated' \in BOOLEAN
<1>1. c \in Calls /\ fault \subseteq Calls /\ terminated \in BOOLEAN
  BY CallTypes DEF Types
<1>2. CASE Enter(c, h)
  <2>1. fault' \subseteq Calls
    BY <1>1, <1>2 DEF Enter
  <2>2. terminated' \in BOOLEAN
    BY <1>2 DEF Enter
  <2> QED BY <2>1, <2>2
<1>3. CASE Dangle(c, h)
  BY <1>1, <1>3 DEF Dangle
<1> QED BY <1>2, <1>3

LEMMA AndroidTypes ==
  ASSUME Types, Holds, NEW c \in Made,
         \/ AndroidStep(c)
         \/ EndCompletion(c) /\ UNCHANGED <<contextCounter, own, platform, predicting, llamaDQueue>>
  PROVE  Types'
<1>0. UNCHANGED <<contextCounter, own, platform, predicting, llamaDQueue>>
  BY DEF AndroidStep
<1>1. CASE StartLoad(c)
  <2>1. Moved(c, "loading", Context(c), Id(c))
    BY <1>1, CallTypes, Goes DEF StartLoad
  <2> QED BY <1>0, <1>1, <2>1, CallTypes, TypesMoved DEF StartLoad, Types, At, Over, Pcs, mapVars, NotFound
<1>2. CASE FinishLoad(c)
  <2>1. CASE SetPc(c, "done") /\ UNCHANGED alive
    <3>1. Moved(c, "done", Context(c), Id(c))
      BY <2>1, CallTypes, Goes
    <3> QED BY <1>0, <1>2, <2>1, <3>1, CallTypes, TypesMoved DEF FinishLoad, Types, At, Over, Pcs, mapVars
  <2>2. CASE Move(c, "putting", c) /\ alive' = alive \cup {c}
    <3>1. Moved(c, "putting", c, Id(c))
      BY <2>2, CallTypes, Goes
    <3>2. alive' \subseteq Calls /\ c \in Contexts
      BY <2>2, CallTypes DEF Types, Contexts
    <3> QED BY <1>0, <1>2, <3>1, <3>2, CallTypes, TypesMoved DEF FinishLoad, Types, At, Over, Pcs, mapVars
  <2> QED BY <1>2, <2>1, <2>2 DEF FinishLoad
<1>3. CASE PutContext(c)
  <2>1. Moved(c, "loaded", Context(c), Id(c))
    BY <1>3, CallTypes, Goes DEF PutContext
  <2>2. contexts' \in [Ids -> Contexts] /\ modified' \subseteq Calls
    BY <1>3, CallTypes DEF PutContext, Types, Put, OutOfDate, Contexts, Id, At
  <2> QED BY <1>0, <1>3, <2>1, <2>2, CallTypes, TypesMoved DEF PutContext, Types, At, Over, Pcs, mapVars
<1>4. ASSUME NEW op \in {"completion", "tokenize", "stopCompletion", "releaseContext"},
             NEW pc \in {"found", "stopping"}, LookUp(c, op, pc)
      PROVE  Types'
  <2>1. Moved(c, pc, Found(c), Id(c))
    BY <1>4, CallTypes, Goes DEF LookUp
  <2>2. Found(c) \in Contexts
    BY <1>4, CallTypes DEF LookUp, At
  <2> QED BY <1>0, <1>4, <2>1, <2>2, CallTypes, TypesMoved DEF LookUp, Types, At, Over, Pcs, mapVars
<1>5. CASE LookUpFails(c)
  <2>1. Moved(c, "done", Context(c), Id(c))
    BY <1>5, CallTypes, Goes DEF LookUpFails
  <2> QED BY <1>0, <1>5, <2>1, CallTypes, TypesMoved DEF LookUpFails, Types, At, Over, Pcs, mapVars, NotFound
<1>6. CASE Rewind(c)
  <2>1. Moved(c, "running", Context(c), Id(c))
    BY <1>6, CallTypes, Goes DEF Rewind
  <2>2. fault' \subseteq Calls /\ terminated' \in BOOLEAN /\ interrupted' \subseteq Calls
    BY <1>6, CallTypes, UseTypes DEF Rewind, Types
  <2> QED BY <1>0, <1>6, <2>1, <2>2, CallTypes, TypesMoved DEF Rewind, Types, At, Over, Pcs, mapVars
<1>7. CASE EndCompletion(c)
  <2>1. Moved(c, "done", Context(c), Id(c))
    BY <1>7, CallTypes, Goes DEF EndCompletion
  <2>2. fault' \subseteq Calls /\ terminated' \in BOOLEAN
    BY <1>7, CallTypes, UseTypes DEF EndCompletion, Types
  <2> QED BY <1>0, <1>7, <2>1, <2>2, CallTypes, TypesMoved DEF EndCompletion, Types, At, Over, Pcs, mapVars
<1>8. CASE Tokenize(c)
  <2>1. Moved(c, "done", Context(c), Id(c))
    BY <1>8, CallTypes, Goes DEF Tokenize
  <2>2. fault' \subseteq Calls /\ terminated' \in BOOLEAN
    BY <1>8, CallTypes, UseTypes DEF Tokenize, Types
  <2> QED BY <1>0, <1>8, <2>1, <2>2, CallTypes, TypesMoved DEF Tokenize, Types, At, Over, Pcs, mapVars
<1>9. CASE Stop(c)
  <2> DEFINE pc == IF Op(c) = "stopCompletion" THEN "done" ELSE "freeing"
  <2>1. Moved(c, pc, Context(c), Id(c)) /\ pc \in Pcs
    BY <1>9, CallTypes, Goes DEF Stop, Pcs
  <2>2. fault' \subseteq Calls /\ terminated' \in BOOLEAN /\ interrupted' \subseteq Calls
    BY <1>9, CallTypes, UseTypes DEF Stop, Types, At, Holds, Pc
  <2> HIDE DEF pc
  <2> QED BY <1>0, <1>9, <2>1, <2>2, CallTypes, TypesMoved DEF Stop, Types, At, Over, mapVars
<1>10. CASE FreeContext(c)
  <2> DEFINE pc == IF Op(c) = "releaseContext" THEN "removing" ELSE "iterating"
  <2>1. Moved(c, pc, Context(c), Id(c)) /\ pc \in Pcs
    BY <1>10, CallTypes, Goes DEF FreeContext, Pcs
  <2>2. fault' \subseteq Calls /\ terminated' \in BOOLEAN /\ alive' \subseteq Calls
    BY <1>10, CallTypes, UseTypes DEF FreeContext, Types
  <2> HIDE DEF pc
  <2> QED BY <1>0, <1>10, <2>1, <2>2, CallTypes, TypesMoved DEF FreeContext, Types, At, Over, mapVars
<1>11. CASE RemoveContext(c)
  <2>1. Moved(c, "done", Context(c), Id(c))
    BY <1>11, CallTypes, Goes DEF RemoveContext
  <2>2. contexts' \in [Ids -> Contexts] /\ modified' \subseteq Calls
    BY <1>11, CallTypes DEF RemoveContext, Types, Remove, OutOfDate, Contexts, Id, At
  <2> QED BY <1>0, <1>11, <2>1, <2>2, CallTypes, TypesMoved DEF RemoveContext, Types, At, Over, Pcs, mapVars
<1>12. CASE BeginReleaseAll(c)
  <2>1. Moved(c, "iterating", Context(c), FirstKey(0))
    BY <1>12, CallTypes, Goes DEF BeginReleaseAll, At
  <2>2. FirstKey(0) \in Ids \cup {NoId}
    BY FirstKeyProperties
  <2> QED BY <1>0, <1>12, <2>1, <2>2, CallTypes, TypesMoved DEF BeginReleaseAll, Types, At, Over, Pcs, mapVars
<1>13. CASE NextContext(c)
  <2>1. CASE SetPc(c, "lost")
    <3>1. Moved(c, "lost", Context(c), Id(c))
      BY <2>1, CallTypes, Goes
    <3> QED BY <1>0, <1>13, <3>1, CallTypes, TypesMoved DEF NextContext, Types, At, Over, Pcs, mapVars
  <2>2. CASE ~(c \in modified)
    <3>1. Moved(c, "stopping", contexts[Id(c)], FirstKey(Id(c) + 1))
      BY <1>13, <2>2, CallTypes, Goes DEF NextContext, At, Id
    <3>2. Id(c) \in Ids
      BY <1>13, CallTypes DEF NextContext, Id
    <3>3. FirstKey(Id(c) + 1) \in Ids \cup {NoId} /\ contexts[Id(c)] \in Contexts
      <4>1. Id(c) + 1 \in Nat
        BY <3>2 DEF Ids
      <4> QED BY <3>2, <4>1, FirstKeyProperties DEF Types
    <3> QED BY <1>0, <1>13, <3>1, <3>3, CallTypes, TypesMoved DEF NextContext, Types, At, Over, Pcs, mapVars
  <2> QED BY <1>13, <2>1, <2>2 DEF NextContext
<1>14. CASE EndReleaseAll(c)
  <2>1. Moved(c, "done", Context(c), Id(c))
    BY <1>14, CallTypes, Goes DEF EndReleaseAll
  <2>2. contexts' \in [Ids -> Contexts] /\ modified' \subseteq Calls
    BY <1>14, CallTypes DEF EndReleaseAll, Types, OutOfDate, Contexts
  <2> QED BY <1>0, <1>14, <2>1, <2>2, CallTypes, TypesMoved DEF EndReleaseAll, Types, At, Over, Pcs, mapVars
<1> QED
  BY <1>1, <1>2, <1>3, <1>4, <1>5, <1>6, <1>7, <1>8, <1>9, <1>10, <1>11, <1>12, <1>13, <1>14 DEF AndroidStep

-----------------------------------------------------------------------------
(* iOS, as long as the application is not ended.                           *)
InQueue(c) == \E i \in 1 .. Len(llamaDQueue) : llamaDQueue[i] = c

(* A completion from its dispatch to its end: its block is in the queue,   *)
(* the one that has begun is the first, and its context is there.          *)
QueueInv ==
  \A c \in Made : Pc(c) \in {"queued", "starting", "running"} =>
    /\ InQueue(c)
    /\ Pc(c) \in {"starting", "running"} => c = llamaDQueue[1]
    /\ Context(c) \in alive /\ Id(Context(c)) = Id(c)

LEMMA QueueType ==
  ASSUME Types, NEW c \in Made, InQueue(c)
  PROVE  /\ llamaDQueue \in Seq(Calls) /\ llamaDQueue # <<>> /\ Tail(llamaDQueue) \in Seq(Calls)
         /\ Len(llamaDQueue) \in Nat \ {0} /\ Len(Tail(llamaDQueue)) = Len(llamaDQueue) - 1
         /\ \A i \in 1 .. Len(llamaDQueue) - 1 : Tail(llamaDQueue)[i] = llamaDQueue[i + 1]
         /\ Head(llamaDQueue) = llamaDQueue[1]
<1>1. llamaDQueue \in Seq(Calls) /\ Len(llamaDQueue) \in Nat \ {0}
  BY DEF Types, InQueue
<1>2. llamaDQueue # <<>>
  BY <1>1
<1> QED BY <1>1, <1>2

LEMMA IosTypes ==
  ASSUME Types, Holds, QueueInv, NEW c \in Made,
         \/ IosStep(c)
         \/ IosEnd(c) /\ UNCHANGED <<contextCounter, own, platform, modified>>
  PROVE  Types'
<1>0. UNCHANGED <<contextCounter, own, platform, modified>>
  BY DEF IosStep
<1>1. ASSUME Uncaught(c), ~Over(c) PROVE Types'
  <2>1. Moved(c, "lost", Context(c), Id(c)) /\ Context(c) \in Contexts
    BY <1>1, CallTypes, Goes DEF Uncaught
  <2> QED BY <1>0, <1>1, <2>1, CallTypes, TypesMoved DEF Uncaught, Types, Pcs
<1>2. CASE Missing(c) \/ Busy(c) \/ IosFail(c)
  BY <1>1, <1>2 DEF Missing, Busy, IosFail, Turn, At, Over
<1>3. CASE IosLoad(c)
  <2>0. ~Over(c) /\ Id(c) \in Ids /\ c \in Contexts
    BY <1>3, CallTypes DEF IosLoad, Turn, At, Over, Contexts
  <2>1. CASE SetPc(c, "done") /\ UNCHANGED <<contexts, alive>>
    <3>1. Moved(c, "done", Context(c), Id(c)) /\ Context(c) \in Contexts
      BY <2>1, CallTypes, Goes
    <3> QED BY <1>0, <1>3, <2>0, <2>1, <3>1, CallTypes, TypesMoved DEF IosLoad, Types, Pcs
  <2>2. CASE /\ Move(c, "loaded", c) /\ alive' = alive \cup {c}
             /\ contexts' = [contexts EXCEPT ![calls[c].id] = c]
    <3>1. Moved(c, "loaded", c, Id(c))
      BY <2>2, CallTypes, Goes
    <3>2. alive' \subseteq Calls /\ contexts' \in [Ids -> Contexts]
      BY <2>0, <2>2, CallTypes DEF Types, Id
    <3> QED BY <1>0, <1>3, <2>0, <3>1, <3>2, CallTypes, TypesMoved DEF IosLoad, Types, Pcs
  <2> QED BY <1>3, <2>1, <2>2 DEF IosLoad
<1>4. CASE IosDispatch(c)
  <2>1. Moved(c, "queued", Found(c), Id(c)) /\ ~Over(c) /\ Found(c) \in Contexts
    BY <1>4, CallTypes, Goes DEF IosDispatch, Turn, At, Over
  <2>2. llamaDQueue' \in Seq(Calls)
    BY <1>4, CallTypes DEF IosDispatch, Types, Turn, At
  <2> QED BY <1>0, <1>4, <2>1, <2>2, CallTypes, TypesMoved DEF IosDispatch, Types, Pcs
<1>5. CASE IosRewind(c)
  <2>1. Moved(c, "starting", Context(c), Id(c)) /\ ~Over(c) /\ Context(c) \in Contexts
    BY <1>5, CallTypes, Goes DEF IosRewind, Turn, At, Over
  <2>2. fault' \subseteq Calls /\ terminated' \in BOOLEAN /\ interrupted' \subseteq Calls
    BY <1>5, CallTypes, UseTypes DEF IosRewind, Types, Turn, At
  <2> QED BY <1>0, <1>5, <2>1, <2>2, CallTypes, TypesMoved DEF IosRewind, Types, Pcs
<1>6. CASE IosBegin(c)
  <2>1. Moved(c, "running", Context(c), Id(c)) /\ ~Over(c) /\ Context(c) \in Contexts
    BY <1>6, CallTypes, Goes DEF IosBegin, Turn, At, Over
  <2>2. fault' \subseteq Calls /\ terminated' \in BOOLEAN /\ predicting' \subseteq Calls
    BY <1>6, CallTypes, UseTypes DEF IosBegin, Types, Turn, At, Holds, Pc
  <2> QED BY <1>0, <1>6, <2>1, <2>2, CallTypes, TypesMoved DEF IosBegin, Types, Pcs
<1>7. CASE IosEnd(c)
  <2>1. Moved(c, "done", Context(c), Id(c)) /\ ~Over(c) /\ Context(c) \in Contexts
    BY <1>7, CallTypes, Goes DEF IosEnd, Turn, At, Over
  <2>2. fault' \subseteq Calls /\ terminated' \in BOOLEAN /\ predicting' \subseteq Calls /\ llamaDQueue' \in Seq(Calls)
    BY <1>7, CallTypes, UseTypes, QueueType DEF IosEnd, Types, Turn, At, QueueInv, Pc
  <2> QED BY <1>0, <1>7, <2>1, <2>2, CallTypes, TypesMoved DEF IosEnd, Types, Pcs
<1>8. CASE IosUse(c)
  <2>1. Moved(c, "done", Context(c), Id(c)) /\ ~Over(c) /\ Context(c) \in Contexts
    BY <1>8, CallTypes, Goes DEF IosUse, Turn, At, Over
  <2>2. fault' \subseteq Calls /\ terminated' \in BOOLEAN /\ interrupted' \subseteq Calls
    BY <1>8, CallTypes, UseTypes DEF IosUse, Types, Turn, At, Contexts
  <2> QED BY <1>0, <1>8, <2>1, <2>2, CallTypes, TypesMoved DEF IosUse, Types, Pcs
<1>9. CASE IosRelease(c)
  <2>1. Moved(c, "barrier", Found(c), Id(c)) /\ ~Over(c) /\ Found(c) \in Contexts
    BY <1>9, CallTypes, Goes DEF IosRelease, Turn, At, Over
  <2>2. fault' \subseteq Calls /\ terminated' \in BOOLEAN /\ interrupted' \subseteq Calls
    BY <1>9, CallTypes, UseTypes DEF IosRelease, Types, Turn, At, Contexts
  <2> QED BY <1>0, <1>9, <2>1, <2>2, CallTypes, TypesMoved DEF IosRelease, Types, Pcs
<1>10. CASE IosInvalidate(c)
  <2>1. Moved(c, "done", Context(c), Id(c)) /\ ~Over(c) /\ Context(c) \in Contexts
    BY <1>10, CallTypes, Goes DEF IosInvalidate, Turn, At, Over
  <2>2. fault' \subseteq Calls /\ terminated' \in BOOLEAN /\ alive' \subseteq Calls /\ contexts' \in [Ids -> Contexts]
    BY <1>10, CallTypes, UseTypes DEF IosInvalidate, Types, Turn, At, Contexts
  <2> QED BY <1>0, <1>10, <2>1, <2>2, CallTypes, TypesMoved DEF IosInvalidate, Types, Pcs
<1>11. ASSUME NEW k \in Nat, IosVisit(c, k), Op(c) = "releaseAllContexts", ~Over(c)
       PROVE  /\ contexts' \in [Ids -> Contexts] /\ interrupted' \subseteq Calls
              /\ \E pc \in Pcs, h \in Contexts, i \in Ids \cup {NoId} : Moved(c, pc, h, i)
  <2>1. CASE FirstKey(k) = NoId
    <3>1. Moved(c, "done", Context(c), Id(c))
      BY <1>11, <2>1, CallTypes, Goes DEF IosVisit
    <3> QED BY <1>11, <2>1, <3>1, CallTypes DEF IosVisit, Types, Contexts, Pcs
  <2>2. CASE FirstKey(k) # NoId
    <3>1. FirstKey(k) \in Ids /\ contexts[FirstKey(k)] \in Calls
      BY <2>2, FirstKeyProperties DEF Types, Contexts
    <3>2. Moved(c, "barrier", contexts[FirstKey(k)], FirstKey(k))
      BY <1>11, <2>2, CallTypes, Goes DEF IosVisit
    <3> QED BY <1>11, <2>2, <3>1, <3>2 DEF IosVisit, Types, Contexts, Pcs
  <2> QED BY <2>1, <2>2
<1>12. CASE IosReleaseAll(c)
  <2>1. IosVisit(c, 0) /\ Op(c) = "releaseAllContexts" /\ ~Over(c)
    BY <1>12 DEF IosReleaseAll, Turn, At, Over
  <2> QED BY <1>0, <1>11, <1>12, <2>1, TypesMoved DEF IosReleaseAll, Types
<1>13. CASE IosReleaseNext(c)
  <2>1. IosVisit(c, Id(c) + 1) /\ Op(c) = "releaseAllContexts" /\ ~Over(c)
    BY <1>13 DEF IosReleaseNext, At, Over, Id
  <2>2. Id(c) + 1 \in Nat
    BY CallTypes DEF Ids, NoId
  <2>3. fault' \subseteq Calls /\ terminated' \in BOOLEAN /\ alive' \subseteq Calls
    BY <1>13, CallTypes, UseTypes DEF IosReleaseNext, Types
  <2> QED BY <1>0, <1>11, <1>13, <2>1, <2>2, <2>3, TypesMoved DEF IosReleaseNext, Types
<1> QED
  BY <1>2, <1>3, <1>4, <1>5, <1>6, <1>7, <1>8, <1>9, <1>10, <1>12, <1>13 DEF IosStep

-----------------------------------------------------------------------------
(* What a step of one call, and a call that is sent, leave as it was.      *)
LEMMA Frame ==
  ASSUME Types, NEW c \in Made, NEW pc, NEW h, NEW k, Moved(c, pc, h, k)
  PROVE  /\ Made' = Made
         /\ \A d \in Made : d # c => Pc(d)' = Pc(d) /\ Id(d)' = Id(d) /\ Context(d)' = Context(d)
         /\ Pc(c)' = pc /\ Id(c)' = k /\ Context(c)' = h
         /\ \A d \in Made : /\ Op(d)' = Op(d) /\ calls'[d].during = calls[d].during
                            /\ Op(d) # "releaseAllContexts" => Id(d)' = Id(d)
         /\ \A d, e \in Made : Overlap(d, e)' <=> Overlap(d, e)
<1>1. CallsInv(Pcs)
  BY DEF Types, JsInv
<1> QED BY <1>1, MovedFrame DEF Pc, Id, Context, Op, Overlap

LEMMA SentFrame ==
  ASSUME Types, Application
  PROVE  /\ Types' /\ ~terminated /\ UNCHANGED <<contextCounter, own, native>>
         /\ \E n \in Calls, op \in Ops :
              /\ Made' = Made \cup {n} /\ n \notin Made /\ \A d \in Made : d < n
              /\ \A d \in Made : calls'[d] = calls[d]
              /\ calls'[n].op = op /\ calls'[n].pc = "sent" /\ calls'[n].context = NoContext
              /\ calls'[n].id \in Ids \cup {NoId}
              /\ calls'[n].during = {d \in Made : ~Over(d)}
              /\ op = "initContext" => calls'[n].id = contextCounter
              /\ op \notin {"initContext", "releaseAllContexts"} => calls'[n].id < contextCounter
              /\ op # "releaseAllContexts" => calls'[n].id \in Ids
<1>0. CallsInv(Pcs) /\ JsInv(Pcs) /\ "sent" \in Pcs /\ NoKind \in Kind
  BY DEF Types, JsInv, Pcs, NoKind, Kind
<1>1. JsInv(Pcs)'
  BY <1>0, JsLoad, JsReleaseAll, JsUse DEF Application
<1>2. Types' /\ ~terminated /\ UNCHANGED <<contextCounter, own, native>>
  BY <1>1 DEF Types, Application, native, Load, ReleaseAll, Use
<1>3. PICK op \in Ops, k \in Ids \cup {NoId} :
        /\ Send(op, k, NoKind)
        /\ op = "initContext" => k = contextCounter
        /\ op \notin {"initContext", "releaseAllContexts"} => k < contextCounter
        /\ op # "releaseAllContexts" => k \in Ids
  <2>1. CASE Load
    <3>1. contextCounter \in Ids
      BY <1>0, <2>1, CounterBound, CallsType DEF Load, Send, Ids, JsInv
    <3> QED BY <2>1, <3>1 DEF Load, Ops
  <2>2. CASE ReleaseAll
    BY <2>2 DEF ReleaseAll, Ops
  <2>3. ASSUME NEW k \in Ids, NEW op \in {"completion", "stopCompletion", "tokenize", "releaseContext"},
               Use(k, op, NoKind)
        PROVE  \E o \in Ops, i \in Ids \cup {NoId} :
                 /\ Send(o, i, NoKind)
                 /\ o = "initContext" => i = contextCounter
                 /\ o \notin {"initContext", "releaseAllContexts"} => i < contextCounter
                 /\ o # "releaseAllContexts" => i \in Ids
    BY <2>3 DEF Use, Ops
  <2> QED BY <2>1, <2>2, <2>3 DEF Application
<1>4. Len(calls) + 1 \in Calls
  BY <1>0, <1>3, SendFrame
<1>5. /\ Made' = Made \cup {Len(calls) + 1} /\ Len(calls) + 1 \notin Made
      /\ \A d \in Made : d < Len(calls) + 1 /\ calls'[d] = calls[d]
      /\ calls'[Len(calls) + 1].op = op /\ calls'[Len(calls) + 1].pc = "sent"
      /\ calls'[Len(calls) + 1].id = k /\ calls'[Len(calls) + 1].context = NoContext
      /\ calls'[Len(calls) + 1].during = {d \in Made : ~Over(d)}
  BY <1>0, <1>3, SendFrame
<1> QED BY <1>2, <1>3, <1>4, <1>5

LEMMA AnswerFrame ==
  ASSUME Types, NEW c \in Made, Answer(c)
  PROVE  /\ Types' /\ ~terminated /\ UNCHANGED native
         /\ Op(c) = "initContext" /\ Pc(c) = "loaded" /\ Moved(c, "done", Context(c), Id(c))
         /\ contextCounter' = contextCounter + 1 /\ contextCounter = Len(own) /\ Len(own) \in Nat
         /\ Len(own') = Len(own) + 1 /\ own'[Len(own) + 1] = c
         /\ \A k \in 1 .. Len(own) : own'[k] = own[k] /\ own[k] \in Made
<1>1. JsInv(Pcs) /\ CallsInv(Pcs) /\ "done" \in Pcs /\ LoadAnswered(c) /\ UNCHANGED native /\ ~terminated
  BY DEF Types, JsInv, Pcs, Answer
<1>2. JsInv(Pcs)'
  BY <1>1, JsAnswered
<1>3. Moved(c, "done", Context(c), Id(c))
  BY <1>1, AnsweredMoves DEF Context, Id
<1>4. own \in Seq(Calls) /\ c \in Calls /\ contextCounter = Len(own) /\ own' = Append(own, c)
      /\ \A k \in 1 .. Len(own) : own[k] \in Made
  BY <1>1, CallsType DEF JsInv, OwnInv, LoadAnswered
<1> QED BY <1>1, <1>2, <1>3, <1>4 DEF Types, native, LoadAnswered, Pc

-----------------------------------------------------------------------------
(* The invariant of iOS.                                                   *)
IosPlace(op, pc) ==
  \/ pc \in {"sent", "done"}
  \/ op = "initContext" /\ pc = "loaded"
  \/ op = "completion" /\ pc \in {"queued", "starting", "running", "lost"}
  \/ op \in {"tokenize", "stopCompletion"} /\ pc = "lost"
  \/ op = "releaseContext" /\ pc \in {"barrier", "lost"}
  \/ op = "releaseAllContexts" /\ pc = "barrier"

PlaceInv == \A c \in Made : IosPlace(Op(c), Pc(c)) /\ (Pc(c) = "lost" => terminated)

(* The bridge's queue runs the calls in order.                             *)
TurnInv == \A c, d \in Made : c < d /\ Pc(d) # "sent" => Pc(c) \notin {"sent", "barrier"}

(* A context is stored under the id its load was sent with; it is deleted  *)
(* exactly if a releaseAllContexts under way is past it.                   *)
StoredInv ==
  \A i \in Ids : contexts[i] # NoContext =>
    /\ contexts[i] \in Made /\ Op(contexts[i]) = "initContext" /\ Id(contexts[i]) = i
    /\ contexts[i] \notin alive <=>
         \E c \in Made : Pc(c) = "barrier" /\ Op(c) = "releaseAllContexts" /\ i < Id(c)
KeptInv == \A c \in alive : c \in Made /\ Op(c) = "initContext" /\ contexts[Id(c)] = c

BarrierInv ==
  \A c \in Made : Pc(c) = "barrier" =>
    Id(c) \in Ids /\ Context(c) # NoContext /\ contexts[Id(c)] = Context(c) /\ Context(c) \in alive

PredictInv == ~terminated => \A h \in predicting : \E c \in Made : Pc(c) = "running" /\ Context(c) = h

(* A release has an id that was counted before, a load sent later does not.*)
LaterInv == \A c, d \in Made : c < d /\ Op(c) = "releaseContext" /\ Op(d) = "initContext" => Id(c) < Id(d)

(* A releaseAllContexts has begun that was under way together with a load. *)
Upset == \E c, d \in Made : /\ Op(c) = "initContext" /\ Op(d) = "releaseAllContexts"
                            /\ Pc(d) # "sent" /\ Overlap(c, d)

(* A load that was sent the id of an object is refused; one that succeeded *)
(* is stored under the id of the object it is about to make.               *)
LoadInv ==
  \/ Upset
  \/ /\ \A c \in Made : Op(c) = "initContext" =>
          /\ Pc(c) = "sent" /\ Id(c) < contextCounter => contexts[Id(c)] # NoContext
          /\ Pc(c) = "loaded" => Id(c) = contextCounter /\ contexts[Id(c)] = c
     /\ \A k \in 1 .. Len(own) : Id(own[k]) = k - 1

(* The context of an object is there unless somebody released it.          *)
Begun(id) == \E d \in Made : /\ Pc(d) # "sent"
                             /\ \/ Op(d) = "releaseAllContexts"
                                \/ Op(d) = "releaseContext" /\ Id(d) = id
ObjectInv == \A k \in 0 .. contextCounter - 1 : contexts[k] # NoContext \/ Begun(k)

ReasonInv == RefusedForAReason /\ fault = {}

MapInv == StoredInv /\ KeptInv /\ LaterInv /\ LoadInv /\ ObjectInv
IosInv == /\ PlaceInv /\ TurnInv /\ MapInv /\ BarrierInv /\ QueueInv /\ PredictInv /\ ReasonInv

-----------------------------------------------------------------------------
(* The call that the bridge's queue runs finds nobody at the barrier.      *)
LEMMA Idle ==
  ASSUME Types, IosInv, NEW c \in Made, NEW op, Turn(c, op)
  PROVE  /\ \A d \in Made : Pc(d) # "barrier"
         /\ \A d \in Made : d < c => Pc(d) # "sent"
         /\ \A d \in Made : Pc(d) # "sent" => d < c
         /\ \A i \in Ids : contexts[i] # NoContext => contexts[i] \in alive
<1>1. c \in Nat /\ \A d \in Made : d \in Nat /\ d >= 1
  BY CallTypes, CallsType DEF Calls
<1>2. \A d \in Made : d < c => Pc(d) \notin {"sent", "barrier"}
  <2>1. \A d \in Made : d < c => d \in 1 .. c - 1
    BY <1>1
  <2> QED BY <2>1 DEF Turn, Pc
<1>3. \A d \in Made : c < d => Pc(d) = "sent"
  BY DEF IosInv, TurnInv, Turn, At, Pc
<1>4. Pc(c) = "sent"
  BY DEF Turn, At, Pc
<1>5. \A d \in Made : d < c \/ d = c \/ c < d
  BY <1>1
<1>6. \A d \in Made : Pc(d) # "barrier"
  BY <1>2, <1>3, <1>4, <1>5
<1> QED BY <1>2, <1>3, <1>4, <1>5, <1>6 DEF IosInv, MapInv, StoredInv

(* Nor does a call at the barrier find another one there.                  *)
LEMMA Alone ==
  ASSUME Types, IosInv, NEW c \in Made, Pc(c) = "barrier"
  PROVE  /\ \A d \in Made : d # c => Pc(d) # "barrier"
         /\ \A d \in Made : c < d => Pc(d) = "sent"
         /\ \A d \in Made : d < c => Pc(d) \notin {"sent", "barrier"}
<1>1. \A d \in Made : d \in Nat
  BY CallTypes
<1>2. \A d \in Made : d < c \/ d = c \/ c < d
  BY <1>1
<1>3. \A d \in Made : (c < d => Pc(d) = "sent") /\ (d < c => Pc(d) \notin {"sent", "barrier"})
  BY DEF IosInv, TurnInv
<1> QED BY <1>2, <1>3

LEMMA TurnMoved ==
  ASSUME Types, IosInv, NEW c \in Made, NEW pc, NEW h, NEW k, Moved(c, pc, h, k),
         Pc(c) # "sent" \/ \E op : Turn(c, op), pc # "sent",
         pc = "barrier" => Pc(c) \in {"sent", "barrier"}
  PROVE  TurnInv'
<1>1. \A d \in Made : d < c => Pc(d) \notin {"sent", "barrier"}
  BY Idle DEF IosInv, TurnInv
<1>2. \A d \in Made : c < d /\ Pc(d) # "sent" => Pc(c) \notin {"sent", "barrier"}
  BY DEF IosInv, TurnInv
<1> QED BY <1>1, <1>2, Frame DEF IosInv, TurnInv

LEMMA UpsetStays ==
  ASSUME Types, NEW c \in Made, NEW pc, NEW h, NEW k, Moved(c, pc, h, k), pc # "sent"
  PROVE  (Upset => Upset') /\ \A i : Begun(i) => Begun(i)'
<1>1. ASSUME Upset PROVE Upset'
  BY <1>1, Frame DEF Upset
<1>2. ASSUME NEW i, Begun(i) PROVE Begun(i)'
  BY <1>2, Frame DEF Begun
<1> QED BY <1>1, <1>2

(* A step that leaves the map and the contexts alone.                      *)
LEMMA MapMoved ==
  ASSUME Types, IosInv, NEW c \in Made, NEW pc, NEW h, Moved(c, pc, h, Id(c)),
         pc \notin {"sent", "loaded"}, Pc(c) \notin {"barrier", "loaded"},
         pc = "barrier" => Op(c) # "releaseAllContexts",
         UNCHANGED <<contexts, alive, contextCounter, own>>
  PROVE  MapInv'
<1> USE DEF IosInv, MapInv
<1>1. /\ Made' = Made
      /\ \A d \in Made : /\ Op(d)' = Op(d) /\ Id(d)' = Id(d)
                         /\ d # c => Pc(d)' = Pc(d)
      /\ Pc(c)' = pc
  BY Frame
<1>2. StoredInv'
  BY <1>1 DEF StoredInv
<1>3. KeptInv'
  BY <1>1 DEF KeptInv
<1>4. LaterInv'
  BY <1>1 DEF LaterInv
<1>5. LoadInv'
  BY <1>1, UpsetStays DEF LoadInv, Types, JsInv, OwnInv
<1>6. ObjectInv'
  BY <1>1, UpsetStays DEF ObjectInv
<1> QED BY <1>2, <1>3, <1>4, <1>5, <1>6

(* The same for the rest of what a step of one call may disturb; at the    *)
(* barrier a releaseContext holds the context it found.                    *)
LEMMA LocalMoved ==
  ASSUME Types, platform = "ios", IosInv, NEW c \in Made, NEW pc, NEW h, Moved(c, pc, h, Id(c)),
         pc \notin {"sent", "loaded"}, Pc(c) \notin {"barrier", "loaded"},
         Pc(c) # "sent" \/ \E op : Turn(c, op), IosPlace(Op(c), pc), pc = "lost" => terminated',
         terminated => terminated',
         pc = "barrier" => /\ Pc(c) = "sent" /\ Op(c) = "releaseContext"
                           /\ h = Found(c) /\ h # NoContext /\ h \in alive,
         UNCHANGED <<contexts, alive, contextCounter, own>>
  PROVE  PlaceInv' /\ TurnInv' /\ MapInv' /\ BarrierInv'
<1>1. /\ Made' = Made
      /\ \A d \in Made : /\ Op(d)' = Op(d) /\ Id(d)' = Id(d)
                         /\ d # c => Pc(d)' = Pc(d) /\ Context(d)' = Context(d)
      /\ Pc(c)' = pc /\ Context(c)' = h
  BY Frame
<1>2. PlaceInv'
  BY <1>1 DEF IosInv, PlaceInv
<1>3. TurnInv'
  BY TurnMoved
<1>4. MapInv'
  BY MapMoved
<1>5. BarrierInv'
  BY <1>1, CallTypes DEF IosInv, BarrierInv, Found, Id
<1> QED BY <1>2, <1>3, <1>4, <1>5

LEMMA QueueMoved ==
  ASSUME Types, platform = "ios", IosInv, NEW c \in Made, NEW pc, NEW h, NEW k, Moved(c, pc, h, k),
         pc \notin {"queued", "starting", "running"}, UNCHANGED <<alive, llamaDQueue>>
  PROVE  QueueInv'
<1>1. \A d \in Made : Pc(d) \in {"queued", "starting", "running"} =>
        Context(d) \in Made /\ Op(Context(d)) = "initContext" /\ Op(d) = "completion"
  BY DEF IosInv, QueueInv, MapInv, KeptInv, PlaceInv, IosPlace
<1> QED BY <1>1, Frame DEF IosInv, QueueInv, InQueue

LEMMA ReasonMoved ==
  ASSUME Types, IosInv, NEW c \in Made, NEW pc, NEW h, NEW k, Moved(c, pc, h, k), platform' = platform,
         pc # "lost", fault' = fault
  PROVE  ReasonInv'
<1>1. CallsInv(Pcs)
  BY DEF Types, JsInv
<1>2. Made = 1 .. Len(calls) /\ Len(calls) \in Nat
  BY <1>1, CallsType
<1>3. /\ Made' = Made
      /\ \A d \in Made : /\ Op(d)' = Op(d) /\ calls'[d].during = calls[d].during
                         /\ Op(d) # "releaseAllContexts" => calls'[d].id = calls[d].id
                         /\ d # c => calls'[d] = calls[d]
      /\ calls'[c].pc = pc
  BY <1>1, MovedFrame DEF Op
<1>4. ASSUME NEW d \in Made, platform = "ios", calls'[d].pc = "lost", Context(d)' = NoContext
      PROVE  \E e \in 1 .. d - 1 :
               \/ Op(e)' = "releaseAllContexts"
               \/ Op(e)' = "releaseContext" /\ calls'[e].id = calls'[d].id
               \/ /\ Op(d)' = "completion" /\ Op(e)' = "completion"
                  /\ calls'[e].id = calls'[d].id /\ e \in calls'[d].during
  <2>1. calls'[d] = calls[d] /\ calls[d].pc = "lost" /\ Context(d) = NoContext
    BY <1>3, <1>4 DEF Context
  <2>2. PICK e \in 1 .. d - 1 :
          \/ Op(e) = "releaseAllContexts"
          \/ Op(e) = "releaseContext" /\ calls[e].id = calls[d].id
          \/ /\ Op(d) = "completion" /\ Op(e) = "completion"
             /\ calls[e].id = calls[d].id /\ e \in calls[d].during
    BY <1>4, <2>1 DEF IosInv, ReasonInv, RefusedForAReason
  <2>3. e \in Made
    BY <1>2
  <2> QED BY <1>3, <2>1, <2>2, <2>3
<1> QED BY <1>3, <1>4 DEF IosInv, ReasonInv, RefusedForAReason

-----------------------------------------------------------------------------
(* The steps of iOS, one by one.                                           *)

(* A call that finds no context: its object was released before.           *)
LEMMA MissingReason ==
  ASSUME Types, IosInv, NEW c \in Made, Missing(c)
  PROVE  \E d \in 1 .. c - 1 : \/ Op(d) = "releaseAllContexts"
                               \/ Op(d) = "releaseContext" /\ calls[d].id = calls[c].id
<1>1. PICK op \in {"completion", "stopCompletion", "tokenize", "releaseContext"} : Turn(c, op)
  BY DEF Missing
<1>2. Op(c) = op /\ Id(c) \in Ids /\ Id(c) < contextCounter /\ contexts[Id(c)] = NoContext
  BY <1>1, CallTypes DEF Types, JsInv, CounterInv, Missing, Found, Id, Turn, At
<1>3. Id(c) \in 0 .. contextCounter - 1
  BY <1>2, CounterBound DEF Types, JsInv, Ids
<1>4. PICK d \in Made : /\ Pc(d) # "sent"
                        /\ \/ Op(d) = "releaseAllContexts"
                           \/ Op(d) = "releaseContext" /\ Id(d) = Id(c)
  BY <1>2, <1>3 DEF IosInv, MapInv, ObjectInv, Begun
<1>5. d < c /\ d \in Calls /\ c \in Calls
  BY <1>1, <1>4, Idle, CallTypes
<1>6. d \in 1 .. c - 1
  BY <1>5 DEF Calls
<1> QED BY <1>4, <1>6 DEF Id

LEMMA BusyReason ==
  ASSUME Types, IosInv, NEW c \in Made, Busy(c)
  PROVE  \E d \in 1 .. c - 1 : /\ Op(c) = "completion" /\ Op(d) = "completion"
                               /\ calls[d].id = calls[c].id /\ d \in calls[c].during
<1>1. Turn(c, "completion") /\ Op(c) = "completion" /\ Found(c) \in predicting /\ ~terminated
  BY DEF Busy, Turn, At
<1>2. PICK d \in Made : Pc(d) = "running" /\ Context(d) = Found(c)
  BY <1>1 DEF IosInv, PredictInv
<1>3. Op(d) = "completion" /\ Id(Context(d)) = Id(d) /\ Context(d) \in alive
  BY <1>2 DEF IosInv, PlaceInv, IosPlace, QueueInv
<1>4. Id(c) \in Ids /\ Found(c) # NoContext
  BY <1>1, CallTypes DEF Types, Calls, NoContext
<1>5. Id(Found(c)) = Id(c)
  BY <1>4 DEF IosInv, MapInv, StoredInv, Found, Id
<1>6. d < c /\ d \in Calls /\ c \in Calls
  BY <1>1, <1>2, Idle, CallTypes
<1>7. d \in 1 .. c - 1
  BY <1>6 DEF Calls
<1>8. d \in calls[c].during
  BY <1>2, <1>6 DEF Types, JsInv, CallsInv, Over, Pc
<1> QED BY <1>1, <1>2, <1>3, <1>5, <1>7, <1>8 DEF Id

LEMMA UncaughtStep ==
  ASSUME Types, platform = "ios", IosInv, NEW c \in Made, Missing(c) \/ Busy(c) \/ IosFail(c),
         UNCHANGED <<contextCounter, own, platform, modified>>
  PROVE  IosInv'
<1>1. Uncaught(c) /\ Pc(c) \notin {"barrier", "loaded"} /\ IosPlace(Op(c), "lost")
      /\ (Pc(c) # "sent" \/ \E op : Turn(c, op))
  BY DEF Missing, Busy, IosFail, Turn, At, Pc, IosPlace
<1>2. Moved(c, "lost", Context(c), Id(c)) /\ terminated' /\ UNCHANGED <<contexts, alive, llamaDQueue, fault>>
  BY <1>1, CallTypes, Goes DEF Uncaught
<1>3. PlaceInv' /\ TurnInv' /\ MapInv' /\ BarrierInv'
  BY <1>1, <1>2, LocalMoved
<1>4. QueueInv' /\ PredictInv'
  BY <1>2, QueueMoved DEF PredictInv
<1>5. ReasonInv'
  <2>0. CallsInv(Pcs) /\ Made = 1 .. Len(calls) /\ Len(calls) \in Nat
    BY CallsType DEF Types, JsInv
  <2>1. /\ Made' = Made
        /\ \A d \in Made : /\ Op(d)' = Op(d) /\ calls'[d].during = calls[d].during
                           /\ calls'[d].id = calls[d].id /\ Context(d)' = Context(d)
                           /\ d # c => calls'[d] = calls[d]
    BY <1>2, <2>0, MovedFrame DEF Op, Context, Id
  <2>2. Context(c) = NoContext =>
          \E d \in 1 .. c - 1 :
            \/ Op(d) = "releaseAllContexts"
            \/ Op(d) = "releaseContext" /\ calls[d].id = calls[c].id
            \/ /\ Op(c) = "completion" /\ Op(d) = "completion"
               /\ calls[d].id = calls[c].id /\ d \in calls[c].during
    <3>1. CASE Missing(c)
      BY <3>1, MissingReason
    <3>2. CASE Busy(c)
      BY <3>2, BusyReason
    <3>3. CASE IosFail(c)
      <4>1. Context(c) \in alive
        BY <3>3 DEF IosFail, At, Pc, IosInv, QueueInv
      <4> QED BY <4>1 DEF Types, Calls, NoContext
    <3> QED BY <3>1, <3>2, <3>3
  <2>3. \A d \in Made : calls[d].pc = "lost" /\ Context(d) = NoContext =>
          \E e \in 1 .. d - 1 :
            \/ Op(e) = "releaseAllContexts"
            \/ Op(e) = "releaseContext" /\ calls[e].id = calls[d].id
            \/ /\ Op(d) = "completion" /\ Op(e) = "completion"
               /\ calls[e].id = calls[d].id /\ e \in calls[d].during
    BY DEF IosInv, ReasonInv, RefusedForAReason
  <2>4. \A d \in Made : 1 .. d - 1 \subseteq Made
    BY <2>0
  <2>5. ASSUME NEW d \in Made, calls'[d].pc = "lost", Context(d)' = NoContext
        PROVE  \E e \in 1 .. d - 1 :
                 \/ Op(e)' = "releaseAllContexts"
                 \/ Op(e)' = "releaseContext" /\ calls'[e].id = calls'[d].id
                 \/ /\ Op(d)' = "completion" /\ Op(e)' = "completion"
                    /\ calls'[e].id = calls'[d].id /\ e \in calls'[d].during
    BY <2>1, <2>2, <2>3, <2>4, <2>5
  <2> QED BY <1>2, <2>1, <2>5 DEF ReasonInv, RefusedForAReason, IosInv
<1> QED BY <1>3, <1>4, <1>5 DEF IosInv

LEMMA LoadStep ==
  ASSUME Types, platform = "ios", IosInv, NEW c \in Made, IosLoad(c),
         UNCHANGED <<contextCounter, own, platform, modified>>
  PROVE  IosInv'
<1>0. /\ Turn(c, "initContext") /\ Pc(c) = "sent" /\ Op(c) = "initContext" /\ ~terminated
      /\ Id(c) \in Ids /\ c \in Calls /\ c \in Nat
      /\ UNCHANGED <<interrupted, predicting, llamaDQueue, fault, terminated>>
  BY CallTypes DEF IosLoad, Turn, At, Pc
<1>1. CASE SetPc(c, "done") /\ UNCHANGED <<contexts, alive>>
  <2>1. Moved(c, "done", Context(c), Id(c))
    BY <1>1, CallTypes, Goes
  <2>2. PlaceInv' /\ TurnInv' /\ MapInv' /\ BarrierInv'
    BY <1>0, <1>1, <2>1, LocalMoved DEF IosPlace
  <2>3. QueueInv' /\ ReasonInv'
    BY <1>0, <1>1, <2>1, QueueMoved, ReasonMoved
  <2>4. PredictInv'
    BY <1>0, <2>1, Frame DEF IosInv, PredictInv
  <2> QED BY <2>2, <2>3, <2>4 DEF IosInv
<1>2. CASE /\ Found(c) = NoContext /\ Move(c, "loaded", c) /\ alive' = alive \cup {c}
           /\ contexts' = [contexts EXCEPT ![calls[c].id] = c]
  <2>1. Moved(c, "loaded", c, Id(c))
    BY <1>2, CallTypes, Goes
  <2>2. /\ Made' = Made
        /\ \A d \in Made : /\ Op(d)' = Op(d) /\ Id(d)' = Id(d)
                           /\ d # c => Pc(d)' = Pc(d) /\ Context(d)' = Context(d)
        /\ Pc(c)' = "loaded" /\ Context(c)' = c
    BY <2>1, Frame
  <2>3. /\ contexts[Id(c)] = NoContext /\ contexts'[Id(c)] = c
        /\ \A i \in Ids : i # Id(c) => contexts'[i] = contexts[i]
    BY <1>0, <1>2 DEF Found, Id, Types
  <2>4. PlaceInv'
    BY <1>0, <2>2 DEF IosInv, PlaceInv, IosPlace
  <2>5. TurnInv'
    BY <1>0, <2>1, TurnMoved
  <2>6. \A d \in Made : Pc(d)' # "barrier"
    BY <1>0, <2>2, Idle
  <2>7. StoredInv'
    <3>1. ASSUME NEW i \in Ids, contexts'[i] # NoContext
          PROVE  /\ contexts'[i] \in Made' /\ Op(contexts[i])' = "initContext" /\ Id(contexts[i])' = i
                 /\ contexts'[i] \in alive'
      <4>1. CASE i = Id(c)
        BY <1>0, <1>2, <2>2, <2>3, <4>1
      <4>2. CASE i # Id(c)
        <5>1. contexts'[i] = contexts[i] /\ contexts[i] \in alive /\ contexts[i] \in Made
          BY <1>0, <2>3, <3>1, <4>2, Idle DEF IosInv, MapInv, StoredInv
        <5> QED BY <1>2, <2>2, <3>1, <5>1 DEF IosInv, MapInv, StoredInv
      <4> QED BY <4>1, <4>2
    <3> QED BY <2>2, <2>6, <3>1 DEF StoredInv
  <2>8. KeptInv'
    <3>1. \A d \in alive : d \in Made /\ Op(d) = "initContext" /\ contexts[Id(d)] = d /\ Id(d) \in Ids /\ d # NoContext
      BY CallTypes DEF IosInv, MapInv, KeptInv, Calls, NoContext
    <3> QED BY <1>0, <1>2, <2>2, <2>3, <3>1 DEF KeptInv
  <2>9. LaterInv'
    BY <2>2 DEF IosInv, MapInv, LaterInv
  <2>10. LoadInv'
    <3>1. Upset => Upset'
      BY <2>1, UpsetStays
    <3>2. Id(c) <= contextCounter
      BY <1>0 DEF Types, JsInv, CounterInv, Id
    <3>3. \A d \in Made : Op(d) = "initContext" => Id(d) \in Ids
      BY CallTypes
    <3>4. contextCounter \in Int /\ \A k \in 1 .. Len(own) : own[k] \in Made
      BY CounterBound DEF Types, JsInv, OwnInv
    <3>5. CASE ~Upset
      <4>1. Id(c) = contextCounter
        BY <1>0, <2>3, <3>2, <3>3, <3>4, <3>5 DEF IosInv, MapInv, LoadInv, Ids
      <4>2. c # NoContext
        BY <1>0 DEF Calls, NoContext
      <4>3. \A d \in Made : Op(d) = "initContext" /\ d # c => Pc(d) # "loaded" \/ contexts[Id(d)] = d
        BY <3>5 DEF IosInv, MapInv, LoadInv
      <4>4. \A d \in Made : Op(d) = "initContext" /\ Pc(d) = "loaded" => Id(d) # Id(c)
        <5>1. \A d \in Made : d # NoContext
          BY CallTypes DEF Calls, NoContext
        <5> QED BY <1>0, <2>3, <4>3, <5>1
      <4> QED BY <1>0, <2>2, <2>3, <3>3, <3>4, <3>5, <4>1, <4>2, <4>3, <4>4, ZenonT(60) DEF IosInv, MapInv, LoadInv
    <3> QED BY <3>1, <3>5 DEF LoadInv
  <2>11. ObjectInv'
    <3>1. \A i \in Ids : contexts[i] # NoContext => contexts'[i] # NoContext
      BY <1>0, <2>3
    <3>2. contextCounter \in Nat /\ contextCounter <= MaxCalls
      BY CounterBound DEF Types, JsInv, CallsInv
    <3>3. \A k \in 0 .. contextCounter - 1 : k \in Ids
      BY <3>2 DEF Ids
    <3>4. \A k : Begun(k) => Begun(k)'
      BY <2>1, UpsetStays
    <3> QED BY <3>1, <3>3, <3>4 DEF IosInv, MapInv, ObjectInv
  <2>12. BarrierInv'
    BY <2>2, <2>6 DEF BarrierInv
  <2>13. QueueInv'
    <3>1. \A d \in Made : Pc(d) \in {"queued", "starting", "running"} => Context(d) \in Made
      BY DEF IosInv, QueueInv, MapInv, KeptInv
    <3> QED BY <1>0, <1>2, <2>2, <3>1 DEF IosInv, QueueInv, InQueue
  <2>14. PredictInv'
    BY <1>0, <2>2 DEF IosInv, PredictInv
  <2>15. ReasonInv'
    BY <1>0, <2>1, ReasonMoved
  <2> QED BY <2>4, <2>5, <2>7, <2>8, <2>9, <2>10, <2>11, <2>12, <2>13, <2>14, <2>15 DEF IosInv, MapInv
<1> QED BY <1>1, <1>2 DEF IosLoad

LEMMA DispatchStep ==
  ASSUME Types, platform = "ios", IosInv, NEW c \in Made, IosDispatch(c),
         UNCHANGED <<contextCounter, own, platform, modified>>
  PROVE  IosInv'
<1>1. /\ Turn(c, "completion") /\ Pc(c) = "sent" /\ Op(c) = "completion" /\ ~terminated
      /\ Id(c) \in Ids /\ c \in Calls /\ Found(c) # NoContext /\ Found(c) \notin predicting
      /\ llamaDQueue' = Append(llamaDQueue, c) /\ Moved(c, "queued", Found(c), Id(c))
      /\ UNCHANGED <<contexts, alive, interrupted, predicting, fault, terminated>>
  BY CallTypes, Goes DEF IosDispatch, Turn, At, Pc
<1>2. /\ Made' = Made
      /\ \A d \in Made : /\ Op(d)' = Op(d) /\ Id(d)' = Id(d)
                         /\ d # c => Pc(d)' = Pc(d) /\ Context(d)' = Context(d)
      /\ Pc(c)' = "queued" /\ Context(c)' = Found(c)
  BY <1>1, Frame
<1>3. PlaceInv' /\ TurnInv' /\ MapInv' /\ BarrierInv'
  BY <1>1, LocalMoved DEF IosPlace
<1>4. ReasonInv'
  BY <1>1, ReasonMoved
<1>5. PredictInv'
  BY <1>1, <1>2 DEF IosInv, PredictInv
<1>6. Found(c) \in alive /\ Found(c) \in Made /\ Id(Found(c)) = Id(c)
  BY <1>1, Idle DEF IosInv, MapInv, StoredInv, Found, Id
<1>7. /\ Len(llamaDQueue') = Len(llamaDQueue) + 1 /\ Len(llamaDQueue) \in Nat
      /\ \A i \in 1 .. Len(llamaDQueue) : llamaDQueue'[i] = llamaDQueue[i]
      /\ llamaDQueue'[Len(llamaDQueue) + 1] = c
  BY <1>1 DEF Types
<1>8. InQueue(c)' /\ \A d : InQueue(d) => InQueue(d)' /\ llamaDQueue'[1] = llamaDQueue[1]
  BY <1>7 DEF InQueue
<1>9. QueueInv'
  <2>1. \A d \in Made : Pc(d) \in {"queued", "starting", "running"} => Context(d) \in Made
    BY DEF IosInv, QueueInv, MapInv, KeptInv
  <2> QED BY <1>1, <1>2, <1>6, <1>8, <2>1 DEF IosInv, QueueInv
<1> QED BY <1>3, <1>4, <1>5, <1>9 DEF IosInv

(* The block of a completion; its context is never a deleted one.          *)
LEMMA BlockStep ==
  ASSUME Types, platform = "ios", IosInv, NEW c \in Made, IosRewind(c) \/ IosBegin(c) \/ IosEnd(c),
         UNCHANGED <<contextCounter, own, platform, modified>>
  PROVE  IosInv'
<1>1. /\ Pc(c) \in {"queued", "starting", "running"} /\ Op(c) = "completion" /\ ~terminated
      /\ Dangle(c, Context(c)) /\ UNCHANGED <<contexts, alive>>
  BY DEF IosRewind, IosBegin, IosEnd, At, Pc
<1>2. InQueue(c) /\ Context(c) \in alive /\ Context(c) # NoContext /\ Id(Context(c)) = Id(c)
  BY <1>1 DEF IosInv, QueueInv, Types, Calls, NoContext
<1>3. UNCHANGED <<fault, terminated>>
  BY <1>1, <1>2 DEF Dangle
<1>4. c = llamaDQueue[1]
  BY <1>1, <1>2, QueueType DEF IosInv, QueueInv, IosRewind, IosBegin, IosEnd, At, Pc
<1>5. \A d \in Made : Pc(d) \in {"queued", "starting", "running"} => Context(d) \in Made
  BY DEF IosInv, QueueInv, MapInv, KeptInv
<1>6. ASSUME NEW pc \in {"starting", "running"}, Moved(c, pc, Context(c), Id(c)), UNCHANGED llamaDQueue,
             predicting' = predicting \/ (pc = "running" /\ predicting' = predicting \cup {Context(c)}),
             pc = "starting" => Pc(c) = "queued"
      PROVE  IosInv'
  <2>1. /\ Made' = Made
        /\ \A d \in Made : /\ Op(d)' = Op(d) /\ Id(d)' = Id(d) /\ Context(d)' = Context(d)
                           /\ d # c => Pc(d)' = Pc(d)
        /\ Pc(c)' = pc
    BY <1>6, Frame
  <2>2. PlaceInv' /\ TurnInv' /\ MapInv' /\ BarrierInv'
    BY <1>1, <1>3, <1>6, LocalMoved DEF IosPlace
  <2>3. ReasonInv'
    BY <1>3, <1>6, ReasonMoved
  <2>4. QueueInv'
    BY <1>1, <1>2, <1>4, <1>5, <1>6, <2>1 DEF IosInv, QueueInv, InQueue
  <2>5. PredictInv'
    BY <1>1, <1>3, <1>6, <2>1 DEF IosInv, PredictInv
  <2> QED BY <2>2, <2>3, <2>4, <2>5 DEF IosInv
<1>7. CASE IosRewind(c) \/ IosBegin(c)
  BY <1>6, <1>7, CallTypes, Goes DEF IosRewind, IosBegin, At, Pc
<1>8. CASE IosEnd(c)
  <2>1. /\ Moved(c, "done", Context(c), Id(c)) /\ llamaDQueue' = Tail(llamaDQueue)
        /\ predicting' = predicting \ {Context(c)} /\ Pc(c) = "running"
    BY <1>8, CallTypes, Goes DEF IosEnd, At, Pc
  <2>2. /\ Made' = Made
        /\ \A d \in Made : /\ Op(d)' = Op(d) /\ Id(d)' = Id(d) /\ Context(d)' = Context(d)
                           /\ d # c => Pc(d)' = Pc(d)
        /\ Pc(c)' = "done"
    BY <2>1, Frame
  <2>3. PlaceInv' /\ TurnInv' /\ MapInv' /\ BarrierInv'
    BY <1>1, <1>3, <2>1, LocalMoved DEF IosPlace
  <2>4. ReasonInv'
    BY <1>3, <2>1, ReasonMoved
  <2>5. QueueInv'
    <3>1. ASSUME NEW d \in Made, d # c, InQueue(d) PROVE InQueue(d)'
      <4>1. PICK i \in 1 .. Len(llamaDQueue) : llamaDQueue[i] = d
        BY <3>1 DEF InQueue
      <4>2. i # 1 /\ Len(llamaDQueue) \in Nat
        BY <1>2, <1>4, <3>1, <4>1, QueueType
      <4>3. i - 1 \in 1 .. Len(llamaDQueue') /\ llamaDQueue'[i - 1] = d
        <5>1. i - 1 \in 1 .. Len(llamaDQueue) - 1 /\ (i - 1) + 1 = i
          BY <4>1, <4>2
        <5> QED BY <1>2, <2>1, <4>1, <5>1, QueueType
      <4> QED BY <4>3 DEF InQueue
    <3>2. \A d \in Made : Pc(d) \in {"starting", "running"} => d = c
      BY <1>4 DEF IosInv, QueueInv
    <3> QED BY <1>1, <1>5, <2>2, <3>1, <3>2 DEF IosInv, QueueInv
  <2>6. PredictInv'
    BY <1>1, <1>3, <2>1, <2>2 DEF IosInv, PredictInv
  <2> QED BY <2>3, <2>4, <2>5, <2>6 DEF IosInv
<1> QED BY <1>7, <1>8

(* A call that uses the context it found, or takes it to the barrier.      *)
LEMMA UseStep ==
  ASSUME Types, platform = "ios", IosInv, NEW c \in Made, IosUse(c) \/ IosRelease(c),
         UNCHANGED <<contextCounter, own, platform, modified>>
  PROVE  IosInv'
<1>1. PICK op \in {"stopCompletion", "tokenize", "releaseContext"} : Turn(c, op)
  BY DEF IosUse, IosRelease
<1>2. /\ Pc(c) = "sent" /\ Op(c) = op /\ ~terminated /\ Id(c) \in Ids /\ Found(c) # NoContext
      /\ Dangle(c, Found(c)) /\ UNCHANGED <<contexts, alive, predicting, llamaDQueue>>
  BY <1>1, CallTypes DEF IosUse, IosRelease, Turn, At, Pc
<1>3. Found(c) \in alive
  BY <1>1, <1>2, Idle DEF Found, Id
<1>4. UNCHANGED <<fault, terminated>>
  BY <1>2, <1>3 DEF Dangle
<1>5. PICK pc, h : /\ pc \in {"done", "barrier"} /\ Moved(c, pc, h, Id(c))
                   /\ pc = "barrier" => op = "releaseContext" /\ h = Found(c)
  BY <1>2, CallTypes, Goes, ZenonT(60) DEF IosUse, IosRelease, Turn, At
<1>6. PlaceInv' /\ TurnInv' /\ MapInv' /\ BarrierInv'
  BY <1>1, <1>2, <1>3, <1>4, <1>5, LocalMoved DEF IosPlace
<1>7. QueueInv' /\ ReasonInv'
  BY <1>2, <1>4, <1>5, QueueMoved, ReasonMoved
<1>8. PredictInv'
  BY <1>2, <1>4, <1>5, Frame DEF IosInv, PredictInv
<1> QED BY <1>6, <1>7, <1>8 DEF IosInv

(* The barrier: the queue is empty, and the context that is deleted is     *)
(* nobody else's.                                                          *)
LEMMA AtBarrier ==
  ASSUME Types, IosInv, NEW c \in Made, Pc(c) = "barrier", llamaDQueue = <<>>
  PROVE  /\ Id(c) \in Ids /\ Context(c) \in alive /\ contexts[Id(c)] = Context(c) /\ Context(c) \in Made
         /\ \A i \in Ids : i # Id(c) /\ contexts[i] # NoContext => contexts[i] # Context(c)
         /\ \A d \in alive : d # Context(c) => Id(d) # Id(c)
         /\ \A d \in Made : Pc(d) \notin {"queued", "starting", "running"}
<1>1. /\ Id(c) \in Ids /\ Context(c) # NoContext /\ contexts[Id(c)] = Context(c) /\ Context(c) \in alive
  BY DEF IosInv, BarrierInv
<1>2. \A i \in Ids : contexts[i] # NoContext => contexts[i] \in Made /\ Id(contexts[i]) = i
  BY DEF IosInv, MapInv, StoredInv
<1>3. \A d \in Made : ~InQueue(d)
  BY DEF InQueue
<1>4. \A d \in Made : Pc(d) \notin {"queued", "starting", "running"}
  BY <1>3 DEF IosInv, QueueInv
<1>5. \A d \in alive : contexts[Id(d)] = d
  BY DEF IosInv, MapInv, KeptInv
<1> QED BY <1>1, <1>2, <1>4, <1>5

LEMMA InvalidateStep ==
  ASSUME Types, platform = "ios", IosInv, NEW c \in Made, IosInvalidate(c),
         UNCHANGED <<contextCounter, own, platform, modified>>
  PROVE  IosInv'
<1>1. /\ Pc(c) = "barrier" /\ Op(c) = "releaseContext" /\ ~terminated /\ llamaDQueue = <<>>
      /\ Dangle(c, Context(c)) /\ alive' = alive \ {Context(c)}
      /\ contexts' = [contexts EXCEPT ![Id(c)] = NoContext]
      /\ UNCHANGED <<interrupted, predicting, llamaDQueue>> /\ Moved(c, "done", Context(c), Id(c))
  BY CallTypes, Goes DEF IosInvalidate, At, Pc, Id
<1>2. /\ Id(c) \in Ids /\ Context(c) \in alive /\ contexts[Id(c)] = Context(c) /\ Context(c) \in Made
      /\ \A i \in Ids : i # Id(c) /\ contexts[i] # NoContext => contexts[i] # Context(c)
      /\ \A d \in alive : d # Context(c) => Id(d) # Id(c)
      /\ \A d \in Made : Pc(d) \notin {"queued", "starting", "running"}
  BY <1>1, AtBarrier
<1>3. UNCHANGED <<fault, terminated>>
  BY <1>1, <1>2 DEF Dangle
<1>4. /\ Made' = Made
      /\ \A d \in Made : /\ Op(d)' = Op(d) /\ Id(d)' = Id(d) /\ Context(d)' = Context(d)
                         /\ d # c => Pc(d)' = Pc(d)
      /\ Pc(c)' = "done"
  BY <1>1, Frame
<1>5. /\ contexts'[Id(c)] = NoContext
      /\ \A i \in Ids : i # Id(c) => contexts'[i] = contexts[i]
  BY <1>1, <1>2 DEF Types
<1>6. \A d \in Made : Pc(d)' # "barrier"
  BY <1>1, <1>4, Alone
<1>7. PlaceInv'
  BY <1>1, <1>3, <1>4 DEF IosInv, PlaceInv, IosPlace
<1>8. TurnInv'
  BY <1>1, TurnMoved
<1>9. StoredInv'
  <2>1. ASSUME NEW i \in Ids, contexts'[i] # NoContext
        PROVE  /\ contexts'[i] \in Made' /\ Op(contexts[i])' = "initContext" /\ Id(contexts[i])' = i
               /\ contexts'[i] \in alive'
    <3>1. i # Id(c) /\ contexts'[i] = contexts[i] /\ contexts[i] # Context(c)
      BY <1>2, <1>5, <2>1
    <3>2. contexts[i] \in Made /\ Op(contexts[i]) = "initContext" /\ Id(contexts[i]) = i
      BY <2>1, <3>1 DEF IosInv, MapInv, StoredInv
    <3>3. contexts[i] \in alive
      <4>1. ~\E d \in Made : Pc(d) = "barrier" /\ Op(d) = "releaseAllContexts" /\ i < Id(d)
        BY <1>1, Alone
      <4> QED BY <2>1, <3>1, <4>1 DEF IosInv, MapInv, StoredInv
    <3> QED BY <1>1, <1>4, <3>1, <3>2, <3>3
  <2> QED BY <1>4, <1>6, <2>1 DEF StoredInv
<1>10. KeptInv'
  <2>1. \A d \in alive : d \in Made /\ Op(d) = "initContext" /\ contexts[Id(d)] = d /\ Id(d) \in Ids
    BY CallTypes DEF IosInv, MapInv, KeptInv
  <2> QED BY <1>1, <1>2, <1>4, <1>5, <2>1 DEF KeptInv
<1>11. LaterInv'
  BY <1>4 DEF IosInv, MapInv, LaterInv
<1>12. LoadInv'
  <2>1. Upset => Upset'
    BY <1>1, UpsetStays
  <2>2. ASSUME NEW d \in Made, Op(d) = "initContext", Pc(d) = "sent" PROVE Id(d) # Id(c)
    <3>1. c < d
      <4>1. c \in Nat /\ d \in Nat
        BY CallTypes
      <4> QED BY <1>1, <2>2, <4>1, Alone
    <3>2. Id(c) < Id(d)
      BY <1>1, <2>2, <3>1 DEF IosInv, MapInv, LaterInv
    <3>3. Id(c) \in Int /\ Id(d) \in Int
      BY <1>2, <2>2, CallTypes DEF Ids
    <3> QED BY <3>2, <3>3
  <2>3. Id(c) < contextCounter /\ Id(c) \in Int /\ contextCounter \in Int
    BY <1>1, <1>2, CounterBound DEF Types, JsInv, CounterInv, Id, Ids
  <2>4. \A d \in Made : Op(d) = "initContext" => Id(d) \in Ids
    BY CallTypes
  <2>5. \A k \in 1 .. Len(own) : own[k] \in Made
    BY DEF Types, JsInv, OwnInv
  <2>6. CASE ~Upset
    <3>1. \A d \in Made : Op(d) = "initContext" =>
            /\ Pc(d) = "sent" /\ Id(d) < contextCounter => contexts'[Id(d)] # NoContext
            /\ Pc(d) = "loaded" => Id(d) = contextCounter /\ contexts'[Id(d)] = d
      BY <1>5, <2>2, <2>3, <2>4, <2>6 DEF IosInv, MapInv, LoadInv
    <3>2. \A k \in 1 .. Len(own) : Id(own[k]) = k - 1
      BY <2>6 DEF IosInv, MapInv, LoadInv
    <3> QED BY <1>1, <1>4, <2>5, <3>1, <3>2 DEF LoadInv
  <2> QED BY <2>1, <2>6 DEF LoadInv
<1>13. ObjectInv'
  <2>1. \A k : k = Id(c) \/ Begun(k) => Begun(k)'
    BY <1>1, <1>4, UpsetStays DEF Begun
  <2>2. contextCounter \in Nat /\ contextCounter <= MaxCalls
    BY CounterBound DEF Types, JsInv, CallsInv
  <2>3. \A k \in 0 .. contextCounter - 1 : k \in Ids
    BY <2>2 DEF Ids
  <2> QED BY <1>5, <2>1, <2>3 DEF IosInv, MapInv, ObjectInv
<1>14. BarrierInv' /\ QueueInv'
  BY <1>1, <1>2, <1>4, <1>6 DEF BarrierInv, QueueInv
<1>15. PredictInv'
  BY <1>1, <1>3, <1>4 DEF IosInv, PredictInv
<1>16. ReasonInv'
  BY <1>1, <1>3, ReasonMoved
<1> QED BY <1>7, <1>8, <1>9, <1>10, <1>11, <1>12, <1>13, <1>14, <1>15, <1>16 DEF IosInv, MapInv

LEMMA ReleaseAllStep ==
  ASSUME Types, platform = "ios", IosInv, NEW c \in Made, IosReleaseAll(c),
         UNCHANGED <<contextCounter, own, platform, modified>>
  PROVE  IosInv'
<1>1. /\ Turn(c, "releaseAllContexts") /\ Pc(c) = "sent" /\ Op(c) = "releaseAllContexts" /\ ~terminated
      /\ IosVisit(c, 0) /\ UNCHANGED <<alive, predicting, llamaDQueue, fault, terminated>>
  BY DEF IosReleaseAll, Turn, At, Pc
<1>2. CASE FirstKey(0) = NoId
  <2>1. Moved(c, "done", Context(c), Id(c)) /\ contexts' = [i \in Ids |-> NoContext]
    BY <1>1, <1>2, CallTypes, Goes DEF IosVisit
  <2>2. \A i \in Ids : contexts[i] = NoContext
    BY <1>2, FirstKeyProperties DEF Ids
  <2>3. contexts' = contexts
    BY <2>1, <2>2 DEF Types
  <2>4. PlaceInv' /\ TurnInv' /\ MapInv' /\ BarrierInv'
    BY <1>1, <2>1, <2>3, LocalMoved DEF IosPlace
  <2>5. QueueInv' /\ ReasonInv'
    BY <1>1, <2>1, QueueMoved, ReasonMoved
  <2>6. PredictInv'
    BY <1>1, <2>1, Frame DEF IosInv, PredictInv
  <2> QED BY <2>4, <2>5, <2>6 DEF IosInv
<1>3. CASE FirstKey(0) # NoId
  <2> DEFINE k == FirstKey(0)
  <2>1. Moved(c, "barrier", contexts[k], k) /\ contexts' = contexts
    BY <1>1, <1>3, CallTypes, Goes DEF IosVisit
  <2>2. /\ k \in Ids /\ contexts[k] # NoContext
        /\ \A i \in Ids : contexts[i] # NoContext => k <= i
    BY <1>3, FirstKeyProperties DEF Ids
  <2> HIDE DEF k
  <2>3. /\ Made' = Made
        /\ \A d \in Made : /\ Op(d)' = Op(d)
                           /\ Op(d) # "releaseAllContexts" => Id(d)' = Id(d)
                           /\ d # c => Pc(d)' = Pc(d) /\ Id(d)' = Id(d) /\ Context(d)' = Context(d)
        /\ Pc(c)' = "barrier" /\ Id(c)' = k /\ Context(c)' = contexts[k]
    BY <2>1, Frame
  <2>4. /\ \A d \in Made : Pc(d) # "barrier"
        /\ \A i \in Ids : contexts[i] # NoContext => contexts[i] \in alive
    BY <1>1, Idle
  <2>5. PlaceInv'
    BY <1>1, <2>3 DEF IosInv, PlaceInv, IosPlace
  <2>6. TurnInv'
    BY <1>1, <2>1, TurnMoved
  <2>7. StoredInv'
    <3>1. ASSUME NEW i \in Ids, contexts[i] # NoContext
          PROVE  ~\E d \in Made : Pc(d)' = "barrier" /\ Op(d)' = "releaseAllContexts" /\ i < Id(d)'
      <4>1. k <= i /\ k \in Int /\ i \in Int
        BY <2>2, <3>1 DEF Ids
      <4> QED BY <2>3, <2>4, <4>1
    <3> QED BY <1>1, <2>1, <2>3, <2>4, <3>1 DEF IosInv, MapInv, StoredInv
  <2>8. KeptInv' /\ LaterInv'
    BY <1>1, <2>1, <2>3 DEF IosInv, MapInv, KeptInv, LaterInv
  <2>9. LoadInv' /\ ObjectInv'
    <3>1. \A j \in 1 .. Len(own) : own[j] \in Made /\ Op(own[j]) = "initContext"
      BY DEF Types, JsInv, OwnInv
    <3> QED BY <1>1, <2>1, <2>3, <3>1, UpsetStays DEF IosInv, MapInv, LoadInv, ObjectInv
  <2>10. BarrierInv'
    BY <1>1, <2>1, <2>2, <2>3, <2>4 DEF BarrierInv
  <2>11. QueueInv' /\ ReasonInv'
    BY <1>1, <2>1, QueueMoved, ReasonMoved
  <2>12. PredictInv'
    BY <1>1, <2>3 DEF IosInv, PredictInv
  <2> QED BY <2>5, <2>6, <2>7, <2>8, <2>9, <2>10, <2>11, <2>12 DEF IosInv, MapInv
<1> QED BY <1>2, <1>3

LEMMA ReleaseNextStep ==
  ASSUME Types, platform = "ios", IosInv, NEW c \in Made, IosReleaseNext(c),
         UNCHANGED <<contextCounter, own, platform, modified>>
  PROVE  IosInv'
<1>1. /\ Pc(c) = "barrier" /\ Op(c) = "releaseAllContexts" /\ ~terminated /\ llamaDQueue = <<>>
      /\ Dangle(c, Context(c)) /\ alive' = alive \ {Context(c)} /\ IosVisit(c, Id(c) + 1)
      /\ UNCHANGED <<predicting, llamaDQueue>>
  BY DEF IosReleaseNext, At, Pc, Id
<1>2. /\ Id(c) \in Ids /\ Context(c) \in alive /\ contexts[Id(c)] = Context(c) /\ Context(c) \in Made
      /\ \A i \in Ids : i # Id(c) /\ contexts[i] # NoContext => contexts[i] # Context(c)
      /\ \A d \in alive : d # Context(c) => Id(d) # Id(c)
      /\ \A d \in Made : Pc(d) \notin {"queued", "starting", "running"}
  BY <1>1, AtBarrier
<1>3. UNCHANGED <<fault, terminated>>
  BY <1>1, <1>2 DEF Dangle
<1>4. \A d \in Made : d # c => Pc(d) # "barrier"
  BY <1>1, Alone
<1>5. \A d \in alive : d \in Made /\ Op(d) = "initContext" /\ contexts[Id(d)] = d /\ Id(d) \in Ids /\ d # NoContext
  BY CallTypes DEF IosInv, MapInv, KeptInv, Calls, NoContext
<1>6. \A i \in Ids : contexts[i] # NoContext => (contexts[i] \in alive <=> Id(c) <= i)
  <2>1. ASSUME NEW i \in Ids, contexts[i] # NoContext
        PROVE  (\E d \in Made : Pc(d) = "barrier" /\ Op(d) = "releaseAllContexts" /\ i < Id(d)) <=> i < Id(c)
    BY <1>1, <1>4
  <2>2. \A i \in Ids : i < Id(c) <=> ~(Id(c) <= i)
    BY <1>2 DEF Ids
  <2> QED BY <2>1, <2>2 DEF IosInv, MapInv, StoredInv
<1>7. Id(c) + 1 \in Nat /\ \A i \in Ids : i # Id(c) /\ Id(c) <= i <=> Id(c) + 1 <= i
  BY <1>2 DEF Ids
<1> DEFINE k == FirstKey(Id(c) + 1)
<1>8. /\ k \in Ids \cup {NoId}
      /\ k # NoId => k >= Id(c) + 1 /\ contexts[k] # NoContext
      /\ \A i \in Ids : Id(c) + 1 <= i /\ contexts[i] # NoContext => k # NoId /\ k <= i
  BY <1>7, FirstKeyProperties
<1>9. CASE k = NoId
  <2>1. Moved(c, "done", Context(c), Id(c)) /\ contexts' = [i \in Ids |-> NoContext]
    BY <1>1, <1>9, CallTypes, Goes DEF IosVisit
  <2>2. /\ Made' = Made
        /\ \A d \in Made : /\ Op(d)' = Op(d) /\ Id(d)' = Id(d) /\ Context(d)' = Context(d)
                           /\ d # c => Pc(d)' = Pc(d)
        /\ Pc(c)' = "done"
    BY <2>1, Frame
  <2>3. alive' = {}
    <3>1. ASSUME NEW d \in alive, d # Context(c) PROVE FALSE
      <4>1. Id(c) <= Id(d) /\ Id(d) # Id(c) /\ Id(d) \in Ids
        BY <1>2, <1>5, <1>6, <3>1
      <4> QED BY <1>5, <1>7, <1>8, <1>9, <4>1
    <3> QED BY <1>1, <3>1
  <2>4. PlaceInv'
    BY <1>1, <1>3, <2>2 DEF IosInv, PlaceInv, IosPlace
  <2>5. TurnInv'
    BY <1>1, <2>1, TurnMoved
  <2>6. StoredInv' /\ KeptInv'
    BY <2>1, <2>3 DEF StoredInv, KeptInv
  <2>7. LaterInv'
    BY <2>2 DEF IosInv, MapInv, LaterInv
  <2>8. LoadInv'
    <3>1. Upset => Upset'
      BY <2>1, UpsetStays
    <3>2. ASSUME NEW d \in Made, Op(d) = "initContext", Pc(d) # "done" PROVE Upset'
      <4>1. CallsInv(Pcs) /\ d # c /\ ~Over(c) /\ ~Over(d)
        BY <1>1, <3>2 DEF Types, JsInv, Over, Pc
      <4>2. Overlap(d, c)
        BY <4>1, InFlight
      <4> QED BY <1>1, <3>1, <3>2, <4>2 DEF Upset
    <3>3. \A j \in 1 .. Len(own) : own[j] \in Made
      BY DEF Types, JsInv, OwnInv
    <3>4. CASE ~Upset /\ \A d \in Made : Op(d) = "initContext" => Pc(d) = "done"
      BY <1>1, <2>2, <3>3, <3>4 DEF IosInv, MapInv, LoadInv
    <3> QED BY <3>1, <3>2, <3>4 DEF LoadInv
  <2>9. ObjectInv'
    <3>1. \A i : Begun(i)'
      BY <1>1, <2>2 DEF Begun
    <3> QED BY <3>1 DEF ObjectInv
  <2>10. BarrierInv' /\ QueueInv'
    BY <1>2, <1>4, <2>2 DEF BarrierInv, QueueInv
  <2>11. PredictInv'
    BY <1>1, <1>3, <2>2 DEF IosInv, PredictInv
  <2>12. ReasonInv'
    BY <1>1, <1>3, <2>1, ReasonMoved
  <2> QED BY <2>4, <2>5, <2>6, <2>7, <2>8, <2>9, <2>10, <2>11, <2>12 DEF IosInv, MapInv
<1>10. CASE k # NoId
  <2>1. Moved(c, "barrier", contexts[k], k) /\ contexts' = contexts
    BY <1>1, <1>10, CallTypes, Goes DEF IosVisit
  <2>2. k \in Ids /\ contexts[k] # NoContext /\ Id(c) < k /\ k # Id(c) /\ Id(c) <= k
    BY <1>2, <1>8, <1>10 DEF Ids
  <2>3. \A i \in Ids : contexts[i] # NoContext => (i < k <=> i < Id(c) \/ i = Id(c))
    BY <1>2, <1>7, <1>8, <2>2 DEF Ids
  <2> HIDE DEF k
  <2>4. /\ Made' = Made
        /\ \A d \in Made : /\ Op(d)' = Op(d)
                           /\ Op(d) # "releaseAllContexts" => Id(d)' = Id(d)
                           /\ d # c => Pc(d)' = Pc(d) /\ Id(d)' = Id(d) /\ Context(d)' = Context(d)
        /\ Pc(c)' = "barrier" /\ Id(c)' = k /\ Context(c)' = contexts[k]
    BY <2>1, Frame
  <2>5. PlaceInv'
    BY <1>1, <1>3, <2>4 DEF IosInv, PlaceInv, IosPlace
  <2>6. TurnInv'
    BY <1>1, <2>1, TurnMoved
  <2>7. StoredInv'
    <3>1. ASSUME NEW i \in Ids, contexts[i] # NoContext
          PROVE  /\ (\E d \in Made : Pc(d)' = "barrier" /\ Op(d)' = "releaseAllContexts" /\ i < Id(d)') <=> i < k
                 /\ contexts[i] \notin alive' <=> i < k
      <4>1. (\E d \in Made : Pc(d)' = "barrier" /\ Op(d)' = "releaseAllContexts" /\ i < Id(d)') <=> i < k
        BY <1>1, <1>4, <2>4
      <4>2. contexts[i] = Context(c) <=> i = Id(c)
        BY <1>2, <3>1
      <4>3. i < Id(c) <=> ~(Id(c) <= i)
        BY <1>2 DEF Ids
      <4> QED BY <1>1, <1>6, <2>3, <3>1, <4>1, <4>2, <4>3
    <3> QED BY <2>1, <2>4, <3>1 DEF IosInv, MapInv, StoredInv
  <2>8. KeptInv' /\ LaterInv'
    BY <1>1, <1>5, <2>1, <2>4 DEF IosInv, MapInv, KeptInv, LaterInv
  <2>9. LoadInv' /\ ObjectInv'
    <3>1. \A j \in 1 .. Len(own) : own[j] \in Made /\ Op(own[j]) = "initContext"
      BY DEF Types, JsInv, OwnInv
    <3> QED BY <1>1, <2>1, <2>4, <3>1, UpsetStays DEF IosInv, MapInv, LoadInv, ObjectInv
  <2>10. BarrierInv'
    <3>1. contexts[k] \in alive'
      BY <1>1, <1>2, <1>6, <2>2
    <3> QED BY <1>4, <2>1, <2>2, <2>4, <3>1 DEF BarrierInv
  <2>11. QueueInv'
    BY <1>2, <2>4 DEF QueueInv
  <2>12. ReasonInv'
    BY <1>3, <2>1, ReasonMoved
  <2>13. PredictInv'
    BY <1>1, <1>2, <1>3, <2>4 DEF IosInv, PredictInv
  <2> QED BY <2>5, <2>6, <2>7, <2>8, <2>9, <2>10, <2>11, <2>12, <2>13 DEF IosInv, MapInv
<1> QED BY <1>9, <1>10

(* A load is answered: its context is under the id of the object it made.  *)
LEMMA IosAnswerStep ==
  ASSUME Types, platform = "ios", IosInv, NEW c \in Made, Answer(c)
  PROVE  IosInv'
<1>1. /\ ~terminated /\ UNCHANGED native
      /\ Op(c) = "initContext" /\ Pc(c) = "loaded" /\ Moved(c, "done", Context(c), Id(c))
      /\ contextCounter' = contextCounter + 1 /\ contextCounter = Len(own) /\ Len(own) \in Nat
      /\ Len(own') = Len(own) + 1 /\ own'[Len(own) + 1] = c
      /\ \A k \in 1 .. Len(own) : own'[k] = own[k] /\ own[k] \in Made
  BY AnswerFrame
<1>2. /\ Made' = Made
      /\ \A d \in Made : /\ Op(d)' = Op(d) /\ Id(d)' = Id(d) /\ Context(d)' = Context(d)
                         /\ d # c => Pc(d)' = Pc(d)
      /\ Pc(c)' = "done"
  BY <1>1, Frame
<1>3. UNCHANGED <<platform, contexts, alive, interrupted, predicting, llamaDQueue, modified, fault, terminated>>
  BY <1>1 DEF native
<1>4. PlaceInv'
  BY <1>1, <1>2, <1>3 DEF IosInv, PlaceInv, IosPlace
<1>5. TurnInv'
  BY <1>1, TurnMoved
<1>6. StoredInv' /\ KeptInv' /\ LaterInv'
  BY <1>1, <1>2, <1>3 DEF IosInv, MapInv, StoredInv, KeptInv, LaterInv
<1>7. Upset => Upset'
  BY <1>1, UpsetStays
<1>8. ASSUME ~Upset PROVE Id(c) = contextCounter /\ contexts[Id(c)] = c
  BY <1>1, <1>8 DEF IosInv, MapInv, LoadInv
<1>9. LoadInv'
  <2>1. ASSUME ~Upset, NEW d \in Made, Op(d) = "initContext"
        PROVE  /\ Pc(d)' = "sent" /\ Id(d)' < contextCounter' => contexts'[Id(d)'] # NoContext
               /\ Pc(d)' = "loaded" => Id(d)' = contextCounter' /\ contexts'[Id(d)'] = d
    <3>1. Id(d) <= contextCounter /\ Id(d) \in Int /\ c # NoContext /\ Id(d)' = Id(d)
      BY <1>2, <2>1, CallTypes DEF Types, JsInv, CounterInv, Id, Ids, Calls, NoContext
    <3>2. Id(d) < contextCounter \/ Id(d) = contextCounter
      BY <1>1, <3>1
    <3>3. CASE d = c
      BY <1>2, <3>3
    <3>4. CASE d # c
      <4>1. Pc(d)' = Pc(d) /\ contexts' = contexts
        BY <1>2, <1>3, <3>4
      <4>2. Pc(d) # "loaded"
        BY <1>8, <2>1, <3>4 DEF IosInv, MapInv, LoadInv
      <4>3. Pc(d) = "sent" => contexts[Id(d)] # NoContext
        BY <1>8, <2>1, <3>1, <3>2 DEF IosInv, MapInv, LoadInv
      <4> QED BY <3>1, <4>1, <4>2, <4>3
    <3> QED BY <3>3, <3>4
  <2>2. ASSUME ~Upset, NEW k \in 1 .. Len(own) + 1 PROVE Id(own[k])' = k - 1
    <3>1. CASE k = Len(own) + 1
      <4>1. own'[k] = c /\ Id(c)' = Len(own)
        BY <1>1, <1>2, <1>8, <2>2, <3>1
      <4> QED BY <1>1, <3>1, <4>1 DEF Id
    <3>2. CASE k \in 1 .. Len(own)
      <4>1. own'[k] = own[k] /\ own[k] \in Made /\ Id(own[k]) = k - 1
        BY <1>1, <2>2, <3>2 DEF IosInv, MapInv, LoadInv
      <4> QED BY <1>2, <4>1 DEF Id
    <3> QED BY <1>1, <3>1, <3>2
  <2> QED BY <1>1, <1>2, <1>7, <2>1, <2>2 DEF LoadInv, Id
<1>10. ObjectInv'
  <2>1. \A k : Begun(k) => Begun(k)'
    BY <1>1, UpsetStays
  <2>2. ASSUME NEW k, k = contextCounter PROVE contexts[k] # NoContext \/ Begun(k)'
    <3>1. CASE Upset
      BY <2>1, <3>1 DEF Upset, Begun
    <3>2. CASE ~Upset
      BY <1>8, <2>2, <3>2, CallTypes DEF Calls, NoContext
    <3> QED BY <3>1, <3>2
  <2>3. \A k \in 0 .. contextCounter' - 1 : k = contextCounter \/ k \in 0 .. contextCounter - 1
    BY <1>1
  <2> QED BY <1>3, <2>1, <2>2, <2>3 DEF IosInv, MapInv, ObjectInv
<1>11. BarrierInv'
  BY <1>1, <1>2, <1>3 DEF IosInv, BarrierInv
<1>12. QueueInv' /\ ReasonInv'
  BY <1>1, <1>3, QueueMoved, ReasonMoved
<1>13. PredictInv'
  BY <1>1, <1>2, <1>3 DEF IosInv, PredictInv
<1> QED BY <1>4, <1>5, <1>6, <1>9, <1>10, <1>11, <1>12, <1>13 DEF IosInv, MapInv

LEMMA IosSentStep ==
  ASSUME Types, platform = "ios", IosInv, Application
  PROVE  IosInv'
<1>1. ~terminated /\ UNCHANGED <<contextCounter, own, native>>
  BY SentFrame
<1>2. PICK n \in Calls, op \in Ops :
        /\ Made' = Made \cup {n} /\ n \notin Made /\ \A d \in Made : d < n
        /\ \A d \in Made : calls'[d] = calls[d]
        /\ calls'[n].op = op /\ calls'[n].pc = "sent"
        /\ op = "initContext" => calls'[n].id = contextCounter
  BY SentFrame
<1>3. UNCHANGED <<platform, contexts, alive, interrupted, predicting, llamaDQueue, modified, fault, terminated>>
  BY <1>1 DEF native
<1>4. /\ \A d \in Made : /\ Op(d)' = Op(d) /\ Id(d)' = Id(d) /\ Context(d)' = Context(d) /\ Pc(d)' = Pc(d)
                         /\ \A e \in Made : Overlap(e, d)' <=> Overlap(e, d)
      /\ Pc(n)' = "sent" /\ Op(n)' = op
      /\ op = "initContext" => Id(n)' = contextCounter
  BY <1>2 DEF Pc, Op, Id, Context, Overlap
<1>5. PlaceInv'
  BY <1>2, <1>3, <1>4 DEF IosInv, PlaceInv, IosPlace
<1>6. TurnInv'
  <2>1. \A d \in Made : d \in Nat
    BY CallTypes
  <2>2. n \in Nat
    BY DEF Calls
  <2> QED BY <1>2, <1>4, <2>1, <2>2 DEF IosInv, TurnInv
<1>7. StoredInv'
  <2>1. \A i : (\E d \in Made' : Pc(d)' = "barrier" /\ Op(d)' = "releaseAllContexts" /\ i < Id(d)')
           <=> (\E d \in Made : Pc(d) = "barrier" /\ Op(d) = "releaseAllContexts" /\ i < Id(d))
    BY <1>2, <1>4
  <2> QED BY <1>2, <1>3, <1>4, <2>1 DEF IosInv, MapInv, StoredInv
<1>8. KeptInv'
  BY <1>2, <1>3, <1>4 DEF IosInv, MapInv, KeptInv
<1>9. LaterInv'
  <2>1. \A d \in Made : d \in Nat
    BY CallTypes
  <2>2. n \in Nat
    BY DEF Calls
  <2>3. \A d \in Made : Op(d) = "releaseContext" => Id(d) < contextCounter
    BY DEF Types, JsInv, CounterInv, Id
  <2> QED BY <1>2, <1>4, <2>1, <2>2, <2>3 DEF IosInv, MapInv, LaterInv
<1>10. (Upset => Upset') /\ \A k : Begun(k) => Begun(k)'
  <2>1. ASSUME Upset PROVE Upset'
    BY <1>2, <1>4, <2>1 DEF Upset
  <2>2. ASSUME NEW k, Begun(k) PROVE Begun(k)'
    BY <1>2, <1>4, <2>2 DEF Begun
  <2> QED BY <2>1, <2>2
<1>11. LoadInv'
  <2>1. \A k \in 1 .. Len(own) : own[k] \in Made
    BY DEF Types, JsInv, OwnInv
  <2>2. contextCounter \in Nat
    BY CounterBound DEF Types, JsInv
  <2>3. ~(contextCounter < contextCounter)
    BY <2>2
  <2> QED BY <1>1, <1>2, <1>3, <1>4, <1>10, <2>1, <2>3 DEF IosInv, MapInv, LoadInv
<1>12. ObjectInv'
  BY <1>1, <1>3, <1>10 DEF IosInv, MapInv, ObjectInv
<1>13. BarrierInv'
  BY <1>2, <1>3, <1>4 DEF IosInv, BarrierInv
<1>14. QueueInv'
  <2>1. \A d \in Made : Pc(d) \in {"queued", "starting", "running"} => Context(d) \in Made
    BY DEF IosInv, QueueInv, MapInv, KeptInv
  <2> QED BY <1>2, <1>3, <1>4, <2>1 DEF IosInv, QueueInv, InQueue
<1>15. PredictInv'
  BY <1>2, <1>3, <1>4 DEF IosInv, PredictInv
<1>16. ReasonInv'
  <2>1. CallsInv(Pcs) /\ Made = 1 .. Len(calls) /\ Len(calls) \in Nat
    BY CallsType DEF Types, JsInv
  <2>2. \A d \in Made : \A e \in 1 .. d - 1 : e \in Made
    BY <2>1
  <2>3. ASSUME NEW d \in Made', calls'[d].pc = "lost", Context(d)' = NoContext
        PROVE  \E e \in 1 .. d - 1 :
                 \/ Op(e)' = "releaseAllContexts"
                 \/ Op(e)' = "releaseContext" /\ calls'[e].id = calls'[d].id
                 \/ /\ Op(d)' = "completion" /\ Op(e)' = "completion"
                    /\ calls'[e].id = calls'[d].id /\ e \in calls'[d].during
    <3>1. d \in Made /\ calls'[d] = calls[d]
      BY <1>2, <2>3
    <3>2. PICK e \in 1 .. d - 1 :
            \/ Op(e) = "releaseAllContexts"
            \/ Op(e) = "releaseContext" /\ calls[e].id = calls[d].id
            \/ /\ Op(d) = "completion" /\ Op(e) = "completion"
               /\ calls[e].id = calls[d].id /\ e \in calls[d].during
      BY <2>3, <3>1 DEF IosInv, ReasonInv, RefusedForAReason, Context
    <3>3. calls'[e] = calls[e]
      BY <1>2, <2>2, <3>1
    <3> QED BY <3>1, <3>2, <3>3 DEF Op
  <2> QED BY <1>3, <2>3 DEF IosInv, ReasonInv, RefusedForAReason
<1> QED BY <1>5, <1>6, <1>7, <1>8, <1>9, <1>11, <1>12, <1>13, <1>14, <1>15, <1>16 DEF IosInv, MapInv

LEMMA IosStepInv ==
  ASSUME Types, platform = "ios", IosInv, NEW c \in Made,
         \/ IosStep(c)
         \/ IosEnd(c) /\ UNCHANGED <<contextCounter, own, platform, modified>>
  PROVE  IosInv'
<1>0. UNCHANGED <<contextCounter, own, platform, modified>>
  BY DEF IosStep
<1>1. CASE Missing(c) \/ Busy(c) \/ IosFail(c)
  BY <1>0, <1>1, UncaughtStep
<1>2. CASE IosLoad(c)
  BY <1>0, <1>2, LoadStep
<1>3. CASE IosDispatch(c)
  BY <1>0, <1>3, DispatchStep
<1>4. CASE IosRewind(c) \/ IosBegin(c) \/ IosEnd(c)
  BY <1>0, <1>4, BlockStep
<1>5. CASE IosUse(c) \/ IosRelease(c)
  BY <1>0, <1>5, UseStep
<1>6. CASE IosInvalidate(c)
  BY <1>0, <1>6, InvalidateStep
<1>7. CASE IosReleaseAll(c)
  BY <1>0, <1>7, ReleaseAllStep
<1>8. CASE IosReleaseNext(c)
  BY <1>0, <1>8, ReleaseNextStep
<1> QED BY <1>1, <1>2, <1>3, <1>4, <1>5, <1>6, <1>7, <1>8 DEF IosStep

-----------------------------------------------------------------------------
(* Holds, on both platforms.                                               *)
LEMMA HoldsMoved ==
  ASSUME Types, Holds, NEW c \in Made, NEW pc, NEW h, NEW k, Moved(c, pc, h, k),
         pc \in {"found", "stopping", "freeing", "queued", "starting", "running"} => h # NoContext,
         pc \in {"found", "running"} => Op(c) # "releaseAllContexts",
         Op(c) = "releaseAllContexts" /\ pc \in {"iterating", "stopping", "freeing"}
           /\ c \notin modified' /\ k # NoId => contexts'[k] # NoContext,
         modified \subseteq modified',
         \A d \in Made : d # c /\ Iterating(d) /\ d \notin modified'
           => \A i \in Ids : contexts[i] # NoContext => contexts'[i] # NoContext
  PROVE  Holds'
<1>1. /\ Made' = Made
      /\ \A d \in Made : d # c => Pc(d)' = Pc(d) /\ Id(d)' = Id(d) /\ Context(d)' = Context(d)
      /\ Pc(c)' = pc /\ Id(c)' = k /\ Context(c)' = h
      /\ \A d \in Made : Op(d)' = Op(d)
  BY Frame
<1>2. \A d \in Made : Pc(d)' \in {"found", "stopping", "freeing", "queued", "starting", "running"}
                      => Context(d)' # NoContext
  BY <1>1 DEF Holds
<1>3. \A d \in Made : Pc(d)' \in {"found", "running"} => Op(d)' # "releaseAllContexts"
  BY <1>1 DEF Holds
<1>4. ASSUME NEW d \in Made, Iterating(d)', d \notin modified', Id(d)' # NoId
      PROVE  contexts'[Id(d)'] # NoContext
  <2>1. CASE d = c
    BY <1>1, <1>4, <2>1 DEF Iterating, Pc
  <2>2. CASE d # c
    <3>1. Iterating(d) /\ d \notin modified /\ Id(d) # NoId /\ Id(d)' = Id(d)
      BY <1>1, <1>4, <2>2 DEF Iterating, Pc
    <3>2. contexts[Id(d)] # NoContext /\ Id(d) \in Ids
      BY <3>1, CallTypes DEF Holds
    <3> QED BY <1>4, <2>2, <3>1, <3>2
  <2> QED BY <2>1, <2>2
<1> QED BY <1>1, <1>2, <1>3, <1>4 DEF Holds

LEMMA AndroidHolds ==
  ASSUME Types, Holds, NEW c \in Made,
         \/ AndroidStep(c)
         \/ EndCompletion(c) /\ UNCHANGED <<contextCounter, own, platform, predicting, llamaDQueue>>
  PROVE  Holds'
<1>1. CASE StartLoad(c)
  <2>1. Moved(c, "loading", Context(c), Id(c)) /\ UNCHANGED mapVars
    BY <1>1, CallTypes, Goes DEF StartLoad, At
  <2> QED BY <1>1, <2>1, HoldsMoved DEF StartLoad, At, mapVars
<1>2. CASE FinishLoad(c)
  <2>1. \E pc \in {"done", "putting"} : \E h : Moved(c, pc, h, Id(c))
    BY <1>2, CallTypes, Goes DEF FinishLoad
  <2> QED BY <1>2, <2>1, HoldsMoved DEF FinishLoad, At, mapVars
<1>3. CASE PutContext(c)
  <2>1. Moved(c, "loaded", Context(c), Id(c)) /\ Id(c) \in Ids /\ c # NoContext
    <3>1. Moved(c, "loaded", Context(c), Id(c)) /\ Op(c) # "releaseAllContexts"
      BY <1>3, CallTypes, Goes DEF PutContext, At
    <3>2. c # NoContext
      BY CallTypes DEF Calls, NoContext
    <3> QED BY <3>1, <3>2, CallTypes
  <2>2. contexts' = [contexts EXCEPT ![Id(c)] = c] /\ modified \subseteq modified'
    BY <1>3 DEF PutContext, Put, OutOfDate, Id
  <2>3. \A i \in Ids : contexts[i] # NoContext => contexts'[i] # NoContext
    BY <2>1, <2>2 DEF Types
  <2> QED BY <2>1, <2>2, <2>3, HoldsMoved
<1>4. ASSUME NEW op \in {"completion", "tokenize", "stopCompletion", "releaseContext"},
             NEW pc \in {"found", "stopping"}, LookUp(c, op, pc)
      PROVE  Holds'
  <2>1. Moved(c, pc, Found(c), Id(c)) /\ UNCHANGED mapVars
    BY <1>4, CallTypes, Goes DEF LookUp
  <2> QED BY <1>4, <2>1, HoldsMoved DEF LookUp, At, mapVars
<1>5. CASE LookUpFails(c)
  <2>1. Moved(c, "done", Context(c), Id(c)) /\ UNCHANGED mapVars
    BY <1>5, CallTypes, Goes DEF LookUpFails, At
  <2> QED BY <1>5, <2>1, HoldsMoved DEF LookUpFails, At, mapVars
<1>6. CASE Rewind(c)
  <2>1. Moved(c, "running", Context(c), Id(c)) /\ UNCHANGED mapVars
    BY <1>6, CallTypes, Goes DEF Rewind, At
  <2> QED BY <1>6, <2>1, HoldsMoved DEF Rewind, At, mapVars, Holds, Pc
<1>7. CASE EndCompletion(c)
  <2>1. Moved(c, "done", Context(c), Id(c)) /\ UNCHANGED mapVars
    BY <1>7, CallTypes, Goes DEF EndCompletion, At
  <2> QED BY <1>7, <2>1, HoldsMoved DEF EndCompletion, At, mapVars
<1>8. CASE Tokenize(c)
  <2>1. Moved(c, "done", Context(c), Id(c)) /\ UNCHANGED mapVars
    BY <1>8, CallTypes, Goes DEF Tokenize, At
  <2> QED BY <1>8, <2>1, HoldsMoved DEF Tokenize, At, mapVars
<1>9. CASE Stop(c)
  <2> DEFINE pc == IF Op(c) = "stopCompletion" THEN "done" ELSE "freeing"
  <2>1. Moved(c, pc, Context(c), Id(c)) /\ pc \in {"done", "freeing"} /\ UNCHANGED mapVars
    BY <1>9, CallTypes, Goes DEF Stop
  <2>2. Context(c) # NoContext
    BY <1>9 DEF Stop, At, Holds, Pc
  <2>3. Op(c) = "releaseAllContexts" => Iterating(c)
    BY <1>9 DEF Stop, At, Iterating
  <2> HIDE DEF pc
  <2> QED BY <2>1, <2>2, <2>3, HoldsMoved DEF mapVars, Holds
<1>10. CASE FreeContext(c)
  <2> DEFINE pc == IF Op(c) = "releaseContext" THEN "removing" ELSE "iterating"
  <2>1. Moved(c, pc, Context(c), Id(c)) /\ pc \in {"removing", "iterating"} /\ UNCHANGED mapVars
    BY <1>10, CallTypes, Goes DEF FreeContext
  <2>2. Op(c) = "releaseAllContexts" => Iterating(c)
    BY <1>10 DEF FreeContext, At, Iterating
  <2> HIDE DEF pc
  <2> QED BY <2>1, <2>2, HoldsMoved DEF mapVars, Holds
<1>11. CASE RemoveContext(c)
  <2>1. Moved(c, "done", Context(c), Id(c)) /\ Id(c) \in Ids
    BY <1>11, CallTypes, Goes DEF RemoveContext, At
  <2>2. contexts' = [contexts EXCEPT ![Id(c)] = NoContext] /\ modified \subseteq modified'
    BY <1>11 DEF RemoveContext, Remove, OutOfDate, Id
  <2>3. CASE contexts[Id(c)] = NoContext
    <3>1. contexts' = contexts
      BY <2>1, <2>2, <2>3 DEF Types
    <3> QED BY <2>1, <2>2, <3>1, HoldsMoved
  <2>4. CASE contexts[Id(c)] # NoContext
    <3>1. \A d \in Made : d # c /\ Iterating(d) => d \in modified'
      BY <1>11, <2>4 DEF RemoveContext, Remove, OutOfDate, Id
    <3> QED BY <2>1, <2>2, <3>1, HoldsMoved
  <2> QED BY <2>3, <2>4
<1>12. CASE BeginReleaseAll(c)
  <2>1. Moved(c, "iterating", Context(c), FirstKey(0)) /\ UNCHANGED mapVars
    BY <1>12, CallTypes, Goes DEF BeginReleaseAll, At
  <2>2. FirstKey(0) # NoId => contexts[FirstKey(0)] # NoContext
    BY FirstKeyProperties
  <2> QED BY <1>12, <2>1, <2>2, HoldsMoved DEF BeginReleaseAll, At, mapVars
<1>13. CASE NextContext(c)
  <2>0. UNCHANGED mapVars /\ Op(c) = "releaseAllContexts" /\ Id(c) # NoId /\ Iterating(c) /\ Id(c) \in Ids
    BY <1>13, CallTypes DEF NextContext, At, Iterating, Id
  <2>1. CASE c \in modified
    <3>1. Moved(c, "lost", Context(c), Id(c))
      BY <1>13, <2>1, CallTypes, Goes DEF NextContext
    <3> QED BY <2>0, <3>1, HoldsMoved DEF mapVars
  <2>2. CASE c \notin modified
    <3>1. Moved(c, "stopping", contexts[Id(c)], FirstKey(Id(c) + 1))
      BY <1>13, <2>0, <2>2, CallTypes, Goes DEF NextContext, Id
    <3>2. Id(c) + 1 \in Nat
      BY <2>0 DEF Ids
    <3>3. FirstKey(Id(c) + 1) # NoId => contexts[FirstKey(Id(c) + 1)] # NoContext
      BY <3>2, FirstKeyProperties
    <3>4. contexts[Id(c)] # NoContext
      BY <2>0, <2>2 DEF Holds
    <3> QED BY <2>0, <3>1, <3>3, <3>4, HoldsMoved DEF mapVars
  <2> QED BY <2>1, <2>2
<1>14. CASE EndReleaseAll(c)
  <2>1. Moved(c, "done", Context(c), Id(c))
    BY <1>14, CallTypes, Goes DEF EndReleaseAll
  <2>2. \A d \in Made : d # c /\ Iterating(d) => d \in modified'
    BY <1>14 DEF EndReleaseAll, OutOfDate
  <2>3. modified \subseteq modified'
    BY <1>14 DEF EndReleaseAll, OutOfDate
  <2> QED BY <2>1, <2>2, <2>3, HoldsMoved
<1> QED
  BY <1>1, <1>2, <1>3, <1>4, <1>5, <1>6, <1>7, <1>8, <1>9, <1>10, <1>11, <1>12, <1>13, <1>14 DEF AndroidStep

-----------------------------------------------------------------------------
(* The invariant of both.                                                  *)
NativeInv == Types /\ Holds /\ (platform = "ios" => IosInv)

LEMMA NativeInit == Init => NativeInv
<1> SUFFICES ASSUME Init PROVE NativeInv
  OBVIOUS
<1>1. Made = {} /\ calls = <<>> /\ own = <<>> /\ contextCounter = 0
  BY DEF Init, JsInit, Made
<1>2. Types
  <2>1. JsInv(Pcs)
    BY JsInitially DEF Init
  <2>2. contexts \in [Ids -> Contexts]
    BY DEF Init, Contexts
  <2>3. llamaDQueue \in Seq(Calls)
    BY DEF Init
  <2> QED BY <2>1, <2>2, <2>3 DEF Init, Types
<1>3. Holds
  BY <1>1 DEF Holds
<1>4. \A i \in Ids : contexts[i] = NoContext
  BY DEF Init
<1>5. MapInv
  BY <1>1, <1>4 DEF Init, MapInv, StoredInv, KeptInv, LaterInv, LoadInv, ObjectInv
<1>6. PlaceInv /\ TurnInv /\ BarrierInv /\ QueueInv
  BY <1>1 DEF PlaceInv, TurnInv, BarrierInv, QueueInv
<1>7. PredictInv /\ ReasonInv
  BY <1>1 DEF Init, PredictInv, ReasonInv, RefusedForAReason
<1> QED BY <1>2, <1>3, <1>5, <1>6, <1>7 DEF NativeInv, IosInv

LEMMA NativeStep == NativeInv /\ [Next]_vars => NativeInv'
<1> SUFFICES ASSUME NativeInv, [Next]_vars PROVE NativeInv'
  OBVIOUS
<1>0. Types /\ Holds /\ (platform = "ios" => IosInv)
  BY DEF NativeInv
<1>1. CASE Application
  <2>1. Types' /\ UNCHANGED native
    BY <1>0, <1>1, SentFrame
  <2>2. PICK n \in Calls, op \in Ops :
          /\ Made' = Made \cup {n} /\ n \notin Made
          /\ \A d \in Made : calls'[d] = calls[d]
          /\ calls'[n].pc = "sent"
    BY <1>0, <1>1, SentFrame
  <2>3. Holds'
    BY <1>0, <2>1, <2>2 DEF Holds, Pc, Context, Op, Id, Iterating, native
  <2>4. platform' = platform
    BY <2>1 DEF native
  <2> QED BY <1>0, <1>1, <2>1, <2>3, <2>4, IosSentStep DEF NativeInv
<1>2. ASSUME NEW c \in Made, Answer(c) PROVE NativeInv'
  <2>1. Types' /\ UNCHANGED native /\ Moved(c, "done", Context(c), Id(c))
    BY <1>0, <1>2, AnswerFrame
  <2>2. Holds'
    BY <1>0, <2>1, HoldsMoved DEF native
  <2>3. platform' = platform
    BY <2>1 DEF native
  <2> QED BY <1>0, <1>2, <2>1, <2>2, <2>3, IosAnswerStep DEF NativeInv
<1>3. ASSUME NEW c \in Made, AndroidStep(c) \/ (platform = "android" /\ EndsByItself(c)) PROVE NativeInv'
  <2>1. /\ platform = "android" /\ platform' = platform
        /\ \/ AndroidStep(c)
           \/ EndCompletion(c) /\ UNCHANGED <<contextCounter, own, platform, predicting, llamaDQueue>>
    BY <1>3 DEF AndroidStep, EndsByItself
  <2> QED BY <1>0, <2>1, AndroidTypes, AndroidHolds DEF NativeInv
<1>4. ASSUME NEW c \in Made, IosStep(c) \/ (platform = "ios" /\ EndsByItself(c)) PROVE NativeInv'
  <2>1. /\ platform = "ios" /\ platform' = platform
        /\ \/ IosStep(c)
           \/ IosEnd(c) /\ UNCHANGED <<contextCounter, own, platform, modified>>
    BY <1>4 DEF IosStep, EndsByItself
  <2>2. IosInv' /\ Types'
    BY <1>0, <2>1, IosStepInv, IosTypes DEF IosInv
  <2>3. Holds'
    <3>1. \A d \in Made' : Pc(d)' \in {"queued", "starting", "running"} => Context(d)' # NoContext
      BY <2>2 DEF IosInv, QueueInv, Types, Calls, NoContext
    <3> QED BY <2>1, <2>2, <3>1 DEF IosInv, Holds, PlaceInv, IosPlace, Iterating, Pc
  <2> QED BY <2>1, <2>2, <2>3 DEF NativeInv
<1>5. CASE UNCHANGED vars
  <2> USE <1>0, <1>5 DEF vars, jsVars
  <2>1. Types'
    BY DEF Types, JsInv, CallsInv, OwnInv, CounterInv, LoadMet, Overlap, Op, Over, Made
  <2>2. Holds'
    BY DEF Holds, Made, Op, Pc, Id, Context, Iterating
  <2>3. ASSUME platform = "ios" PROVE IosInv'
    <3>1. IosInv
      BY <2>3
    <3>2. PlaceInv' /\ TurnInv' /\ BarrierInv' /\ QueueInv' /\ PredictInv'
      BY <3>1 DEF IosInv, PlaceInv, TurnInv, BarrierInv, QueueInv, PredictInv, Made, Op, Pc, Id, Context, InQueue
    <3>3. MapInv'
      BY <3>1 DEF IosInv, MapInv, StoredInv, KeptInv, LaterInv, LoadInv, ObjectInv, Upset, Begun, Overlap, Made,
                  Op, Pc, Id
    <3>4. ReasonInv'
      BY <3>1 DEF IosInv, ReasonInv, RefusedForAReason, Made, Op, Context
    <3> QED BY <3>2, <3>3, <3>4 DEF IosInv
  <2> QED BY <2>1, <2>2, <2>3 DEF NativeInv
<1> QED
  BY <1>0, <1>1, <1>2, <1>3, <1>4, <1>5 DEF Next, Step, EndsByItself, AndroidStep, IosStep

-----------------------------------------------------------------------------
(* The native plugin keeps its types.                                      *)
THEOREM TypeCorrect == Spec => []TypeOK
<1>1. NativeInv => TypeOK
  BY TypesTypeOK DEF NativeInv
<1> QED BY NativeInit, NativeStep, <1>1, PTL DEF Spec

(* On iOS a call is refused, which ends the application, only if its       *)
(* object was released or is busy with an unanswered completion.           *)
THEOREM RefusalsHaveAReason == Spec => []RefusedForAReason
<1>1. NativeInv => RefusedForAReason
  BY DEF NativeInv, IosInv, ReasonInv, RefusedForAReason
<1> QED BY NativeInit, NativeStep, <1>1, PTL DEF Spec

(* What iOS promises of its contexts follows from the invariant.           *)
LEMMA IosKeeps ==
  ASSUME NativeInv, platform = "ios"
  PROVE  FreedNotUsed /\ HeldByMap /\ OwnContext
<1>0. IosInv /\ JsInv(Pcs)
  BY DEF NativeInv, Types
<1>1. FreedNotUsed
  BY <1>0 DEF IosInv, ReasonInv, FreedNotUsed
<1>2. HeldByMap
  BY <1>0 DEF IosInv, MapInv, KeptInv, HeldByMap, Id
<1>3. OwnContext
  <2>1. CASE Upset
    BY <2>1 DEF Upset, OwnContext, Mixed, Met
  <2>2. CASE \A k \in 1 .. Len(own) : Id(own[k]) = k - 1
    <3>1. contextCounter = Len(own) /\ Len(own) \in Nat
      BY <1>0 DEF JsInv, OwnInv
    <3>2. ASSUME NEW id \in 0 .. contextCounter - 1, Own(id) \in alive
          PROVE  contexts[id] = Own(id)
      <4>1. id + 1 \in 1 .. Len(own) /\ (id + 1) - 1 = id
        BY <3>1
      <4>2. Id(Own(id)) = id
        BY <2>2, <4>1 DEF Own
      <4> QED BY <1>0, <3>2, <4>2 DEF IosInv, MapInv, KeptInv
    <3> QED BY <3>2 DEF OwnContext
  <2> QED BY <1>0, <2>1, <2>2 DEF IosInv, MapInv, LoadInv
<1> QED BY <1>1, <1>2, <1>3
-----------------------------------------------------------------------------
(* Android                                                                 *)
(***************************************************************************)
(* The invariant says where a call can be, what it holds, and which        *)
(* entries of the map may be deleted contexts.                             *)
(***************************************************************************)

AndroidPlace(op, pc) ==
  \/ pc \in {"sent", "done"}
  \/ op = "initContext" /\ pc \in {"loading", "putting", "loaded"}
  \/ op = "completion" /\ pc \in {"found", "running"}
  \/ op = "tokenize" /\ pc = "found"
  \/ op = "stopCompletion" /\ pc = "stopping"
  \/ op = "releaseContext" /\ pc \in {"stopping", "freeing", "removing"}
  \/ op = "releaseAllContexts" /\ pc \in {"iterating", "stopping", "freeing", "lost"}

PlacedInv == \A c \in Made : AndroidPlace(Op(c), Pc(c))

(* A load has its own context from the moment it succeeds.                 *)
LoadsInv ==
  /\ \A c \in Made : Op(c) = "initContext" =>
       /\ Context(c) \in {NoContext, c}
       /\ Pc(c) \in {"sent", "loading"} => Context(c) = NoContext
       /\ Pc(c) \in {"putting", "loaded"} => Context(c) = c
       /\ Pc(c) = "putting" => c \in alive
  /\ \A c \in alive : c \in Made /\ Op(c) = "initContext" /\ Context(c) = c

(* Context h was put under the id i.                                       *)
Entry(h, i) == /\ h \in Made /\ Op(h) = "initContext" /\ Context(h) = h /\ Id(h) = i
               /\ Pc(h) \in {"loaded", "done"}
EntriesInv == \A i \in Ids : contexts[i] # NoContext => Entry(contexts[i], i)

(* Whatever a call found was an entry of the map; the iterator of a        *)
(* releaseAllContexts is past the one it stops and frees.                  *)
HeldInv ==
  \A c \in Made : Op(c) # "initContext" /\ Context(c) # NoContext =>
    /\ Entry(Context(c), Id(Context(c)))
    /\ Op(c) # "releaseAllContexts" => Id(Context(c)) = Id(c)
    /\ Op(c) = "releaseAllContexts" /\ Pc(c) \in {"stopping", "freeing"}
         => Id(c) = NoId \/ Id(Context(c)) < Id(c)

Holding(c) == Pc(c) \in {"found", "running", "stopping", "freeing"}

(* Release d has freed the entry under i and has not taken it out yet.     *)
Freed(d, i) ==
  \/ Pc(d) = "removing" /\ Id(d) = i
  \/ /\ Op(d) = "releaseAllContexts" /\ Pc(d) \in {"iterating", "stopping", "freeing", "lost"}
     /\ Id(d) = NoId \/ i < Id(d)

(* A deleted context is held or found only beside a release.               *)
HoldInv == \A c \in Made : Holding(c) /\ Context(c) \notin alive => Met(c, Releases)
FreedInv ==
  /\ \A c \in Made : Pc(c) = "removing" => Context(c) # NoContext /\ Context(c) \notin alive
  /\ \A i \in Ids : contexts[i] # NoContext /\ contexts[i] \notin alive => \E d \in Made : Freed(d, i)
FaultInv == \A c \in fault : c \in Made /\ Met(c, Releases)

(* Two loads that both succeed have the same id only if they met.          *)
CountedInv ==
  /\ \A c \in Made : Op(c) = "initContext" /\ Over(c) /\ Context(c) = c => Id(c) < contextCounter
  /\ \A c, d \in Made : c < d /\ Op(c) = "initContext" /\ Op(d) = "initContext" /\ Id(c) = Id(d) =>
       c \in calls[d].during \/ (Over(c) /\ Context(c) = NoContext)

(* The iterator of a releaseAllContexts does not pass over a context whose *)
(* load met no other load and no releaseAllContexts.                       *)
Others == {"initContext", "releaseAllContexts"}
ReachInv ==
  \A d \in Made, e \in alive : Iterating(d) /\ contexts[Id(e)] = e =>
    \/ Met(e, Others)
    \/ Id(d) # NoId /\ Id(d) <= Id(e)
    \/ Pc(d) \in {"stopping", "freeing"} /\ Context(d) = e

MappedInv == \A c \in alive : Pc(c) = "putting" \/ contexts[Id(c)] = c \/ Met(c, Others)

AndroidInv == /\ PlacedInv /\ LoadsInv /\ EntriesInv /\ HeldInv /\ HoldInv /\ FreedInv /\ FaultInv
              /\ CountedInv /\ ReachInv /\ MappedInv

-----------------------------------------------------------------------------
LEMMA MetStays ==
  ASSUME Types, NEW c \in Made, NEW pc, NEW h, NEW k, Moved(c, pc, h, k)
  PROVE  \A d \in Made : \A ops : Met(d, ops)' <=> Met(d, ops)
  BY Frame DEF Met

(* Two calls under way meet each other.                                    *)
LEMMA Meets ==
  ASSUME Types, NEW c \in Made, NEW d \in Made, c # d, ~Over(c), ~Over(d)
  PROVE  \A ops : Op(d) \in ops => Met(c, ops)
<1>1. Overlap(c, d)
  BY InFlight DEF Types, JsInv
<1> QED BY <1>1 DEF Met

(* A context that was put remains one that was put.                        *)
LEMMA EntryStays ==
  ASSUME Types, NEW c \in Made, NEW pc, NEW h, NEW k, Moved(c, pc, h, k), Pc(c) # "done",
         Op(c) = "initContext" /\ Pc(c) = "loaded" => pc = "done" /\ h = Context(c)
  PROVE  \A g, i : Entry(g, i) => Entry(g, i)' /\ Id(g)' = Id(g)
  BY Frame DEF Entry

(* Only a call that holds a deleted context makes the history longer.      *)
LEMMA FaultMoved ==
  ASSUME Types, AndroidInv, NEW c \in Made, NEW pc, NEW h, NEW k, Moved(c, pc, h, k),
         \/ Holding(c) /\ (Enter(c, Context(c)) \/ Dangle(c, Context(c)))
         \/ UNCHANGED fault
  PROVE  FaultInv'
<1>1. \A d \in fault' : d \in fault \/ (d = c /\ Holding(c) /\ Context(c) \notin alive)
  BY DEF Enter, Dangle
<1>2. \A d \in fault' : d \in Made /\ Met(d, Releases)
  BY <1>1 DEF AndroidInv, FaultInv, HoldInv
<1> QED BY <1>2, Frame, MetStays DEF FaultInv

LEMMA CountedMoved ==
  ASSUME Types, AndroidInv, NEW c \in Made, NEW pc, NEW h, NEW k, Moved(c, pc, h, k), Pc(c) # "done",
         Op(c) = "initContext" /\ pc = "done" => h # c, contextCounter' = contextCounter
  PROVE  CountedInv'
<1>1. /\ Made' = Made
      /\ \A d \in Made : /\ Op(d)' = Op(d) /\ calls'[d].during = calls[d].during
                         /\ Op(d) # "releaseAllContexts" => Id(d)' = Id(d)
                         /\ d # c => (Over(d)' <=> Over(d)) /\ Context(d)' = Context(d)
      /\ (Over(c)' <=> pc = "done") /\ Context(c)' = h /\ ~Over(c)
  BY Frame DEF Over, Pc
<1>2. \A d \in Made : Over(d) => Over(d)' /\ Context(d)' = Context(d)
  BY <1>1
<1>3. ASSUME NEW d \in Made', Op(d)' = "initContext" /\ Over(d)' /\ Context(d)' = d
      PROVE  Id(d)' < contextCounter'
  <2>1. d # c
    BY <1>1, <1>3
  <2>2. Id(d) < contextCounter
    BY <1>1, <1>3, <2>1 DEF AndroidInv, CountedInv
  <2>3. Id(d)' = Id(d)
    BY <1>1, <1>3
  <2> QED BY <2>2, <2>3
<1>4. ASSUME NEW d \in Made', NEW e \in Made', d < e /\ Op(d)' = "initContext" /\ Op(e)' = "initContext" /\ Id(d)' = Id(e)'
      PROVE  d \in calls'[e].during \/ (Over(d)' /\ Context(d)' = NoContext)
  <2>1. d \in calls[e].during \/ (Over(d) /\ Context(d) = NoContext)
    BY <1>1, <1>4 DEF AndroidInv, CountedInv
  <2> QED BY <1>1, <1>2, <2>1
<1> QED BY <1>3, <1>4 DEF CountedInv

(* A step that leaves the map, the contexts and the context of its call.   *)
LEMMA QuietStep ==
  ASSUME Types, AndroidInv, platform = "android", NEW c \in Made, NEW pc,
         Pc(c) \notin {"done", "lost", "removing"}, pc \notin {"iterating", "removing"},
         Moved(c, pc, Context(c), Id(c)), AndroidPlace(Op(c), pc),
         UNCHANGED <<contexts, alive, contextCounter>>,
         Op(c) = "initContext" => \/ Pc(c) = "sent" /\ pc \in {"loading", "done"}
                                  \/ Pc(c) = "loading" /\ pc = "done",
         pc \in {"found", "running", "stopping", "freeing"} => Holding(c),
         Iterating(c) => pc \in {"freeing", "lost"} /\ (pc = "freeing" => Pc(c) = "stopping"),
         \/ Holding(c) /\ (Enter(c, Context(c)) \/ Dangle(c, Context(c)))
         \/ UNCHANGED fault
  PROVE  AndroidInv'
<1> USE DEF AndroidInv
<1>1. /\ Made' = Made
      /\ \A d \in Made : /\ Op(d)' = Op(d) /\ Id(d)' = Id(d) /\ Context(d)' = Context(d)
                         /\ d # c => Pc(d)' = Pc(d)
      /\ Pc(c)' = pc
  BY Frame
<1>2. \A d \in Made : \A ops : Met(d, ops)' <=> Met(d, ops)
  BY MetStays
<1>3. \A g, i : Entry(g, i) => Entry(g, i)'
  BY EntryStays
<1>4. PlacedInv'
  BY <1>1 DEF PlacedInv
<1>5. LoadsInv'
  BY <1>1 DEF LoadsInv, PlacedInv, AndroidPlace
<1>6. EntriesInv'
  BY <1>3 DEF EntriesInv
<1>7. HeldInv'
  BY <1>1, <1>3 DEF HeldInv, Iterating, Pc, Entry, Holding, PlacedInv, AndroidPlace
<1>8. HoldInv'
  BY <1>1, <1>2 DEF HoldInv, Holding
<1>9. FreedInv'
  <2>1. \A d \in Made, i \in Ids : Freed(d, i) => Freed(d, i)'
    <3>1. ASSUME NEW i \in Ids, Freed(c, i) PROVE Freed(c, i)'
      <4>1. Op(c) = "releaseAllContexts" /\ (Id(c) = NoId \/ i < Id(c))
        BY <3>1 DEF Freed
      <4>2. pc \in {"freeing", "lost"}
        BY <3>1, <4>1 DEF Freed, Iterating, Pc
      <4> QED BY <1>1, <4>1, <4>2 DEF Freed
    <3>2. ASSUME NEW d \in Made, NEW i \in Ids, d # c, Freed(d, i) PROVE Freed(d, i)'
      BY <1>1, <3>2 DEF Freed
    <3> QED BY <3>1, <3>2
  <2> QED BY <1>1, <2>1 DEF FreedInv
<1>10. FaultInv'
  BY FaultMoved
<1>11. CountedInv'
  BY CountedMoved, CallTypes DEF LoadsInv, Calls, NoContext, Contexts
<1>12. ReachInv'
  <2>1. ASSUME NEW d \in Made, Iterating(d)'
        PROVE  Iterating(d) /\ (Pc(d) \in {"stopping", "freeing"} => Pc(d)' \in {"stopping", "freeing"})
    <3>1. CASE d = c
      <4>1. Op(c) = "releaseAllContexts" /\ pc \in {"stopping", "freeing"}
        BY <1>1, <2>1, <3>1 DEF Iterating, Pc
      <4>2. Pc(c) \in {"stopping", "freeing"}
        BY <4>1 DEF Holding, PlacedInv, AndroidPlace
      <4> QED BY <1>1, <3>1, <4>1, <4>2 DEF Iterating, Pc
    <3>2. CASE d # c
      BY <1>1, <2>1, <3>2 DEF Iterating, Pc
    <3> QED BY <3>1, <3>2
  <2>2. \A e \in alive : e \in Made
    BY DEF LoadsInv
  <2> QED BY <1>1, <1>2, <2>1, <2>2 DEF ReachInv
<1>13. MappedInv'
  BY <1>1, <1>2 DEF MappedInv, LoadsInv
<1> QED BY <1>4, <1>5, <1>6, <1>7, <1>8, <1>9, <1>10, <1>11, <1>12, <1>13

-----------------------------------------------------------------------------
(* The other steps, one by one.                                            *)

(* Two loads that succeed are sent the same id only if they meet.          *)
LEMMA SameId ==
  ASSUME Types, AndroidInv, NEW c \in Made, NEW d \in Made, c # d, Op(c) = "initContext",
         Op(d) = "initContext", Context(c) = c, Context(d) = d, Id(c) = Id(d)
  PROVE  Met(c, Others)
<1>1. c \in Calls /\ d \in Calls
  BY CallTypes
<1>2. c < d \/ d < c
  BY <1>1 DEF Calls
<1>3. c # NoContext /\ d # NoContext
  BY <1>1 DEF Calls, NoContext
<1>4. Overlap(c, d)
  BY <1>2, <1>3 DEF AndroidInv, CountedInv, Overlap
<1> QED BY <1>4 DEF Met, Others

(* A call that takes an entry of the map.                                  *)
LEMMA HeldMoved ==
  ASSUME Types, AndroidInv, NEW c \in Made, NEW pc, NEW h, NEW k, NEW i, Moved(c, pc, h, k),
         Pc(c) # "done", Op(c) # "initContext", Entry(h, i),
         Op(c) # "releaseAllContexts" => i = Id(c),
         Op(c) = "releaseAllContexts" => k = NoId \/ i < k
  PROVE  HeldInv'
<1>1. /\ Made' = Made
      /\ \A d \in Made : /\ Op(d)' = Op(d)
                         /\ d # c => Pc(d)' = Pc(d) /\ Context(d)' = Context(d) /\ Id(d)' = Id(d)
                         /\ Op(d) # "releaseAllContexts" => Id(d)' = Id(d)
      /\ Pc(c)' = pc /\ Context(c)' = h /\ Id(c)' = k
  BY Frame
<1>2. \A g, j : Entry(g, j) => Entry(g, j)'
  BY EntryStays
<1>3. ASSUME NEW d \in Made, Op(d) # "initContext", Context(d)' # NoContext
      PROVE  /\ Entry(Context(d), Id(Context(d)))'
             /\ Op(d) # "releaseAllContexts" => Id(Context(d))' = Id(d)
             /\ Op(d) = "releaseAllContexts" /\ Pc(d)' \in {"stopping", "freeing"}
                  => Id(d)' = NoId \/ Id(Context(d))' < Id(d)'
  <2>1. PICK g, j : /\ Entry(g, j) /\ g = Context(d)'
                    /\ Op(d) # "releaseAllContexts" => j = Id(d)
                    /\ Op(d) = "releaseAllContexts" /\ Pc(d)' \in {"stopping", "freeing"}
                         => Id(d)' = NoId \/ j < Id(d)'
    <3>1. CASE d = c
      BY <1>1, <3>1
    <3>2. CASE d # c
      BY <1>1, <1>3, <3>2 DEF AndroidInv, HeldInv
    <3> QED BY <3>1, <3>2
  <2>2. Entry(g, j)' /\ Id(g)' = j
    BY <1>2, <2>1 DEF Entry
  <2>3. Id(Context(d))' = j /\ Entry(Context(d), Id(Context(d)))'
    BY <2>1, <2>2 DEF Entry, Id
  <2> QED BY <2>1, <2>3
<1> QED BY <1>1, <1>3 DEF HeldInv

(* Whoever has freed an entry is a release under way.                      *)
LEMMA FreedBy ==
  ASSUME Types, AndroidInv, NEW d \in Made, NEW i, Freed(d, i)
  PROVE  ~Over(d) /\ Op(d) \in Releases
  BY DEF Freed, AndroidInv, PlacedInv, AndroidPlace, Over, Pc, Releases

LEMMA LoadedStep ==
  ASSUME Types, AndroidInv, NEW c \in Made, Op(c) = "initContext", Pc(c) = "loading",
         Moved(c, "putting", c, Id(c)), alive' = alive \cup {c},
         UNCHANGED <<contexts, contextCounter, fault>>
  PROVE  AndroidInv'
<1> USE DEF AndroidInv
<1>1. /\ Made' = Made
      /\ \A d \in Made : /\ Op(d)' = Op(d) /\ Id(d)' = Id(d)
                         /\ d # c => Pc(d)' = Pc(d) /\ Context(d)' = Context(d)
      /\ Pc(c)' = "putting" /\ Context(c)' = c
  BY Frame
<1>2. \A d \in Made : \A ops : Met(d, ops)' <=> Met(d, ops)
  BY MetStays
<1>3. \A g, i : Entry(g, i) => Entry(g, i)' /\ g # c
  BY EntryStays DEF Entry
<1>4. PlacedInv'
  BY <1>1 DEF PlacedInv, AndroidPlace
<1>5. LoadsInv'
  BY <1>1 DEF LoadsInv
<1>6. EntriesInv'
  BY <1>3 DEF EntriesInv
<1>7. HeldInv'
  BY <1>1, <1>3 DEF HeldInv, Entry
<1>8. HoldInv'
  BY <1>1, <1>2 DEF HoldInv, Holding
<1>9. FreedInv'
  <2>1. \A d \in Made, i \in Ids : Freed(d, i) => Freed(d, i)'
    BY <1>1 DEF Freed
  <2>2. ASSUME NEW d \in Made, Pc(d)' = "removing"
        PROVE  Context(d)' # NoContext /\ Context(d)' \notin alive'
    <3>1. Pc(d) = "removing" /\ Context(d)' = Context(d) /\ Op(d) = "releaseContext"
      BY <1>1, <2>2 DEF PlacedInv, AndroidPlace
    <3>2. Context(d) # NoContext /\ Context(d) \notin alive
      BY <3>1 DEF FreedInv
    <3>3. Context(d) # c
      BY <1>3, <3>1, <3>2 DEF HeldInv
    <3> QED BY <3>1, <3>2, <3>3
  <2> QED BY <1>1, <2>1, <2>2 DEF FreedInv
<1>10. FaultInv'
  BY FaultMoved
<1>11. CountedInv'
  BY CountedMoved
<1>12. ReachInv'
  <2>1. \A d \in Made : Iterating(d)' => Iterating(d) /\ d # c
    BY <1>1 DEF Iterating, Pc
  <2>2. Id(c) \in Ids
    BY CallTypes
  <2>3. contexts[Id(c)] # c
    BY <1>3, <2>2, CallTypes DEF EntriesInv, Calls, NoContext
  <2>4. \A e \in alive' : e # c => e \in alive /\ e \in Made
    BY DEF LoadsInv
  <2> QED BY <1>1, <1>2, <2>1, <2>3, <2>4 DEF ReachInv
<1>13. MappedInv'
  <2>1. \A e \in alive' : e # c => e \in alive /\ e \in Made
    BY DEF LoadsInv
  <2> QED BY <1>1, <1>2, <2>1 DEF MappedInv
<1> QED BY <1>4, <1>5, <1>6, <1>7, <1>8, <1>9, <1>10, <1>11, <1>12, <1>13

LEMMA PutStep ==
  ASSUME Types, AndroidInv, NEW c \in Made, Op(c) = "initContext", Pc(c) = "putting",
         Moved(c, "loaded", Context(c), Id(c)), contexts' = [contexts EXCEPT ![Id(c)] = c],
         UNCHANGED <<alive, contextCounter, fault>>
  PROVE  AndroidInv'
<1> USE DEF AndroidInv
<1>1. /\ Made' = Made
      /\ \A d \in Made : /\ Op(d)' = Op(d) /\ Id(d)' = Id(d) /\ Context(d)' = Context(d)
                         /\ d # c => Pc(d)' = Pc(d)
      /\ Pc(c)' = "loaded" /\ Context(c) = c /\ c \in alive
  BY Frame DEF LoadsInv
<1>2. \A d \in Made : \A ops : Met(d, ops)' <=> Met(d, ops)
  BY MetStays
<1>3. \A g, i : Entry(g, i) => Entry(g, i)' /\ g # c
  BY EntryStays DEF Entry
<1>4. /\ Id(c) \in Ids /\ c # NoContext /\ contexts'[Id(c)] = c
      /\ \A i \in Ids : i # Id(c) => contexts'[i] = contexts[i]
  BY CallTypes DEF Types, Calls, NoContext
<1>5. PlacedInv'
  BY <1>1 DEF PlacedInv, AndroidPlace
<1>6. LoadsInv'
  BY <1>1 DEF LoadsInv
<1>7. EntriesInv'
  <2>1. Entry(c, Id(c))'
    BY <1>1 DEF Entry
  <2> QED BY <1>1, <1>3, <1>4, <2>1 DEF EntriesInv, Entry
<1>8. HeldInv'
  BY <1>1, <1>3 DEF HeldInv, Entry
<1>9. HoldInv'
  BY <1>1, <1>2 DEF HoldInv, Holding
<1>10. FreedInv'
  <2>1. \A d \in Made, i \in Ids : Freed(d, i) => Freed(d, i)'
    BY <1>1 DEF Freed
  <2> QED BY <1>1, <1>4, <2>1 DEF FreedInv
<1>11. FaultInv'
  BY FaultMoved
<1>12. CountedInv'
  BY CountedMoved
<1>13. ReachInv'
  <2>1. \A d \in Made : Iterating(d)' => Iterating(d) /\ d # c /\ ~Over(d) /\ Op(d) \in Others
    BY <1>1 DEF Iterating, Pc, Over, Others
  <2>2. \A d \in Made : Iterating(d)' => Met(c, Others)
    BY <2>1, Meets DEF Over, Pc
  <2>3. \A e \in alive : e \in Made /\ Id(e) \in Ids
    BY CallTypes DEF LoadsInv
  <2>4. \A e \in alive : e # c /\ contexts'[Id(e)] = e => contexts[Id(e)] = e
    BY <1>4, <2>3
  <2> QED BY <1>1, <1>2, <2>1, <2>2, <2>3, <2>4 DEF ReachInv
<1>14. MappedInv'
  <2>1. ASSUME NEW e \in alive, e # c PROVE Pc(e)' = "putting" \/ contexts'[Id(e)'] = e \/ Met(e, Others)'
    <3>1. e \in Made /\ Op(e) = "initContext" /\ Context(e) = e /\ Id(e) \in Ids
      BY CallTypes DEF LoadsInv
    <3>2. CASE Id(e) # Id(c)
      BY <1>1, <1>2, <1>4, <2>1, <3>1, <3>2 DEF MappedInv
    <3>3. CASE Id(e) = Id(c)
      BY <1>1, <1>2, <2>1, <3>1, <3>3, SameId
    <3> QED BY <3>2, <3>3
  <2>2. contexts'[Id(c)'] = c
    BY <1>1, <1>4
  <2> QED BY <2>1, <2>2 DEF MappedInv
<1> QED BY <1>5, <1>6, <1>7, <1>8, <1>9, <1>10, <1>11, <1>12, <1>13, <1>14

LEMMA LookUpStep ==
  ASSUME Types, AndroidInv, NEW c \in Made, NEW pc \in {"found", "stopping"}, Pc(c) = "sent",
         Op(c) \in {"completion", "tokenize", "stopCompletion", "releaseContext"},
         AndroidPlace(Op(c), pc), Found(c) # NoContext,
         Moved(c, pc, Found(c), Id(c)), UNCHANGED <<contexts, alive, contextCounter, fault>>
  PROVE  AndroidInv'
<1> USE DEF AndroidInv
<1>1. /\ Made' = Made
      /\ \A d \in Made : /\ Op(d)' = Op(d) /\ Id(d)' = Id(d)
                         /\ d # c => Pc(d)' = Pc(d) /\ Context(d)' = Context(d)
      /\ Pc(c)' = pc /\ Context(c)' = Found(c) /\ Op(c) \notin {"initContext", "releaseAllContexts"}
  BY Frame
<1>2. \A d \in Made : \A ops : Met(d, ops)' <=> Met(d, ops)
  BY MetStays
<1>3. \A g, i : Entry(g, i) => Entry(g, i)' /\ Id(g)' = Id(g)
  BY EntryStays
<1>4. Id(c) \in Ids /\ Entry(Found(c), Id(c)) /\ Found(c) = contexts[Id(c)]
  BY CallTypes DEF EntriesInv, Found, Id
<1>5. PlacedInv'
  BY <1>1 DEF PlacedInv
<1>6. LoadsInv'
  BY <1>1 DEF LoadsInv
<1>7. EntriesInv'
  BY <1>3 DEF EntriesInv
<1>8. HeldInv'
  <2>1. Entry(Found(c), Id(c)) /\ (Op(c) # "releaseAllContexts" => Id(c) = Id(c))
    BY <1>4
  <2> QED BY <1>1, <2>1, HeldMoved
<1>9. HoldInv'
  <2>1. ASSUME Found(c) \notin alive PROVE Met(c, Releases)
    <3>1. PICK d \in Made : Freed(d, Id(c))
      BY <1>4, <2>1 DEF FreedInv
    <3>2. d # c /\ ~Over(c)
      BY <3>1 DEF Freed, Over, Pc
    <3> QED BY <3>1, <3>2, FreedBy, Meets
  <2> QED BY <1>1, <1>2, <2>1 DEF HoldInv, Holding
<1>10. FreedInv'
  <2>1. \A d \in Made, i \in Ids : Freed(d, i) => Freed(d, i)'
    BY <1>1 DEF Freed
  <2> QED BY <1>1, <2>1 DEF FreedInv
<1>11. FaultInv'
  BY FaultMoved
<1>12. CountedInv'
  BY CountedMoved
<1>13. ReachInv'
  <2>1. \A d \in Made : Iterating(d)' => Iterating(d) /\ d # c
    BY <1>1 DEF Iterating, Pc
  <2> QED BY <1>1, <1>2, <2>1 DEF ReachInv, LoadsInv
<1>14. MappedInv'
  BY <1>1, <1>2 DEF MappedInv, LoadsInv
<1> QED BY <1>5, <1>6, <1>7, <1>8, <1>9, <1>10, <1>11, <1>12, <1>13, <1>14

LEMMA FreeStep ==
  ASSUME Types, Holds, AndroidInv, NEW c \in Made, NEW pc, Pc(c) = "freeing",
         \/ Op(c) = "releaseContext" /\ pc = "removing"
         \/ Op(c) = "releaseAllContexts" /\ pc = "iterating",
         Moved(c, pc, Context(c), Id(c)), alive' = alive \ {Context(c)},
         Enter(c, Context(c)), UNCHANGED <<contexts, contextCounter>>
  PROVE  AndroidInv'
<1> USE DEF AndroidInv
<1>1. /\ Made' = Made
      /\ \A d \in Made : /\ Op(d)' = Op(d) /\ Id(d)' = Id(d) /\ Context(d)' = Context(d)
                         /\ d # c => Pc(d)' = Pc(d)
      /\ Pc(c)' = pc /\ Op(c) # "initContext"
  BY Frame
<1>2. \A d \in Made : \A ops : Met(d, ops)' <=> Met(d, ops)
  BY MetStays
<1>3. \A g, i : Entry(g, i) => Entry(g, i)'
  BY EntryStays
<1>4. /\ Context(c) # NoContext /\ Entry(Context(c), Id(Context(c)))
      /\ Op(c) = "releaseContext" => Id(Context(c)) = Id(c)
      /\ Op(c) = "releaseAllContexts" => Id(c) = NoId \/ Id(Context(c)) < Id(c)
  BY DEF Holds, HeldInv
<1>5. PlacedInv'
  BY <1>1 DEF PlacedInv, AndroidPlace
<1>6. LoadsInv'
  BY <1>1, <1>4 DEF LoadsInv, Entry
<1>7. EntriesInv'
  BY <1>3 DEF EntriesInv
<1>8. HeldInv'
  BY <1>1, <1>3 DEF HeldInv, Entry
<1>9. HoldInv'
  <2>1. ASSUME NEW d \in Made, d # c, Holding(d), Context(d) = Context(c) PROVE Met(d, Releases)
    BY <2>1, Meets DEF Holding, Over, Pc, Releases
  <2>2. \A d \in Made : Holding(d)' => Holding(d) /\ d # c
    BY <1>1 DEF Holding
  <2> QED BY <1>1, <1>2, <2>1, <2>2 DEF HoldInv
<1>10. FreedInv'
  <2>1. \A d \in Made, i \in Ids : Freed(d, i) => Freed(d, i)'
    BY <1>1 DEF Freed
  <2>2. ASSUME NEW i \in Ids, contexts[i] = Context(c) PROVE Freed(c, i)'
    <3>1. i = Id(Context(c))
      BY <1>4, <2>2 DEF EntriesInv, Entry
    <3> QED BY <1>1, <1>4, <3>1 DEF Freed
  <2>3. ASSUME NEW d \in Made, Pc(d)' = "removing"
        PROVE  Context(d)' # NoContext /\ Context(d)' \notin alive'
    BY <1>1, <1>4, <2>3 DEF FreedInv
  <2> QED BY <1>1, <2>1, <2>2, <2>3 DEF FreedInv
<1>11. FaultInv'
  BY FaultMoved DEF Holding
<1>12. CountedInv'
  BY CountedMoved
<1>13. ReachInv'
  <2>1. \A d \in Made : Iterating(d)' => Iterating(d)
    BY <1>1 DEF Iterating, Pc
  <2>2. \A e \in alive' : e \in alive /\ e # Context(c) /\ e \in Made
    BY DEF LoadsInv
  <2> QED BY <1>1, <1>2, <2>1, <2>2 DEF ReachInv
<1>14. MappedInv'
  BY <1>1, <1>2 DEF MappedInv, LoadsInv
<1> QED BY <1>5, <1>6, <1>7, <1>8, <1>9, <1>10, <1>11, <1>12, <1>13, <1>14

LEMMA RemoveStep ==
  ASSUME Types, AndroidInv, NEW c \in Made, Op(c) = "releaseContext", Pc(c) = "removing",
         Moved(c, "done", Context(c), Id(c)), contexts' = [contexts EXCEPT ![Id(c)] = NoContext],
         UNCHANGED <<alive, contextCounter, fault>>
  PROVE  AndroidInv'
<1> USE DEF AndroidInv
<1>1. /\ Made' = Made
      /\ \A d \in Made : /\ Op(d)' = Op(d) /\ Id(d)' = Id(d) /\ Context(d)' = Context(d)
                         /\ d # c => Pc(d)' = Pc(d)
      /\ Pc(c)' = "done"
  BY Frame
<1>2. \A d \in Made : \A ops : Met(d, ops)' <=> Met(d, ops)
  BY MetStays
<1>3. \A g, i : Entry(g, i) => Entry(g, i)'
  BY EntryStays
<1>4. /\ Id(c) \in Ids /\ contexts'[Id(c)] = NoContext
      /\ \A i \in Ids : i # Id(c) => contexts'[i] = contexts[i]
  BY CallTypes DEF Types
<1>5. PlacedInv'
  BY <1>1 DEF PlacedInv, AndroidPlace
<1>6. LoadsInv'
  BY <1>1 DEF LoadsInv
<1>7. EntriesInv'
  BY <1>3, <1>4 DEF EntriesInv
<1>8. HeldInv'
  BY <1>1, <1>3 DEF HeldInv, Entry
<1>9. HoldInv'
  BY <1>1, <1>2 DEF HoldInv, Holding
<1>10. FreedInv'
  <2>1. \A d \in Made, i \in Ids : Freed(d, i) /\ i # Id(c) => Freed(d, i)'
    BY <1>1 DEF Freed
  <2> QED BY <1>1, <1>4, <2>1 DEF FreedInv
<1>11. FaultInv'
  BY FaultMoved
<1>12. CountedInv'
  BY CountedMoved
<1>13. ReachInv'
  <2>1. \A d \in Made : Iterating(d)' => Iterating(d)
    BY <1>1 DEF Iterating, Pc
  <2>2. \A e \in alive : e \in Made /\ Id(e) \in Ids /\ e # NoContext
    BY CallTypes DEF LoadsInv, Types, Calls, NoContext
  <2>3. \A e \in alive : contexts'[Id(e)] = e => contexts[Id(e)] = e
    BY <1>4, <2>2
  <2> QED BY <1>1, <1>2, <2>1, <2>2, <2>3 DEF ReachInv
<1>14. MappedInv'
  <2>1. ASSUME NEW e \in alive PROVE Pc(e)' = "putting" \/ contexts'[Id(e)'] = e \/ Met(e, Others)'
    <3>1. e \in Made /\ Op(e) = "initContext" /\ Context(e) = e /\ Id(e) \in Ids
      BY CallTypes DEF LoadsInv
    <3>2. CASE Id(e) # Id(c)
      BY <1>1, <1>2, <1>4, <3>1, <3>2 DEF MappedInv
    <3>3. CASE Id(e) = Id(c)
      <4>1. Context(c) # NoContext /\ Context(c) # e
        BY DEF FreedInv
      <4>2. Entry(Context(c), Id(c))
        BY <4>1 DEF HeldInv
      <4>3. Met(e, Others)
        BY <3>1, <3>3, <4>1, <4>2, SameId DEF Entry
      <4> QED BY <1>2, <3>1, <4>3
    <3> QED BY <3>2, <3>3
  <2> QED BY <2>1 DEF MappedInv
<1> QED BY <1>5, <1>6, <1>7, <1>8, <1>9, <1>10, <1>11, <1>12, <1>13, <1>14

LEMMA BeginStep ==
  ASSUME Types, AndroidInv, NEW c \in Made, Op(c) = "releaseAllContexts", Pc(c) = "sent",
         Moved(c, "iterating", Context(c), FirstKey(0)),
         UNCHANGED <<contexts, alive, contextCounter, fault>>
  PROVE  AndroidInv'
<1> USE DEF AndroidInv
<1>1. /\ Made' = Made
      /\ \A d \in Made : /\ Op(d)' = Op(d) /\ Context(d)' = Context(d)
                         /\ d # c => Pc(d)' = Pc(d) /\ Id(d)' = Id(d)
                         /\ Op(d) # "releaseAllContexts" => Id(d)' = Id(d)
      /\ Pc(c)' = "iterating" /\ Id(c)' = FirstKey(0)
  BY Frame
<1>2. \A d \in Made : \A ops : Met(d, ops)' <=> Met(d, ops)
  BY MetStays
<1>3. \A g, i : Entry(g, i) => Entry(g, i)'
  BY EntryStays
<1>4. PlacedInv'
  BY <1>1 DEF PlacedInv, AndroidPlace
<1>5. LoadsInv'
  BY <1>1 DEF LoadsInv
<1>6. EntriesInv'
  BY <1>3 DEF EntriesInv
<1>7. HeldInv'
  BY <1>1, <1>3 DEF HeldInv, Entry
<1>8. HoldInv'
  BY <1>1, <1>2 DEF HoldInv, Holding
<1>9. FreedInv'
  <2>1. \A d \in Made, i \in Ids : Freed(d, i) => Freed(d, i)'
    BY <1>1 DEF Freed
  <2> QED BY <1>1, <2>1 DEF FreedInv
<1>10. FaultInv'
  BY FaultMoved
<1>11. CountedInv'
  BY CountedMoved
<1>12. ReachInv'
  <2>1. \A e \in alive : e \in Made /\ Op(e) = "initContext" /\ Id(e) \in Ids /\ e # NoContext
    BY CallTypes DEF LoadsInv, Types, Calls, NoContext
  <2>2. \A d \in Made : d # c => (Iterating(d)' <=> Iterating(d))
    BY <1>1 DEF Iterating, Pc
  <2>3. \A i \in Ids : contexts[i] # NoContext => FirstKey(0) # NoId /\ FirstKey(0) <= i
    BY FirstKeyProperties DEF Ids
  <2> QED BY <1>1, <1>2, <2>1, <2>2, <2>3 DEF ReachInv
<1>13. MappedInv'
  BY <1>1, <1>2 DEF MappedInv, LoadsInv
<1> QED BY <1>4, <1>5, <1>6, <1>7, <1>8, <1>9, <1>10, <1>11, <1>12, <1>13

LEMMA NextContextStep ==
  ASSUME Types, AndroidInv, NEW c \in Made, Op(c) = "releaseAllContexts", Pc(c) = "iterating",
         Id(c) \in Ids, contexts[Id(c)] # NoContext,
         Moved(c, "stopping", contexts[Id(c)], FirstKey(Id(c) + 1)),
         UNCHANGED <<contexts, alive, contextCounter, fault>>
  PROVE  AndroidInv'
<1> USE DEF AndroidInv
<1>1. /\ Made' = Made
      /\ \A d \in Made : /\ Op(d)' = Op(d)
                         /\ d # c => Pc(d)' = Pc(d) /\ Id(d)' = Id(d) /\ Context(d)' = Context(d)
                         /\ Op(d) # "releaseAllContexts" => Id(d)' = Id(d)
      /\ Pc(c)' = "stopping" /\ Id(c)' = FirstKey(Id(c) + 1) /\ Context(c)' = contexts[Id(c)]
  BY Frame
<1>2. \A d \in Made : \A ops : Met(d, ops)' <=> Met(d, ops)
  BY MetStays
<1>3. \A g, i : Entry(g, i) => Entry(g, i)'
  BY EntryStays
<1>4. /\ Id(c) \in Nat /\ Id(c) + 1 \in Nat /\ Entry(contexts[Id(c)], Id(c))
      /\ FirstKey(Id(c) + 1) \in Ids \cup {NoId}
      /\ FirstKey(Id(c) + 1) # NoId => FirstKey(Id(c) + 1) >= Id(c) + 1
      /\ \A i \in Ids : Id(c) + 1 <= i /\ contexts[i] # NoContext
                          => FirstKey(Id(c) + 1) # NoId /\ FirstKey(Id(c) + 1) <= i
  <2>1. Id(c) \in Nat /\ Id(c) + 1 \in Nat
    BY DEF Ids
  <2> QED BY <2>1, FirstKeyProperties DEF EntriesInv
<1>5. FirstKey(Id(c) + 1) = NoId \/ Id(c) < FirstKey(Id(c) + 1)
  BY <1>4 DEF Ids
<1>6. PlacedInv'
  BY <1>1 DEF PlacedInv, AndroidPlace
<1>7. LoadsInv'
  BY <1>1 DEF LoadsInv
<1>8. EntriesInv'
  BY <1>3 DEF EntriesInv
<1>9. HeldInv'
  BY <1>4, <1>5, HeldMoved
<1>10. HoldInv'
  <2>1. ASSUME contexts[Id(c)] \notin alive PROVE Met(c, Releases)
    <3>1. PICK d \in Made : Freed(d, Id(c))
      BY <2>1 DEF FreedInv
    <3>2. d # c /\ ~Over(c)
      BY <1>4, <3>1 DEF Freed, Over, Pc, Ids, NoId
    <3> QED BY <3>1, <3>2, FreedBy, Meets
  <2> QED BY <1>1, <1>2, <2>1 DEF HoldInv, Holding
<1>11. FreedInv'
  <2>1. ASSUME NEW i \in Ids, Freed(c, i) PROVE Freed(c, i)'
    <3>1. i < Id(c)
      BY <1>4, <2>1 DEF Freed, Ids, NoId
    <3>2. Id(c)' = NoId \/ i < Id(c)'
      BY <1>1, <1>4, <1>5, <3>1 DEF Ids, NoId
    <3> QED BY <1>1, <3>2 DEF Freed
  <2>2. \A d \in Made, i \in Ids : d # c /\ Freed(d, i) => Freed(d, i)'
    BY <1>1 DEF Freed
  <2> QED BY <1>1, <2>1, <2>2 DEF FreedInv
<1>12. FaultInv'
  BY FaultMoved
<1>13. CountedInv'
  BY CountedMoved
<1>14. ReachInv'
  <2>1. \A e \in alive : e \in Made /\ Op(e) = "initContext" /\ Id(e) \in Ids /\ e # NoContext
    BY CallTypes DEF LoadsInv, Types, Calls, NoContext
  <2>2. \A d \in Made : d # c => (Iterating(d)' <=> Iterating(d))
    BY <1>1 DEF Iterating, Pc
  <2>3. ASSUME NEW e \in alive, contexts[Id(e)] = e
        PROVE  \/ Met(e, Others)
               \/ Id(c)' # NoId /\ Id(c)' <= Id(e)
               \/ Context(c)' = e
    <3>1. Met(e, Others) \/ Id(c) <= Id(e)
      BY <2>3 DEF ReachInv, Iterating, Pc
    <3>2. CASE Id(c) = Id(e)
      BY <1>1, <2>3, <3>2
    <3>3. CASE Id(c) # Id(e) /\ Id(c) <= Id(e)
      <4>1. Id(e) \in Ids /\ Id(c) + 1 <= Id(e)
        BY <1>4, <2>1, <3>3 DEF Ids
      <4> QED BY <1>1, <1>4, <2>1, <2>3, <4>1
    <3> QED BY <3>1, <3>2, <3>3
  <2> QED BY <1>1, <1>2, <2>1, <2>2, <2>3 DEF ReachInv
<1>15. MappedInv'
  BY <1>1, <1>2 DEF MappedInv, LoadsInv
<1> QED
  BY <1>6, <1>7, <1>8, <1>9, <1>10, <1>11, <1>12, <1>13, <1>14, <1>15

LEMMA EndReleaseAllStep ==
  ASSUME Types, AndroidInv, NEW c \in Made, Op(c) = "releaseAllContexts", Pc(c) = "iterating",
         Id(c) = NoId, Moved(c, "done", Context(c), Id(c)), contexts' = [i \in Ids |-> NoContext],
         UNCHANGED <<alive, contextCounter, fault>>
  PROVE  AndroidInv'
<1> USE DEF AndroidInv
<1>1. /\ Made' = Made
      /\ \A d \in Made : /\ Op(d)' = Op(d) /\ Context(d)' = Context(d) /\ Id(d)' = Id(d)
                         /\ d # c => Pc(d)' = Pc(d)
      /\ Pc(c)' = "done"
  BY Frame
<1>2. \A d \in Made : \A ops : Met(d, ops)' <=> Met(d, ops)
  BY MetStays
<1>3. \A g, i : Entry(g, i) => Entry(g, i)'
  BY EntryStays
<1>4. \A i \in Ids : contexts'[i] = NoContext
  OBVIOUS
<1>5. \A e \in alive : e \in Made /\ Id(e) \in Ids /\ e # NoContext
  BY CallTypes DEF LoadsInv, Types, Calls, NoContext
<1>6. PlacedInv'
  BY <1>1 DEF PlacedInv, AndroidPlace
<1>7. LoadsInv'
  BY <1>1 DEF LoadsInv
<1>8. EntriesInv'
  BY <1>4 DEF EntriesInv
<1>9. HeldInv'
  BY <1>1, <1>3 DEF HeldInv, Entry
<1>10. HoldInv'
  BY <1>1, <1>2 DEF HoldInv, Holding
<1>11. FreedInv'
  BY <1>1, <1>4 DEF FreedInv
<1>12. FaultInv'
  BY FaultMoved
<1>13. CountedInv'
  BY CountedMoved
<1>14. ReachInv'
  BY <1>1, <1>4, <1>5 DEF ReachInv
<1>15. MappedInv'
  <2>1. \A e \in alive : contexts[Id(e)] = e => Met(e, Others)
    BY DEF ReachInv, Iterating, Pc
  <2> QED BY <1>1, <1>2, <1>5, <2>1 DEF MappedInv
<1> QED
  BY <1>6, <1>7, <1>8, <1>9, <1>10, <1>11, <1>12, <1>13, <1>14, <1>15

LEMMA AndroidAnswerStep ==
  ASSUME Types, AndroidInv, NEW c \in Made, Answer(c)
  PROVE  AndroidInv'
<1> USE DEF AndroidInv
<1>0. /\ Op(c) = "initContext" /\ Pc(c) = "loaded" /\ Moved(c, "done", Context(c), Id(c))
      /\ UNCHANGED <<contexts, alive, fault>> /\ contextCounter' = contextCounter + 1
      /\ contextCounter \in Nat
  BY AnswerFrame DEF native
<1>1. /\ Made' = Made
      /\ \A d \in Made : /\ Op(d)' = Op(d) /\ Context(d)' = Context(d) /\ Id(d)' = Id(d)
                         /\ calls'[d].during = calls[d].during
                         /\ d # c => Pc(d)' = Pc(d)
      /\ Pc(c)' = "done" /\ Context(c) = c
  BY <1>0, Frame DEF LoadsInv
<1>2. \A d \in Made : \A ops : Met(d, ops)' <=> Met(d, ops)
  BY <1>0, MetStays
<1>3. \A g, i : Entry(g, i) => Entry(g, i)'
  BY <1>0, EntryStays
<1>4. PlacedInv'
  BY <1>1 DEF PlacedInv, AndroidPlace
<1>5. LoadsInv'
  BY <1>0, <1>1 DEF LoadsInv
<1>6. EntriesInv'
  BY <1>0, <1>3 DEF EntriesInv
<1>7. HeldInv'
  BY <1>0, <1>1, <1>3 DEF HeldInv, Entry
<1>8. HoldInv'
  BY <1>0, <1>1, <1>2 DEF HoldInv, Holding
<1>9. FreedInv'
  <2>1. \A d \in Made, i \in Ids : Freed(d, i) => Freed(d, i)'
    BY <1>0, <1>1 DEF Freed
  <2> QED BY <1>0, <1>1, <2>1 DEF FreedInv
<1>10. FaultInv'
  BY <1>0, FaultMoved
<1>11. CountedInv'
  <2>1. ASSUME NEW d \in Made, Op(d) = "initContext" /\ Over(d)' /\ Context(d) = d
        PROVE  Id(d) < contextCounter + 1
    <3>1. Id(d) \in Nat
      BY <2>1, CallTypes DEF Ids
    <3>2. CASE d = c
      <4>1. Id(c) <= contextCounter
        BY <1>0 DEF Types, JsInv, CounterInv, Id
      <4> QED BY <1>0, <3>1, <3>2, <4>1
    <3>3. CASE d # c
      <4>1. Over(d)
        BY <1>1, <2>1, <3>3 DEF Over, Pc
      <4>2. Id(d) < contextCounter
        BY <2>1, <4>1 DEF CountedInv
      <4> QED BY <1>0, <3>1, <4>2
    <3> QED BY <3>2, <3>3
  <2>2. \A d \in Made : Over(d) => Over(d)'
    BY <1>1 DEF Over, Pc
  <2> QED BY <1>0, <1>1, <2>1, <2>2 DEF CountedInv
<1>12. ReachInv'
  <2>1. \A d \in Made : Iterating(d)' => Iterating(d) /\ d # c
    BY <1>0, <1>1 DEF Iterating, Pc
  <2>2. \A e \in alive : e \in Made
    BY DEF LoadsInv
  <2> QED BY <1>0, <1>1, <1>2, <2>1, <2>2 DEF ReachInv
<1>13. MappedInv'
  BY <1>0, <1>1, <1>2 DEF MappedInv, LoadsInv
<1> QED BY <1>4, <1>5, <1>6, <1>7, <1>8, <1>9, <1>10, <1>11, <1>12, <1>13

LEMMA AndroidSentStep ==
  ASSUME Types, AndroidInv, Application
  PROVE  AndroidInv'
<1> USE DEF AndroidInv
<1>0. UNCHANGED <<contextCounter, contexts, alive, fault>>
  BY SentFrame DEF native
<1>1. PICK n \in Calls, op \in Ops :
        /\ Made' = Made \cup {n} /\ n \notin Made /\ \A d \in Made : d < n
        /\ \A d \in Made : calls'[d] = calls[d]
        /\ calls'[n].op = op /\ calls'[n].pc = "sent" /\ calls'[n].context = NoContext
        /\ calls'[n].during = {d \in Made : ~Over(d)}
        /\ op = "initContext" => calls'[n].id = contextCounter
  BY SentFrame
<1>2. /\ \A d \in Made : /\ Op(d)' = Op(d) /\ Pc(d)' = Pc(d) /\ Context(d)' = Context(d)
                         /\ Id(d)' = Id(d) /\ (Over(d)' <=> Over(d))
      /\ Op(n)' = op /\ Pc(n)' = "sent" /\ Context(n)' = NoContext /\ ~Over(n)'
  BY <1>1 DEF Op, Pc, Context, Id, Over
<1>3. \A d \in Made : \A ops : Met(d, ops) => Met(d, ops)'
  BY <1>1, <1>2 DEF Met, Overlap
<1>4. \A g, i : Entry(g, i) => Entry(g, i)'
  BY <1>1, <1>2 DEF Entry
<1>5. PlacedInv'
  BY <1>1, <1>2 DEF PlacedInv, AndroidPlace
<1>6. LoadsInv'
  BY <1>0, <1>1, <1>2 DEF LoadsInv
<1>7. EntriesInv'
  BY <1>0, <1>4 DEF EntriesInv
<1>8. HeldInv'
  BY <1>1, <1>2, <1>4 DEF HeldInv, Entry
<1>9. HoldInv'
  BY <1>0, <1>1, <1>2, <1>3 DEF HoldInv, Holding
<1>10. FreedInv'
  <2>1. \A d \in Made, i \in Ids : Freed(d, i) => Freed(d, i)'
    BY <1>1, <1>2 DEF Freed
  <2> QED BY <1>0, <1>1, <1>2, <2>1 DEF FreedInv
<1>11. FaultInv'
  BY <1>0, <1>1, <1>3 DEF FaultInv
<1>12. CountedInv'
  <2>1. \A d \in Made' : Op(d)' = "initContext" /\ Over(d)' /\ Context(d)' = d => Id(d)' < contextCounter'
    BY <1>0, <1>1, <1>2 DEF CountedInv
  <2>2. ASSUME NEW d \in Made', NEW e \in Made', d < e, Op(d)' = "initContext", Op(e)' = "initContext",
               Id(d)' = Id(e)'
        PROVE  d \in calls'[e].during \/ (Over(d)' /\ Context(d)' = NoContext)
    <3>1. d \in Made
      <4>1. d \in Calls /\ e \in Calls
        BY <1>1, CallTypes
      <4>2. e = n \/ e < n
        BY <1>1
      <4> QED BY <1>1, <2>2, <4>1, <4>2 DEF Calls
    <3>2. CASE e = n
      <4>1. Id(d) = contextCounter /\ Op(d) = "initContext"
        BY <1>1, <1>2, <2>2, <3>1, <3>2 DEF Id, Op
      <4>2. ~Over(d) \/ Context(d) = NoContext
        <5>1. Context(d) \in {NoContext, d}
          BY <3>1, <4>1 DEF LoadsInv
        <5>2. contextCounter \in Nat
          BY CounterBound DEF Types, JsInv
        <5> QED BY <3>1, <4>1, <5>1, <5>2 DEF CountedInv
      <4> QED BY <1>1, <1>2, <3>1, <3>2, <4>2
    <3>3. CASE e # n
      BY <1>1, <1>2, <2>2, <3>1, <3>3 DEF CountedInv
    <3> QED BY <3>2, <3>3
  <2> QED BY <2>1, <2>2 DEF CountedInv
<1>13. ReachInv'
  <2>1. \A d \in Made' : Iterating(d)' => d \in Made /\ Iterating(d)
    BY <1>1, <1>2 DEF Iterating, Pc
  <2> QED BY <1>0, <1>2, <1>3, <2>1 DEF ReachInv, LoadsInv
<1>14. MappedInv'
  BY <1>0, <1>2, <1>3 DEF MappedInv, LoadsInv
<1> QED BY <1>5, <1>6, <1>7, <1>8, <1>9, <1>10, <1>11, <1>12, <1>13, <1>14

-----------------------------------------------------------------------------
LEMMA AndroidStepInv ==
  ASSUME Types, Holds, AndroidInv, NEW c \in Made,
         \/ AndroidStep(c)
         \/ platform = "android" /\ EndCompletion(c)
              /\ UNCHANGED <<contextCounter, own, platform, predicting, llamaDQueue>>
  PROVE  AndroidInv'
<1>0. /\ platform = "android" /\ UNCHANGED <<contextCounter, own, platform, predicting, llamaDQueue>>
      /\ AndroidPlace(Op(c), Pc(c))
  BY DEF AndroidStep, AndroidInv, PlacedInv
<1> USE DEF At, Pc, mapVars, AndroidPlace
<1>1. CASE StartLoad(c)
  <2>1. Moved(c, "loading", Context(c), Id(c))
    BY <1>1, CallTypes, Goes DEF StartLoad
  <2> QED BY <1>0, <1>1, <2>1, QuietStep DEF StartLoad, NotFound, Iterating
<1>2. CASE FinishLoad(c)
  <2>1. CASE SetPc(c, "done") /\ UNCHANGED alive
    <3>1. Moved(c, "done", Context(c), Id(c))
      BY <2>1, CallTypes, Goes
    <3> QED BY <1>0, <1>2, <2>1, <3>1, QuietStep DEF FinishLoad, Iterating
  <2>2. CASE Move(c, "putting", c) /\ alive' = alive \cup {c}
    <3>1. Moved(c, "putting", c, Id(c))
      BY <2>2, CallTypes, Goes
    <3> QED BY <1>0, <1>2, <2>2, <3>1, LoadedStep DEF FinishLoad
  <2> QED BY <1>2, <2>1, <2>2 DEF FinishLoad
<1>3. CASE PutContext(c)
  <2>1. Moved(c, "loaded", Context(c), Id(c))
    BY <1>3, CallTypes, Goes DEF PutContext
  <2> QED BY <1>0, <1>3, <2>1, PutStep DEF PutContext, Put, Id
<1>4. ASSUME NEW op \in {"completion", "tokenize", "stopCompletion", "releaseContext"},
             NEW pc \in {"found", "stopping"}, LookUp(c, op, pc), AndroidPlace(op, pc)
      PROVE  AndroidInv'
  <2>1. Moved(c, pc, Found(c), Id(c))
    BY <1>4, CallTypes, Goes DEF LookUp
  <2> HIDE DEF AndroidPlace
  <2> QED BY <1>0, <1>4, <2>1, LookUpStep DEF LookUp
<1>5. CASE LookUpFails(c)
  <2>1. Moved(c, "done", Context(c), Id(c))
    BY <1>5, CallTypes, Goes DEF LookUpFails
  <2> QED BY <1>0, <1>5, <2>1, QuietStep DEF LookUpFails, NotFound, Iterating
<1>6. CASE Rewind(c)
  <2>1. Moved(c, "running", Context(c), Id(c))
    BY <1>6, CallTypes, Goes DEF Rewind
  <2> QED BY <1>0, <1>6, <2>1, QuietStep DEF Rewind, Iterating, Holding
<1>7. CASE EndCompletion(c)
  <2>1. Moved(c, "done", Context(c), Id(c))
    BY <1>7, CallTypes, Goes DEF EndCompletion
  <2> QED BY <1>0, <1>7, <2>1, QuietStep DEF EndCompletion, Iterating, Holding
<1>8. CASE Tokenize(c)
  <2>1. Moved(c, "done", Context(c), Id(c))
    BY <1>8, CallTypes, Goes DEF Tokenize
  <2> QED BY <1>0, <1>8, <2>1, QuietStep DEF Tokenize, Iterating, Holding
<1>9. CASE Stop(c)
  <2> DEFINE pc == IF Op(c) = "stopCompletion" THEN "done" ELSE "freeing"
  <2>1. Moved(c, pc, Context(c), Id(c))
    BY <1>9, CallTypes, Goes DEF Stop
  <2>2. /\ pc \in {"done", "freeing"} /\ Pc(c) = "stopping" /\ Op(c) # "initContext"
        /\ AndroidPlace(Op(c), pc) /\ Holding(c) /\ (Iterating(c) => pc = "freeing")
    BY <1>9 DEF Stop, Holding, Iterating
  <2> HIDE DEF pc, AndroidPlace
  <2> QED BY <1>0, <1>9, <2>1, <2>2, QuietStep DEF Stop
<1>10. CASE FreeContext(c)
  <2> DEFINE pc == IF Op(c) = "releaseContext" THEN "removing" ELSE "iterating"
  <2>1. Moved(c, pc, Context(c), Id(c))
    BY <1>10, CallTypes, Goes DEF FreeContext
  <2> QED BY <1>0, <1>10, <2>1, FreeStep DEF FreeContext
<1>11. CASE RemoveContext(c)
  <2>1. Moved(c, "done", Context(c), Id(c))
    BY <1>11, CallTypes, Goes DEF RemoveContext
  <2> QED BY <1>0, <1>11, <2>1, RemoveStep DEF RemoveContext, Remove, Id
<1>12. CASE BeginReleaseAll(c)
  <2>1. Moved(c, "iterating", Context(c), FirstKey(0))
    BY <1>12, CallTypes, Goes DEF BeginReleaseAll
  <2> QED BY <1>0, <1>12, <2>1, BeginStep DEF BeginReleaseAll
<1>13. CASE NextContext(c)
  <2>1. CASE c \in modified
    <3>1. Moved(c, "lost", Context(c), Id(c))
      BY <1>13, <2>1, CallTypes, Goes DEF NextContext
    <3> QED BY <1>0, <1>13, <3>1, QuietStep DEF NextContext, Iterating
  <2>2. CASE c \notin modified
    <3>1. Moved(c, "stopping", contexts[Id(c)], FirstKey(Id(c) + 1))
      BY <1>13, <2>2, CallTypes, Goes DEF NextContext, Id
    <3>2. Id(c) \in Ids
      BY <1>13, CallTypes DEF NextContext, Id
    <3>3. contexts[Id(c)] # NoContext
      BY <1>13, <2>2, <3>2 DEF Holds, Iterating, NextContext, Id
    <3> QED BY <1>0, <1>13, <3>1, <3>2, <3>3, NextContextStep DEF NextContext
  <2> QED BY <2>1, <2>2
<1>14. CASE EndReleaseAll(c)
  <2>1. Moved(c, "done", Context(c), Id(c))
    BY <1>14, CallTypes, Goes DEF EndReleaseAll
  <2> QED BY <1>0, <1>14, <2>1, EndReleaseAllStep DEF EndReleaseAll, Id
<1> QED
  BY <1>1, <1>2, <1>3, <1>4, <1>5, <1>6, <1>7, <1>8, <1>9, <1>10, <1>11, <1>12, <1>13, <1>14 DEF AndroidStep

-----------------------------------------------------------------------------
(* The invariant of both platforms.                                        *)
PluginInv == NativeInv /\ (platform = "android" => AndroidInv)

LEMMA PluginInit == Init => PluginInv
<1> SUFFICES ASSUME Init PROVE AndroidInv
  BY NativeInit DEF PluginInv
<1>1. Made = {} /\ alive = {} /\ fault = {} /\ \A i \in Ids : contexts[i] = NoContext
  BY DEF Init, JsInit, Made
<1> QED BY <1>1 DEF AndroidInv, PlacedInv, LoadsInv, EntriesInv, HeldInv, HoldInv, FreedInv, FaultInv,
                    CountedInv, ReachInv, MappedInv

LEMMA PluginStep == PluginInv /\ [Next]_vars => PluginInv'
<1> SUFFICES ASSUME PluginInv, [Next]_vars PROVE PluginInv'
  OBVIOUS
<1>0. NativeInv' /\ Types /\ Holds
  BY NativeStep DEF PluginInv, NativeInv
<1> SUFFICES ASSUME platform' = "android" PROVE AndroidInv'
  BY <1>0 DEF PluginInv
<1>1. CASE platform # "android"
  <2>1. ASSUME NEW c \in Made, LoadAnswered(c), UNCHANGED native PROVE platform' = platform
    BY <2>1 DEF native
  <2> QED BY <1>1, <2>1
     DEF Next, Application, Step, AndroidStep, IosStep, Answer, EndsByItself, native, vars
<1>2. CASE platform = "android"
  <2>0. AndroidInv
    BY <1>2 DEF PluginInv
  <2>1. CASE Application
    BY <1>0, <2>0, <2>1, AndroidSentStep
  <2>2. ASSUME NEW c \in Made, Answer(c) PROVE AndroidInv'
    BY <1>0, <2>0, <2>2, AndroidAnswerStep
  <2>3. ASSUME NEW c \in Made, AndroidStep(c) PROVE AndroidInv'
    BY <1>0, <2>0, <2>3, AndroidStepInv
  <2>4. ASSUME NEW c \in Made, EndsByItself(c) PROVE AndroidInv'
    <3>1. /\ platform = "android" /\ EndCompletion(c)
          /\ UNCHANGED <<contextCounter, own, platform, predicting, llamaDQueue>>
      BY <1>2, <2>4 DEF EndsByItself
    <3> QED BY <1>0, <2>0, <3>1, AndroidStepInv
  <2>5. CASE UNCHANGED vars
    <3> USE <2>5 DEF vars, jsVars
    <3>1. \A c \in Made : \A ops : Met(c, ops)' <=> Met(c, ops)
      BY DEF Met, Overlap, Made, Op
    <3>2. PlacedInv' /\ LoadsInv' /\ EntriesInv' /\ HeldInv' /\ CountedInv'
      BY <2>0 DEF AndroidInv, PlacedInv, LoadsInv, EntriesInv, HeldInv, CountedInv, Entry, Made, Op, Pc, Id,
                  Context, Over
    <3>3. HoldInv' /\ FaultInv' /\ MappedInv'
      BY <2>0, <3>1 DEF AndroidInv, HoldInv, FaultInv, MappedInv, Holding, LoadsInv, Made, Pc, Id, Context
    <3>4. FreedInv'
      BY <2>0 DEF AndroidInv, FreedInv, Freed, Made, Op, Pc, Id, Context
    <3>5. ReachInv'
      BY <2>0, <3>1 DEF AndroidInv, ReachInv, LoadsInv, Iterating, Made, Op, Pc, Id, Context
    <3> QED BY <3>2, <3>3, <3>4, <3>5 DEF AndroidInv
  <2> QED BY <1>2, <2>1, <2>2, <2>3, <2>4, <2>5 DEF Next, Step, IosStep
<1> QED BY <1>1, <1>2

-----------------------------------------------------------------------------
(* A call uses a deleted context only on Android, and there only if a      *)
(* release was under way together with it: iOS needs no such care of the   *)
(* application, because of the barrier on its queue.                       *)
THEOREM FreedIsNotUsed == Spec => []FreedNotUsed
<1>1. PluginInv => FreedNotUsed
  <2> SUFFICES ASSUME PluginInv PROVE FreedNotUsed
    OBVIOUS
  <2>1. CASE platform = "ios"
    BY <2>1, IosKeeps DEF PluginInv
  <2>2. CASE platform = "android"
    BY <2>2 DEF PluginInv, AndroidInv, FaultInv, FreedNotUsed
  <2> QED BY <2>1, <2>2 DEF PluginInv, NativeInv, Types
<1> QED BY PluginInit, PluginStep, <1>1, PTL DEF Spec

(* Every context that is not deleted can still be reached under the id its *)
(* load was sent with; on Android, unless that load met another one or a   *)
(* releaseAllContexts.                                                     *)
THEOREM ContextsAreReachable == Spec => []HeldByMap
<1>1. PluginInv => HeldByMap
  <2> SUFFICES ASSUME PluginInv PROVE HeldByMap
    OBVIOUS
  <2>1. CASE platform = "ios"
    BY <2>1, IosKeeps DEF PluginInv
  <2>2. CASE platform = "android"
    BY <2>2 DEF PluginInv, AndroidInv, MappedInv, HeldByMap, Others, Pc, Id
  <2> QED BY <2>1, <2>2 DEF PluginInv, NativeInv, Types
<1> QED BY PluginInit, PluginStep, <1>1, PTL DEF Spec

(* An object's id leads to its own context, though it is counted when the  *)
(* load is answered and the context is stored under the id counted when    *)
(* the load was sent: as long as no two loads (Android), or a load and a   *)
(* releaseAllContexts, are under way together.                             *)
THEOREM ObjectsKeepTheirContext == Spec => []OwnContext
<1>1. PluginInv => OwnContext
  <2> SUFFICES ASSUME PluginInv PROVE OwnContext
    OBVIOUS
  <2>1. CASE platform = "ios"
    BY <2>1, IosKeeps DEF PluginInv
  <2>2. ASSUME platform = "android", ~Mixed("initContext", "initContext"),
               ~Mixed("initContext", "releaseAllContexts"), NEW id \in 0 .. contextCounter - 1,
               Own(id) \in alive
        PROVE  contexts[id] = Own(id)
    <3>1. AndroidInv /\ JsInv(Pcs)
      BY <2>2 DEF PluginInv, NativeInv, Types
    <3>2. /\ id + 1 \in 1 .. Len(own) /\ (id + 1) - 1 = id
          /\ Own(id) \in Made /\ Op(Own(id)) = "initContext" /\ Over(Own(id))
      <4>1. contextCounter = Len(own) /\ Len(own) \in Nat
        BY <3>1 DEF JsInv, OwnInv
      <4>2. id + 1 \in 1 .. Len(own) /\ (id + 1) - 1 = id
        BY <4>1
      <4> QED BY <3>1, <4>2 DEF JsInv, OwnInv, Own
    <3>3. ~Met(Own(id), Others) /\ ~LoadMet(Own(id))
      BY <2>2, <3>2 DEF Mixed, Met, Others, LoadMet
    <3>4. Id(Own(id)) = id
      BY <3>1, <3>2, <3>3 DEF JsInv, CounterInv, Own, Id
    <3> QED BY <2>2, <3>1, <3>2, <3>3, <3>4 DEF AndroidInv, MappedInv, Over, Pc
  <2> QED BY <2>1, <2>2 DEF PluginInv, NativeInv, Types, OwnContext
<1> QED BY PluginInit, PluginStep, <1>1, PTL DEF Spec

-----------------------------------------------------------------------------
(* A releaseAllContexts whose iterator is out of date met the call that    *)
(* changed the map.                                                        *)
PendInv ==
  platform = "android" =>
    \A c \in Calls : c \in modified \/ (c \in Made /\ Pc(c) = "lost") => c \in Made /\ MayPend(c)

LEMMA PendMoved ==
  ASSUME Types, PendInv, platform = "android", platform' = platform,
         NEW c \in Made, NEW pc, NEW h, NEW k, Moved(c, pc, h, k),
         pc = "lost" => c \in modified,
         \/ UNCHANGED modified
         \/ OutOfDate(c) /\ ~Over(c) /\ Op(c) \in Releases \cup {"initContext"}
  PROVE  PendInv'
<1>1. /\ Made' = Made /\ \A d \in Made : Op(d)' = Op(d)
      /\ \A d \in Made : Pc(d)' = "lost" => Pc(d) = "lost" \/ d \in modified
  BY Frame
<1>2. \A d \in Made : MayPend(d) => MayPend(d)'
  BY <1>1, MetStays DEF MayPend
<1>3. \A d \in Made : d \in Calls
  BY CallTypes
<1>4. ASSUME NEW d \in modified' PROVE d \in Made /\ MayPend(d)
  <2>1. CASE d \in modified
    <3>1. d \in Calls
      BY <2>1 DEF Types
    <3> QED BY <2>1, <3>1 DEF PendInv
  <2>2. CASE d \notin modified
    <3>1. /\ d \in Made /\ d # c /\ Iterating(d)
          /\ ~Over(c) /\ Op(c) \in Releases \cup {"initContext"}
      BY <1>4, <2>2 DEF OutOfDate
    <3>2. ~Over(d) /\ Op(d) = "releaseAllContexts"
      BY <3>1 DEF Iterating, Over
    <3>3. Met(d, Releases \cup {"initContext"})
      BY <3>1, <3>2, Meets
    <3> QED BY <3>1, <3>2, <3>3 DEF MayPend
  <2> QED BY <2>1, <2>2
<1> QED BY <1>1, <1>2, <1>3, <1>4 DEF PendInv

LEMMA AndroidPends ==
  ASSUME Types, PendInv, NEW c \in Made,
         \/ AndroidStep(c)
         \/ platform = "android" /\ EndCompletion(c) /\ UNCHANGED <<contextCounter, own, platform>>
  PROVE  PendInv'
<1>0. /\ CallsInv(Pcs) /\ platform = "android" /\ platform' = platform
      /\ Context(c) \in Contexts /\ Id(c) \in Ids \cup {NoId}
  BY CallTypes DEF AndroidStep
<1>1. CASE StartLoad(c) \/ LookUpFails(c) \/ Rewind(c) \/ EndCompletion(c) \/ Tokenize(c) \/ Stop(c)
           \/ FreeContext(c)
  <2>1. PICK pc \in {"loading", "done", "running", "freeing", "removing", "iterating"} :
          Moved(c, pc, Context(c), Id(c))
    BY <1>0, <1>1, Goes DEF StartLoad, LookUpFails, Rewind, EndCompletion, Tokenize, Stop, FreeContext
  <2>2. UNCHANGED modified
    BY <1>1 DEF StartLoad, LookUpFails, Rewind, EndCompletion, Tokenize, Stop, FreeContext, mapVars
  <2> QED BY <1>0, <2>1, <2>2, PendMoved
<1>2. CASE FinishLoad(c)
  <2>1. Moved(c, "done", Context(c), Id(c)) \/ Moved(c, "putting", c, Id(c))
    BY <1>0, <1>2, Goes DEF FinishLoad
  <2>2. UNCHANGED modified
    BY <1>2 DEF FinishLoad, mapVars
  <2> QED BY <1>0, <2>1, <2>2, PendMoved
<1>3. ASSUME NEW op, NEW pc \in {"found", "stopping"}, LookUp(c, op, pc)
      PROVE  PendInv'
  <2>1. Moved(c, pc, Found(c), Id(c)) /\ UNCHANGED modified
    BY <1>0, <1>3, Goes DEF LookUp, mapVars
  <2> QED BY <1>0, <1>3, <2>1, PendMoved
<1>4. CASE PutContext(c)
  <2>1. /\ Moved(c, "loaded", Context(c), Id(c)) /\ ~Over(c) /\ Op(c) = "initContext"
        /\ UNCHANGED modified \/ OutOfDate(c)
    BY <1>0, <1>4, Goes DEF PutContext, Put, At, Over
  <2> QED BY <1>0, <2>1, PendMoved
<1>5. CASE RemoveContext(c)
  <2>1. /\ Moved(c, "done", Context(c), Id(c)) /\ ~Over(c) /\ Op(c) = "releaseContext"
        /\ UNCHANGED modified \/ OutOfDate(c)
    BY <1>0, <1>5, Goes DEF RemoveContext, Remove, At, Over
  <2> QED BY <1>0, <2>1, PendMoved DEF Releases
<1>6. CASE BeginReleaseAll(c)
  <2>1. Moved(c, "iterating", Context(c), FirstKey(0)) /\ UNCHANGED modified
    BY <1>0, <1>6, Goes DEF BeginReleaseAll, At, mapVars
  <2> QED BY <1>0, <2>1, PendMoved
<1>7. CASE NextContext(c)
  <2>0. UNCHANGED modified
    BY <1>7 DEF NextContext, mapVars
  <2>1. CASE c \in modified
    <3>1. Moved(c, "lost", Context(c), Id(c))
      BY <1>0, <1>7, <2>1, Goes DEF NextContext
    <3> QED BY <1>0, <2>0, <2>1, <3>1, PendMoved
  <2>2. CASE ~(c \in modified)
    <3>1. Moved(c, "stopping", contexts[Id(c)], FirstKey(Id(c) + 1))
      BY <1>0, <1>7, <2>2, Goes DEF NextContext, At, Id
    <3> QED BY <1>0, <2>0, <3>1, PendMoved
  <2> QED BY <2>1, <2>2
<1>8. CASE EndReleaseAll(c)
  <2>1. /\ Moved(c, "done", Context(c), Id(c)) /\ ~Over(c) /\ Op(c) = "releaseAllContexts"
        /\ OutOfDate(c)
    BY <1>0, <1>8, Goes DEF EndReleaseAll, At, Over
  <2> QED BY <1>0, <2>1, PendMoved DEF Releases
<1> QED BY <1>1, <1>2, <1>3, <1>4, <1>5, <1>6, <1>7, <1>8 DEF AndroidStep

LEMMA PendInit == Init => PendInv
  BY DEF Init, JsInit, PendInv, Made

LEMMA PendStep == NativeInv /\ PendInv /\ [Next]_vars => PendInv'
<1> SUFFICES ASSUME NativeInv, PendInv, [Next]_vars PROVE PendInv'
  OBVIOUS
<1>0. Types
  BY DEF NativeInv
<1>1. CASE Application
  <2>1. /\ UNCHANGED <<platform, modified>>
        /\ \E n \in Calls : /\ Made' = Made \cup {n} /\ n \notin Made
                            /\ \A d \in Made : calls'[d] = calls[d]
                            /\ calls'[n].pc = "sent"
    BY <1>0, <1>1, SentFrame DEF native
  <2>2. \A d \in Made : Op(d)' = Op(d) /\ calls'[d] = calls[d] /\ d \in Made'
    BY <2>1 DEF Op
  <2>3. \A d \in Made : \A ops : Met(d, ops) => Met(d, ops)'
    BY <2>2 DEF Met, Overlap
  <2>4. \A d \in Made : MayPend(d) => MayPend(d)'
    BY <2>1, <2>2, <2>3 DEF MayPend
  <2>5. \A d \in Made' : Pc(d)' = "lost" => d \in Made /\ Pc(d) = "lost"
    BY <2>1, <2>2 DEF Pc
  <2> QED BY <2>1, <2>2, <2>4, <2>5 DEF PendInv
<1>2. ASSUME NEW c \in Made, Answer(c) PROVE PendInv'
  <2>1. /\ Moved(c, "done", Context(c), Id(c)) /\ UNCHANGED <<platform, modified>>
        /\ Types /\ Context(c) \in Contexts /\ Id(c) \in Ids \cup {NoId}
    BY <1>0, <1>2, AnswerFrame, CallTypes DEF native
  <2>2. CASE platform = "android"
    BY <2>1, <2>2, PendMoved
  <2>3. CASE platform # "android"
    BY <2>1, <2>3 DEF PendInv
  <2> QED BY <2>2, <2>3
<1>3. ASSUME NEW c \in Made, AndroidStep(c) \/ (platform = "android" /\ EndsByItself(c)) PROVE PendInv'
  BY <1>0, <1>3, AndroidPends DEF EndsByItself
<1>4. ASSUME NEW c \in Made, IosStep(c) \/ (platform = "ios" /\ EndsByItself(c)) PROVE PendInv'
  BY <1>4 DEF IosStep, EndsByItself, PendInv
<1>5. CASE UNCHANGED vars
  <2>1. UNCHANGED <<calls, platform, modified>>
    BY <1>5 DEF vars, jsVars
  <2> QED BY <2>1 DEF PendInv, MayPend, Met, Overlap, Made, Op, Pc
<1> QED BY <1>1, <1>2, <1>3, <1>4, <1>5 DEF Next, Step, EndsByItself, AndroidStep, IosStep

(* A promise is left pending for ever only where the application ends with *)
(* it (iOS), or for a releaseAllContexts of Android that was under way     *)
(* together with a load or a release: no other call can be lost.           *)
THEOREM LostForAReason ==
  Spec => [](\A c \in Made : calls[c].pc = "lost" => terminated \/ MayPend(c))
<1>1. NativeInv /\ PendInv => \A c \in Made : calls[c].pc = "lost" => terminated \/ MayPend(c)
  <2> SUFFICES ASSUME NativeInv, PendInv, NEW c \in Made, calls[c].pc = "lost"
               PROVE  terminated \/ MayPend(c)
    OBVIOUS
  <2>1. CASE platform = "ios"
    BY <2>1 DEF NativeInv, IosInv, PlaceInv, Pc
  <2>2. CASE platform = "android"
    BY <2>2, CallTypes DEF NativeInv, PendInv, Pc
  <2> QED BY <2>1, <2>2 DEF NativeInv, Types
<1> QED BY NativeInit, NativeStep, PendInit, PendStep, <1>1, PTL DEF Spec

-----------------------------------------------------------------------------
(* What a call still has before it: the steps it is from its end, three    *)
(* for every id that a releaseAllContexts has not come to.                 *)
Ahead(k) == IF k = NoId THEN 0 ELSE MaxCalls - k

LeftOf(pc, k) ==
  CASE pc \in {"done", "lost"}                  -> 0
    [] pc \in {"loaded", "running", "removing"} -> 1
    [] pc \in {"putting", "found", "starting"}  -> 2
    [] pc \in {"loading", "queued"}             -> 3
    [] pc \in {"iterating", "barrier"}          -> 3 * Ahead(k) + 1
    [] pc = "freeing"                           -> 3 * Ahead(k) + 2
    [] pc = "stopping"                          -> 3 * Ahead(k) + 3
    [] pc = "sent"                              -> 3 * MaxCalls + 4

Left(c) == LeftOf(Pc(c), Id(c))

(* One call goes on, nearer to its end, and no other one is touched.       *)
MovesOn(c) ==
  /\ Made' = Made
  /\ Left(c)' < Left(c)
  /\ \A d \in Made : d # c => calls'[d] = calls[d]

(* The application sends a call; those before it stay where they are.      *)
OneSent ==
  \E n \in Calls : /\ Made' = Made \cup {n} /\ n \notin Made
                   /\ \A d \in Made : calls'[d] = calls[d]

LEMMA LeftValues ==
  /\ \A k \in Ids \cup {NoId} : Ahead(k) \in 0 .. MaxCalls
  /\ \A k \in Ids : Ahead(k) \in 1 .. MaxCalls
  /\ Ahead(NoId) = 0
  /\ \A k : LeftOf("done", k) = 0 /\ LeftOf("lost", k) = 0
  /\ \A k : LeftOf("loaded", k) = 1 /\ LeftOf("running", k) = 1 /\ LeftOf("removing", k) = 1
  /\ \A k : LeftOf("putting", k) = 2 /\ LeftOf("found", k) = 2 /\ LeftOf("starting", k) = 2
  /\ \A k : LeftOf("loading", k) = 3 /\ LeftOf("queued", k) = 3
  /\ \A k : LeftOf("iterating", k) = 3 * Ahead(k) + 1 /\ LeftOf("barrier", k) = 3 * Ahead(k) + 1
  /\ \A k : LeftOf("freeing", k) = 3 * Ahead(k) + 2
  /\ \A k : LeftOf("stopping", k) = 3 * Ahead(k) + 3
  /\ \A k : LeftOf("sent", k) = 3 * MaxCalls + 4
<1>1. \A k \in Ids : Ahead(k) \in 1 .. MaxCalls
  BY DEF Ahead, Ids, NoId
<1>2. Ahead(NoId) = 0
  BY DEF Ahead
<1>3. \A k \in Ids \cup {NoId} : Ahead(k) \in 0 .. MaxCalls
  BY <1>1, <1>2
<1>4. \A k : /\ LeftOf("done", k) = 0 /\ LeftOf("lost", k) = 0
             /\ LeftOf("loaded", k) = 1 /\ LeftOf("running", k) = 1 /\ LeftOf("removing", k) = 1
             /\ LeftOf("putting", k) = 2 /\ LeftOf("found", k) = 2 /\ LeftOf("starting", k) = 2
             /\ LeftOf("loading", k) = 3 /\ LeftOf("queued", k) = 3
  BY DEF LeftOf
<1>5. \A k : /\ LeftOf("iterating", k) = 3 * Ahead(k) + 1 /\ LeftOf("barrier", k) = 3 * Ahead(k) + 1
             /\ LeftOf("freeing", k) = 3 * Ahead(k) + 2 /\ LeftOf("stopping", k) = 3 * Ahead(k) + 3
             /\ LeftOf("sent", k) = 3 * MaxCalls + 4
  BY DEF LeftOf
<1> QED BY <1>1, <1>2, <1>3, <1>4, <1>5

LEMMA LeftBound ==
  ASSUME NEW pc \in Pcs, NEW k \in Ids \cup {NoId}
  PROVE  LeftOf(pc, k) \in 0 .. 3 * MaxCalls + 4
<1>1. Ahead(k) \in 0 .. MaxCalls
  BY LeftValues
<1>2. 3 * Ahead(k) <= 3 * MaxCalls /\ 3 * Ahead(k) \in Nat /\ 3 * MaxCalls \in Nat
  BY <1>1
<1>3. CASE pc \in {"done", "lost", "loaded", "running", "removing", "putting", "found", "starting", "loading",
                   "queued"}
  <2>1. LeftOf(pc, k) \in {0, 1, 2, 3}
    BY <1>3 DEF LeftOf
  <2> QED BY <1>2, <2>1
<1>4. CASE pc \in {"iterating", "barrier", "freeing", "stopping", "sent"}
  <2>1. LeftOf(pc, k) \in {3 * Ahead(k) + 1, 3 * Ahead(k) + 2, 3 * Ahead(k) + 3, 3 * MaxCalls + 4}
    BY <1>4 DEF LeftOf
  <2> QED BY <1>2, <2>1
<1> QED BY <1>3, <1>4 DEF Pcs

(* What a step at an entry of the map takes off.                           *)
LEMMA EntrySteps ==
  ASSUME NEW k \in Ids \cup {NoId}
  PROVE  /\ LeftOf("done", k) < LeftOf("iterating", k) /\ LeftOf("lost", k) < LeftOf("iterating", k)
         /\ LeftOf("iterating", k) < LeftOf("freeing", k)
         /\ LeftOf("removing", k) < LeftOf("freeing", k)
         /\ LeftOf("freeing", k) < LeftOf("stopping", k) /\ LeftOf("done", k) < LeftOf("stopping", k)
         /\ LeftOf("done", k) < LeftOf("barrier", k)
         /\ LeftOf("done", k) < LeftOf("loading", k) /\ LeftOf("putting", k) < LeftOf("loading", k)
         /\ LeftOf("lost", k) < LeftOf("starting", k) /\ LeftOf("lost", k) < LeftOf("running", k)
         /\ \A j : /\ LeftOf("iterating", k) < LeftOf("sent", j) /\ LeftOf("barrier", k) < LeftOf("sent", j)
                   /\ LeftOf("stopping", k) < LeftOf("sent", j)
         /\ \A j : /\ LeftOf("done", k) < LeftOf("sent", j) /\ LeftOf("lost", k) < LeftOf("sent", j)
                   /\ LeftOf("loading", k) < LeftOf("sent", j) /\ LeftOf("loaded", k) < LeftOf("sent", j)
                   /\ LeftOf("found", k) < LeftOf("sent", j) /\ LeftOf("queued", k) < LeftOf("sent", j)
<1> DEFINE a == Ahead(k)
<1>1. a \in Nat /\ a <= MaxCalls
  <2>1. Ahead(k) \in 0 .. MaxCalls
    BY LeftValues
  <2> QED BY <2>1
<1>2. /\ LeftOf("iterating", k) = 3 * a + 1 /\ LeftOf("barrier", k) = 3 * a + 1
      /\ LeftOf("freeing", k) = 3 * a + 2 /\ LeftOf("stopping", k) = 3 * a + 3
      /\ LeftOf("done", k) = 0 /\ LeftOf("lost", k) = 0 /\ LeftOf("removing", k) = 1
      /\ LeftOf("loading", k) = 3 /\ LeftOf("queued", k) = 3 /\ LeftOf("found", k) = 2 /\ LeftOf("loaded", k) = 1
      /\ LeftOf("putting", k) = 2 /\ LeftOf("starting", k) = 2 /\ LeftOf("running", k) = 1
      /\ \A j : LeftOf("sent", j) = 3 * MaxCalls + 4
  BY DEF LeftOf
<1> HIDE DEF a
<1> QED BY <1>1, <1>2

(* The next entry of the map has a greater id.                             *)
LEMMA AheadFalls ==
  ASSUME NEW k \in Ids \cup {NoId}, NEW n \in Nat, n > k
  PROVE  /\ FirstKey(n) \in Ids \cup {NoId}
         /\ k \in Ids => Ahead(FirstKey(n)) <= Ahead(k) - 1
         /\ Ahead(FirstKey(n)) <= MaxCalls
<1>1. /\ FirstKey(n) \in Ids \cup {NoId}
      /\ FirstKey(n) # NoId => FirstKey(n) >= n
  BY FirstKeyProperties
<1>2. CASE FirstKey(n) = NoId
  BY <1>1, <1>2, LeftValues
<1>3. CASE FirstKey(n) # NoId
  BY <1>1, <1>3 DEF Ahead, Ids, NoId
<1> QED BY <1>1, <1>2, <1>3

LEMMA Falls ==
  ASSUME Types, NEW c \in Made, NEW pc, NEW h, NEW k, Moved(c, pc, h, k), LeftOf(pc, k) < Left(c)
  PROVE  MovesOn(c)
<1>1. CallsInv(Pcs)
  BY DEF Types, JsInv
<1>2. Made' = Made /\ \A d \in Made : d # c => calls'[d] = calls[d]
  BY <1>1, MovedFrame
<1>3. Pc(c)' = pc /\ Id(c)' = k
  BY Frame
<1> QED BY <1>2, <1>3 DEF MovesOn, Left

LEMMA AndroidMovesOn ==
  ASSUME Types, NEW c \in Made, AndroidStep(c) \/ EndCompletion(c)
  PROVE  MovesOn(c)
<1>0. /\ CallsInv(Pcs) /\ Id(c) \in Ids \cup {NoId} /\ Ahead(Id(c)) \in 0 .. MaxCalls
      /\ Op(c) # "releaseAllContexts" => Ahead(Id(c)) \in 1 .. MaxCalls
      /\ MaxCalls \in Nat
  BY CallTypes, LeftValues
<1>1. CASE StartLoad(c)
  <2>1. Moved(c, "loading", Context(c), Id(c)) /\ Pc(c) = "sent"
    BY <1>0, <1>1, Goes DEF StartLoad, NotFound, At, Pc
  <2> QED BY <1>0, <2>1, EntrySteps, Falls DEF Left
<1>2. CASE FinishLoad(c)
  <2>1. /\ Moved(c, "done", Context(c), Id(c)) \/ Moved(c, "putting", c, Id(c))
        /\ Pc(c) = "loading"
    BY <1>0, <1>2, Goes DEF FinishLoad, At, Pc
  <2>2. LeftOf("done", Id(c)) < LeftOf("loading", Id(c)) /\ LeftOf("putting", Id(c)) < LeftOf("loading", Id(c))
    BY <1>0, EntrySteps
  <2> QED BY <2>1, <2>2, Falls DEF Left
<1>3. CASE PutContext(c)
  <2>1. Moved(c, "loaded", Context(c), Id(c)) /\ Pc(c) = "putting"
    BY <1>0, <1>3, Goes DEF PutContext, At, Pc
  <2> QED BY <2>1, LeftValues, Falls DEF Left
<1>4. ASSUME NEW op \in {"completion", "tokenize", "stopCompletion", "releaseContext"},
             NEW pc \in {"found", "stopping"}, LookUp(c, op, pc)
      PROVE  MovesOn(c)
  <2>1. Moved(c, pc, Found(c), Id(c)) /\ Pc(c) = "sent"
    BY <1>0, <1>4, Goes DEF LookUp, At, Pc
  <2>2. LeftOf(pc, Id(c)) < LeftOf("sent", Id(c))
    BY <1>0, EntrySteps
  <2> QED BY <2>1, <2>2, Falls DEF Left
<1>5. CASE LookUpFails(c)
  <2>1. Moved(c, "done", Context(c), Id(c)) /\ Pc(c) = "sent"
    BY <1>0, <1>5, Goes DEF LookUpFails, NotFound, At, Pc
  <2> QED BY <1>0, <2>1, EntrySteps, Falls DEF Left
<1>6. CASE Rewind(c)
  <2>1. Moved(c, "running", Context(c), Id(c)) /\ Pc(c) = "found"
    BY <1>0, <1>6, Goes DEF Rewind, At, Pc
  <2> QED BY <2>1, LeftValues, Falls DEF Left
<1>7. CASE EndCompletion(c)
  <2>1. Moved(c, "done", Context(c), Id(c)) /\ Pc(c) = "running"
    BY <1>0, <1>7, Goes DEF EndCompletion, At, Pc
  <2> QED BY <2>1, LeftValues, Falls DEF Left
<1>8. CASE Tokenize(c)
  <2>1. Moved(c, "done", Context(c), Id(c)) /\ Pc(c) = "found"
    BY <1>0, <1>8, Goes DEF Tokenize, At, Pc
  <2> QED BY <2>1, LeftValues, Falls DEF Left
<1>9. CASE Stop(c)
  <2>1. /\ Moved(c, "done", Context(c), Id(c)) \/ Moved(c, "freeing", Context(c), Id(c))
        /\ Pc(c) = "stopping"
    BY <1>0, <1>9, Goes DEF Stop, At, Pc
  <2>2. LeftOf("freeing", Id(c)) < LeftOf("stopping", Id(c)) /\ LeftOf("done", Id(c)) < LeftOf("stopping", Id(c))
    BY <1>0, EntrySteps
  <2> QED BY <2>1, <2>2, Falls DEF Left
<1>10. CASE FreeContext(c)
  <2>1. /\ \/ Op(c) = "releaseContext" /\ Moved(c, "removing", Context(c), Id(c))
           \/ Moved(c, "iterating", Context(c), Id(c))
        /\ Pc(c) = "freeing"
    BY <1>0, <1>10, Goes DEF FreeContext, At, Pc
  <2>2. LeftOf("iterating", Id(c)) < LeftOf("freeing", Id(c))
    BY <1>0, EntrySteps
  <2>3. Op(c) = "releaseContext" => LeftOf("removing", Id(c)) < LeftOf("freeing", Id(c))
    BY <1>0, EntrySteps
  <2> QED BY <2>1, <2>2, <2>3, Falls DEF Left
<1>11. CASE RemoveContext(c)
  <2>1. Moved(c, "done", Context(c), Id(c)) /\ Pc(c) = "removing"
    BY <1>0, <1>11, Goes DEF RemoveContext, At, Pc
  <2> QED BY <2>1, LeftValues, Falls DEF Left
<1>12. CASE BeginReleaseAll(c)
  <2>1. Moved(c, "iterating", Context(c), FirstKey(0)) /\ Pc(c) = "sent"
    BY <1>0, <1>12, Goes DEF BeginReleaseAll, At, Pc
  <2>2. FirstKey(0) \in Ids \cup {NoId}
    BY FirstKeyProperties
  <2>3. LeftOf("iterating", FirstKey(0)) < LeftOf("sent", Id(c))
    BY <1>0, <2>2, EntrySteps
  <2> QED BY <2>1, <2>3, Falls DEF Left
<1>13. CASE NextContext(c)
  <2>1. Pc(c) = "iterating" /\ Op(c) = "releaseAllContexts" /\ Id(c) \in Ids
    BY <1>0, <1>13 DEF NextContext, At, Pc, Id
  <2>2. CASE SetPc(c, "lost")
    <3>1. Moved(c, "lost", Context(c), Id(c))
      BY <1>0, <2>2, Goes
    <3>2. LeftOf("lost", Id(c)) < LeftOf("iterating", Id(c))
      BY <1>0, EntrySteps
    <3> QED BY <2>1, <3>1, <3>2, Falls DEF Left
  <2>3. CASE ~(c \in modified)
    <3>1. Moved(c, "stopping", contexts[Id(c)], FirstKey(Id(c) + 1))
      BY <1>0, <1>13, <2>1, <2>3, Goes DEF NextContext, Id
    <3>2. Id(c) + 1 \in Nat /\ Id(c) + 1 > Id(c)
      BY <2>1 DEF Ids
    <3>3. /\ FirstKey(Id(c) + 1) \in Ids \cup {NoId}
          /\ Ahead(FirstKey(Id(c) + 1)) <= Ahead(Id(c)) - 1
      BY <2>1, <3>2, AheadFalls
    <3>4. Ahead(FirstKey(Id(c) + 1)) \in 0 .. MaxCalls
      BY <3>3, LeftValues
    <3>5. LeftOf("stopping", FirstKey(Id(c) + 1)) < LeftOf("iterating", Id(c))
      <4>1. /\ LeftOf("stopping", FirstKey(Id(c) + 1)) = 3 * Ahead(FirstKey(Id(c) + 1)) + 3
            /\ LeftOf("iterating", Id(c)) = 3 * Ahead(Id(c)) + 1
        BY LeftValues
      <4> QED BY <1>0, <3>3, <3>4, <4>1
    <3> QED BY <2>1, <3>1, <3>5, Falls DEF Left
  <2> QED BY <1>13, <2>2, <2>3 DEF NextContext
<1>14. CASE EndReleaseAll(c)
  <2>1. Moved(c, "done", Context(c), Id(c)) /\ Pc(c) = "iterating"
    BY <1>0, <1>14, Goes DEF EndReleaseAll, At, Pc
  <2>2. LeftOf("done", Id(c)) < LeftOf("iterating", Id(c))
    BY <1>0, EntrySteps
  <2> QED BY <2>1, <2>2, Falls DEF Left
<1> QED
  BY <1>1, <1>2, <1>3, <1>4, <1>5, <1>6, <1>7, <1>8, <1>9, <1>10, <1>11, <1>12, <1>13, <1>14 DEF AndroidStep

LEMMA IosMovesOn ==
  ASSUME Types, BarrierInv, NEW c \in Made, IosStep(c) \/ IosEnd(c)
  PROVE  MovesOn(c)
<1>0. /\ CallsInv(Pcs) /\ Id(c) \in Ids \cup {NoId} /\ MaxCalls \in Nat
  BY CallTypes
<1>1. CASE Missing(c) \/ Busy(c)
  <2>1. Moved(c, "lost", Context(c), Id(c)) /\ Pc(c) = "sent"
    BY <1>0, <1>1, Goes DEF Missing, Busy, Uncaught, Turn, At, Pc
  <2> QED BY <1>0, <2>1, EntrySteps, Falls DEF Left
<1>2. CASE IosFail(c)
  <2>1. Moved(c, "lost", Context(c), Id(c)) /\ Pc(c) \in {"starting", "running"}
    BY <1>0, <1>2, Goes DEF IosFail, Uncaught, At, Pc
  <2>2. LeftOf("lost", Id(c)) < LeftOf("starting", Id(c)) /\ LeftOf("lost", Id(c)) < LeftOf("running", Id(c))
    BY <1>0, EntrySteps
  <2> QED BY <2>1, <2>2, Falls DEF Left
<1>3. CASE IosLoad(c)
  <2>1. /\ Moved(c, "done", Context(c), Id(c)) \/ Moved(c, "loaded", c, Id(c))
        /\ Pc(c) = "sent"
    BY <1>0, <1>3, Goes DEF IosLoad, Turn, At, Pc
  <2>2. LeftOf("done", Id(c)) < LeftOf("sent", Id(c)) /\ LeftOf("loaded", Id(c)) < LeftOf("sent", Id(c))
    BY <1>0, EntrySteps
  <2> QED BY <2>1, <2>2, Falls DEF Left
<1>4. CASE IosDispatch(c)
  <2>1. Moved(c, "queued", Found(c), Id(c)) /\ Pc(c) = "sent"
    BY <1>0, <1>4, Goes DEF IosDispatch, Turn, At, Pc
  <2> QED BY <1>0, <2>1, EntrySteps, Falls DEF Left
<1>5. CASE IosRewind(c)
  <2>1. Moved(c, "starting", Context(c), Id(c)) /\ Pc(c) = "queued"
    BY <1>0, <1>5, Goes DEF IosRewind, At, Pc
  <2> QED BY <2>1, LeftValues, Falls DEF Left
<1>6. CASE IosBegin(c)
  <2>1. Moved(c, "running", Context(c), Id(c)) /\ Pc(c) = "starting"
    BY <1>0, <1>6, Goes DEF IosBegin, At, Pc
  <2> QED BY <2>1, LeftValues, Falls DEF Left
<1>7. CASE IosEnd(c)
  <2>1. Moved(c, "done", Context(c), Id(c)) /\ Pc(c) = "running"
    BY <1>0, <1>7, Goes DEF IosEnd, At, Pc
  <2> QED BY <2>1, LeftValues, Falls DEF Left
<1>8. CASE IosUse(c)
  <2>1. Moved(c, "done", Context(c), Id(c)) /\ Pc(c) = "sent"
    BY <1>0, <1>8, Goes DEF IosUse, Turn, At, Pc
  <2> QED BY <1>0, <2>1, EntrySteps, Falls DEF Left
<1>9. CASE IosRelease(c)
  <2>1. Moved(c, "barrier", Found(c), Id(c)) /\ Pc(c) = "sent"
    BY <1>0, <1>9, Goes DEF IosRelease, Turn, At, Pc
  <2> QED BY <1>0, <2>1, EntrySteps, Falls DEF Left
<1>10. CASE IosInvalidate(c)
  <2>1. Moved(c, "done", Context(c), Id(c)) /\ Pc(c) = "barrier"
    BY <1>0, <1>10, Goes DEF IosInvalidate, At, Pc
  <2> QED BY <1>0, <2>1, EntrySteps, Falls DEF Left
<1>11. ASSUME NEW n \in Nat, IosVisit(c, n), Op(c) = "releaseAllContexts"
       PROVE  \/ Moved(c, "done", Context(c), Id(c))
              \/ Moved(c, "barrier", contexts[FirstKey(n)], FirstKey(n))
  BY <1>0, <1>11, Goes DEF IosVisit
<1>12. CASE IosReleaseAll(c)
  <2>1. IosVisit(c, 0) /\ Op(c) = "releaseAllContexts" /\ Pc(c) = "sent"
    BY <1>12 DEF IosReleaseAll, Turn, At, Pc
  <2>2. \/ Moved(c, "done", Context(c), Id(c))
        \/ Moved(c, "barrier", contexts[FirstKey(0)], FirstKey(0))
    BY <1>11, <2>1
  <2>3. LeftOf("done", Id(c)) < LeftOf("sent", Id(c)) /\ LeftOf("barrier", FirstKey(0)) < LeftOf("sent", Id(c))
    <3>1. FirstKey(0) \in Ids \cup {NoId}
      BY FirstKeyProperties
    <3> QED BY <1>0, <3>1, EntrySteps
  <2> QED BY <2>1, <2>2, <2>3, Falls DEF Left
<1>13. CASE IosReleaseNext(c)
  <2>1. /\ IosVisit(c, Id(c) + 1) /\ Op(c) = "releaseAllContexts" /\ Pc(c) = "barrier"
        /\ Id(c) \in Ids /\ Id(c) + 1 \in Nat /\ Id(c) + 1 > Id(c)
    <3>1. Id(c) \in Ids
      BY <1>13 DEF IosReleaseNext, At, Pc, BarrierInv
    <3> QED BY <1>13, <3>1 DEF IosReleaseNext, At, Pc, Id, Ids
  <2> DEFINE n == Id(c) + 1
  <2>2. \/ Moved(c, "done", Context(c), Id(c))
        \/ Moved(c, "barrier", contexts[FirstKey(n)], FirstKey(n))
    BY <1>11, <2>1
  <2>3. LeftOf("done", Id(c)) < LeftOf("barrier", Id(c))
    BY <1>0, EntrySteps
  <2>4. LeftOf("barrier", FirstKey(n)) < LeftOf("barrier", Id(c))
    <3>1. FirstKey(n) \in Ids \cup {NoId} /\ Ahead(FirstKey(n)) <= Ahead(Id(c)) - 1
      BY <2>1, AheadFalls
    <3>2. Ahead(FirstKey(n)) \in 0 .. MaxCalls /\ Ahead(Id(c)) \in 0 .. MaxCalls
      BY <1>0, <3>1, LeftValues
    <3>3. /\ LeftOf("barrier", FirstKey(n)) = 3 * Ahead(FirstKey(n)) + 1
          /\ LeftOf("barrier", Id(c)) = 3 * Ahead(Id(c)) + 1
      BY LeftValues
    <3> QED BY <1>0, <3>1, <3>2, <3>3
  <2> HIDE DEF n
  <2> QED BY <2>1, <2>2, <2>3, <2>4, Falls DEF Left
<1> QED
  BY <1>1, <1>2, <1>3, <1>4, <1>5, <1>6, <1>7, <1>8, <1>9, <1>10, <1>12, <1>13 DEF IosStep

LEMMA AnswerMovesOn ==
  ASSUME Types, NEW c \in Made, Answer(c)
  PROVE  MovesOn(c)
<1>1. Pc(c) = "loaded" /\ Moved(c, "done", Context(c), Id(c))
  BY AnswerFrame
<1> QED BY <1>1, LeftValues, Falls DEF Left

(* Calls never go back and never wait for what another call undoes: a step *)
(* of the plugin takes one call nearer to its end, by a number bounded by  *)
(* the calls the application can make, and leaves the others alone, on     *)
(* both platforms and for a releaseAllContexts whose map changes under it. *)
(* It is why a call that is never kept waiting is answered.                *)
THEOREM CallsMoveOn ==
  Spec => /\ [](\A c \in Made : Left(c) \in 0 .. 3 * MaxCalls + 4)
          /\ [][OneSent \/ \E c \in Made : MovesOn(c)]_vars
<1>1. NativeInv => \A c \in Made : Left(c) \in 0 .. 3 * MaxCalls + 4
  BY CallTypes, LeftBound DEF NativeInv, Left
<1>2. NativeInv /\ [Next]_vars => [OneSent \/ \E c \in Made : MovesOn(c)]_vars
  <2> SUFFICES ASSUME NativeInv, Next PROVE OneSent \/ \E c \in Made : MovesOn(c)
    OBVIOUS
  <2>0. Types /\ (platform = "ios" => BarrierInv)
    BY DEF NativeInv, IosInv
  <2>1. CASE Application
    BY <2>0, <2>1, SentFrame DEF OneSent
  <2>2. ASSUME NEW c \in Made, Step(c) \/ EndsByItself(c) PROVE MovesOn(c)
    BY <2>0, <2>2, AnswerMovesOn, AndroidMovesOn, IosMovesOn DEF Step, EndsByItself, IosStep
  <2> QED BY <2>1, <2>2 DEF Next
<1> QED BY NativeInit, NativeStep, <1>1, <1>2, PTL DEF Spec

-----------------------------------------------------------------------------
(* Nothing holds call c back: it is past the calls of the bridge's queue   *)
(* before it, its block is the first of llamaDQueue, the barrier finds the *)
(* queue empty, or the loop it is in was stopped.  Calls of Android wait   *)
(* for nothing but the end of that loop.                                   *)
Ready(c) ==
  /\ Pc(c) \notin {"done", "lost"}
  /\ Pc(c) = "running" => Stopped(c)
  /\ platform = "ios" =>
       /\ Pc(c) = "sent" => \A d \in 1 .. c - 1 : Pc(d) \notin {"sent", "barrier"}
       /\ Pc(c) \in {"queued", "starting", "running"} => llamaDQueue # <<>> /\ c = Head(llamaDQueue)
       /\ Pc(c) = "barrier" => llamaDQueue = <<>>

(* The blocks of the queue are completions that have not ended, each once. *)
Blocks == {"queued", "starting", "running"}
QueueIsTheirs ==
  platform = "ios" /\ ~terminated =>
    /\ \A i \in 1 .. Len(llamaDQueue) : llamaDQueue[i] \in Made /\ Pc(llamaDQueue[i]) \in Blocks
    /\ \A i, j \in 1 .. Len(llamaDQueue) : llamaDQueue[i] = llamaDQueue[j] => i = j

LEMMA TheirsMoved ==
  ASSUME Types, QueueIsTheirs, NEW c \in Made, NEW pc, NEW h, NEW k, Moved(c, pc, h, k), ~terminated,
         UNCHANGED <<platform, llamaDQueue>>, Pc(c) \in Blocks => pc \in Blocks
  PROVE  QueueIsTheirs'
  BY Frame DEF QueueIsTheirs

LEMMA QueueIsInit == Init => QueueIsTheirs
  BY DEF Init, QueueIsTheirs

LEMMA QueueIsStep == NativeInv /\ QueueIsTheirs /\ [Next]_vars => QueueIsTheirs'
<1> SUFFICES ASSUME NativeInv, QueueIsTheirs, [Next]_vars PROVE QueueIsTheirs'
  OBVIOUS
<1>9. platform' = platform
  <2>1. Application \/ (\E c \in Made : Answer(c)) => platform' = platform
    BY DEF Application, Answer, native
  <2>2. \A c \in Made : EndsByItself(c) \/ AndroidStep(c) \/ IosStep(c) => platform' = platform
    BY DEF EndsByItself, AndroidStep, IosStep
  <2>3. UNCHANGED vars => platform' = platform
    BY DEF vars
  <2> QED BY <2>1, <2>2, <2>3 DEF Next, Step
<1> SUFFICES ASSUME platform = "ios", ~terminated' PROVE QueueIsTheirs'
  BY <1>9 DEF QueueIsTheirs
<1>0. Types /\ IosInv /\ CallsInv(Pcs) /\ llamaDQueue \in Seq(Calls) /\ platform' = platform
  BY <1>9 DEF NativeInv, Types, JsInv
<1>1. CASE Application
  <2>1. /\ UNCHANGED <<platform, llamaDQueue, terminated>>
        /\ \E n \in Calls : /\ Made' = Made \cup {n} /\ n \notin Made
                            /\ \A d \in Made : calls'[d] = calls[d]
    BY <1>0, <1>1, SentFrame DEF native
  <2>2. \A d \in Made : d \in Made' /\ Pc(d)' = Pc(d)
    BY <2>1 DEF Pc
  <2> QED BY <2>1, <2>2 DEF QueueIsTheirs
<1>2. ASSUME NEW c \in Made, Answer(c) PROVE QueueIsTheirs'
  <2>1. /\ Moved(c, "done", Context(c), Id(c)) /\ UNCHANGED <<platform, llamaDQueue>>
        /\ ~terminated /\ Pc(c) = "loaded"
    BY <1>0, <1>2, AnswerFrame DEF native
  <2> QED BY <1>0, <2>1, TheirsMoved DEF Blocks
<1>3. ASSUME NEW c \in Made, IosStep(c) \/ IosEnd(c) PROVE QueueIsTheirs'
  <2>0. ~terminated
    BY <1>3 DEF IosStep, Missing, Busy, IosLoad, IosDispatch, IosRewind, IosBegin, IosFail, IosEnd, IosUse,
                IosRelease, IosInvalidate, IosReleaseAll, IosReleaseNext, Turn, At
  <2>1. CASE Missing(c) \/ Busy(c) \/ IosFail(c)
    BY <2>1 DEF Missing, Busy, IosFail, Uncaught
  <2>2. CASE IosLoad(c)
    <3>1. /\ Moved(c, "done", Context(c), Id(c)) \/ Moved(c, "loaded", c, Id(c))
          /\ Pc(c) = "sent" /\ UNCHANGED llamaDQueue
      BY <1>0, <2>2, Goes DEF IosLoad, Turn, At, Pc
    <3> QED BY <1>0, <2>0, <3>1, TheirsMoved DEF Blocks
  <2>3. CASE IosDispatch(c)
    <3>1. Moved(c, "queued", Found(c), Id(c)) /\ Pc(c) = "sent" /\ llamaDQueue' = Append(llamaDQueue, c)
      BY <1>0, <2>3, Goes DEF IosDispatch, Turn, At, Pc
    <3>2. /\ Len(llamaDQueue') = Len(llamaDQueue) + 1 /\ Len(llamaDQueue) \in Nat
          /\ llamaDQueue'[Len(llamaDQueue) + 1] = c
          /\ \A i \in 1 .. Len(llamaDQueue) : llamaDQueue'[i] = llamaDQueue[i]
      <4>1. c \in Calls
        BY <1>0, CallTypes
      <4> QED BY <1>0, <3>1, <4>1
    <3>3. \A i \in 1 .. Len(llamaDQueue) : llamaDQueue[i] \in Made /\ Pc(llamaDQueue[i]) \in Blocks /\ llamaDQueue[i] # c
      BY <2>0, <3>1 DEF QueueIsTheirs, Blocks
    <3>4. \A i \in 1 .. Len(llamaDQueue') : i \in 1 .. Len(llamaDQueue) \/ i = Len(llamaDQueue) + 1
      BY <3>2
    <3>5. /\ Made' = Made /\ calls'[c].pc \in Blocks
          /\ \A d \in Made : d # c => calls'[d].pc = calls[d].pc
      BY <1>0, <3>1, Frame DEF Blocks, Pc
    <3>6. \A i \in 1 .. Len(llamaDQueue') : llamaDQueue'[i] \in Made /\ calls'[llamaDQueue'[i]].pc \in Blocks
      BY <3>2, <3>3, <3>4, <3>5 DEF Pc
    <3>7. \A i, j \in 1 .. Len(llamaDQueue') : llamaDQueue'[i] = llamaDQueue'[j] => i = j
      BY <2>0, <3>2, <3>3, <3>4 DEF QueueIsTheirs
    <3> QED BY <3>5, <3>6, <3>7 DEF QueueIsTheirs, Pc
  <2>4. CASE IosRewind(c) \/ IosBegin(c)
    <3>1. /\ Moved(c, "starting", Context(c), Id(c)) \/ Moved(c, "running", Context(c), Id(c))
          /\ UNCHANGED llamaDQueue
      BY <1>0, <2>4, Goes DEF IosRewind, IosBegin
    <3> QED BY <1>0, <2>0, <3>1, TheirsMoved DEF Blocks
  <2>5. CASE IosEnd(c)
    <3>1. Moved(c, "done", Context(c), Id(c)) /\ Pc(c) = "running" /\ llamaDQueue' = Tail(llamaDQueue)
      BY <1>0, <2>5, Goes DEF IosEnd, At, Pc
    <3>2. InQueue(c) /\ c = llamaDQueue[1]
      BY <1>0, <3>1 DEF IosInv, QueueInv
    <3>3. /\ Len(llamaDQueue) \in Nat \ {0} /\ Len(llamaDQueue') = Len(llamaDQueue) - 1
          /\ \A i \in 1 .. Len(llamaDQueue) - 1 : llamaDQueue'[i] = llamaDQueue[i + 1]
      BY <1>0, <3>1, <3>2, QueueType
    <3>4. \A i \in 1 .. Len(llamaDQueue') : i \in 1 .. Len(llamaDQueue) - 1 /\ i + 1 \in 1 .. Len(llamaDQueue) /\ i + 1 # 1
      BY <3>3
    <3>5. Made' = Made /\ \A d \in Made : d # c => calls'[d].pc = calls[d].pc
      BY <1>0, <3>1, Frame DEF Pc
    <3>6. \A i \in 1 .. Len(llamaDQueue) - 1 : llamaDQueue[i + 1] # c
      <4>1. 1 \in 1 .. Len(llamaDQueue)
        BY <3>3
      <4>2. \A i \in 1 .. Len(llamaDQueue) - 1 : i + 1 \in 1 .. Len(llamaDQueue) /\ i + 1 # 1
        BY <3>3
      <4> QED BY <2>0, <3>2, <4>1, <4>2 DEF QueueIsTheirs
    <3>7. \A i \in 1 .. Len(llamaDQueue') : llamaDQueue'[i] \in Made /\ calls'[llamaDQueue'[i]].pc \in Blocks
      BY <2>0, <3>3, <3>4, <3>5, <3>6 DEF QueueIsTheirs, Pc
    <3>8. \A i, j \in 1 .. Len(llamaDQueue') : llamaDQueue'[i] = llamaDQueue'[j] => i = j
      BY <2>0, <3>3, <3>4 DEF QueueIsTheirs
    <3> QED BY <3>5, <3>7, <3>8 DEF QueueIsTheirs, Pc
  <2>6. CASE IosUse(c) \/ IosRelease(c) \/ IosInvalidate(c)
    <3>1. /\ Moved(c, "done", Context(c), Id(c)) \/ Moved(c, "barrier", Found(c), Id(c))
          /\ Pc(c) \in {"sent", "barrier"} /\ UNCHANGED llamaDQueue
      BY <1>0, <2>6, Goes DEF IosUse, IosRelease, IosInvalidate, Turn, At, Pc
    <3> QED BY <1>0, <2>0, <3>1, TheirsMoved DEF Blocks
  <2>7. CASE IosReleaseAll(c) \/ IosReleaseNext(c)
    <3>1. PICK n \in {0, Id(c) + 1} : IosVisit(c, n) /\ Op(c) = "releaseAllContexts"
      BY <2>7 DEF IosReleaseAll, IosReleaseNext, Turn, At, Id
    <3>2. /\ Moved(c, "done", Context(c), Id(c)) \/ Moved(c, "barrier", contexts[FirstKey(n)], FirstKey(n))
          /\ Pc(c) \in {"sent", "barrier"} /\ UNCHANGED llamaDQueue
      BY <1>0, <2>7, <3>1, Goes DEF IosReleaseAll, IosReleaseNext, IosVisit, Turn, At, Pc
    <3> QED BY <1>0, <2>0, <3>2, TheirsMoved DEF Blocks
  <2> QED BY <1>3, <2>1, <2>2, <2>3, <2>4, <2>5, <2>6, <2>7 DEF IosStep
<1>4. CASE UNCHANGED vars
  <2>1. UNCHANGED <<calls, platform, llamaDQueue, terminated>>
    BY <1>4 DEF vars, jsVars
  <2> QED BY <2>1 DEF QueueIsTheirs, Made, Pc
<1> QED BY <1>1, <1>2, <1>3, <1>4 DEF Next, Step, EndsByItself, AndroidStep

LEMMA FirstOf ==
  ASSUME Types, NEW S, S \subseteq Made, S # {}
  PROVE  \E c \in S : \A d \in S : c <= d
<1>1. S \in SUBSET (0 .. MaxCalls) /\ MaxCalls \in Int
  <2>1. \A c \in Made : c \in 1 .. MaxCalls
    BY CallTypes DEF Calls
  <2> QED BY <2>1
<1> QED BY <1>1, LeastOf

(* Nobody waits for somebody who waits: unless a completion is running     *)
(* that nobody has stopped, some call can take its next step as long as    *)
(* one is unfinished, so a release at the barrier, the calls the bridge's  *)
(* queue keeps behind it and the blocks of llamaDQueue never wait for each *)
(* other in a circle.                                                      *)
THEOREM NobodyWaitsInACircle ==
  Spec => [](~terminated /\ ~Blocked /\ (\E c \in Made : ~Over(c) /\ ~MayPend(c))
               => \E c \in Made : Ready(c))
<1>1. ASSUME PluginInv, PendInv, QueueIsTheirs, ~terminated, ~Blocked, NEW c \in Made, ~Over(c), ~MayPend(c)
      PROVE  \E d \in Made : Ready(d)
  <2>0. Types /\ c \in Calls /\ Pc(c) \notin {"done"}
    BY <1>1, CallTypes DEF PluginInv, NativeInv, Over, Pc
  <2>1. \A d \in Made : Pc(d) = "running" => Stopped(d)
    <3>1. \A d \in Made : Pc(d) = "running" => Op(d) = "completion"
      BY <1>1 DEF PluginInv, NativeInv, Types, AndroidInv, PlacedInv, AndroidPlace, IosInv, PlaceInv, IosPlace
    <3> QED BY <1>1, <3>1 DEF Blocked, Stopped, Pc
  <2>2. CASE platform = "android"
    <3>1. Pc(c) # "lost"
      BY <1>1, <2>0, <2>2 DEF PendInv
    <3> QED BY <1>1, <2>0, <2>1, <2>2, <3>1 DEF Ready
  <2>3. CASE platform = "ios"
    <3>0. IosInv /\ \A d \in Made : Pc(d) # "lost"
      BY <1>1, <2>3 DEF PluginInv, NativeInv, IosInv, PlaceInv
    <3>1. CASE llamaDQueue # <<>>
      <4>1. Head(llamaDQueue) \in Made /\ Pc(Head(llamaDQueue)) \in Blocks
        <5>1. llamaDQueue \in Seq(Calls)
          BY <2>0 DEF Types
        <5>2. 1 \in 1 .. Len(llamaDQueue) /\ Head(llamaDQueue) = llamaDQueue[1]
          BY <3>1, <5>1
        <5> QED BY <1>1, <2>3, <5>2 DEF QueueIsTheirs
      <4> QED BY <2>1, <3>1, <4>1 DEF Ready, Blocks
    <3>2. CASE llamaDQueue = <<>>
      <4>1. \A d \in Made : Pc(d) \notin {"queued", "starting", "running"}
        BY <3>0, <3>2 DEF IosInv, QueueInv, InQueue
      <4> DEFINE S == {d \in Made : ~Over(d)}
      <4>2. PICK d \in S : \A e \in S : d <= e
        <5>1. S \subseteq Made /\ S # {}
          BY <1>1
        <5> QED BY <2>0, <5>1, FirstOf
      <4>3. \A e \in 1 .. d - 1 : Pc(e) \notin {"sent", "barrier"}
        <5>1. Made = 1 .. Len(calls) /\ Len(calls) \in Nat /\ d \in Nat
          BY <2>0, CallsType DEF Types, JsInv
        <5>2. ASSUME NEW e \in 1 .. d - 1 PROVE Pc(e) = "done"
          <6>1. e \in Made /\ ~(d <= e)
            BY <4>2, <5>1
          <6> QED BY <4>2, <6>1 DEF Over, Pc
        <5> QED BY <5>2
      <4>4. d \in Made /\ Pc(d) # "done"
        BY <4>2 DEF Over, Pc
      <4> QED BY <3>0, <3>2, <4>1, <4>3, <4>4 DEF Ready
    <3> QED BY <3>1, <3>2
  <2> QED BY <1>1, <2>2, <2>3 DEF PluginInv, NativeInv, Types
<1>2. PluginInv /\ PendInv /\ QueueIsTheirs =>
        (~terminated /\ ~Blocked /\ (\E c \in Made : ~Over(c) /\ ~MayPend(c)) => \E c \in Made : Ready(c))
  BY <1>1
<1>3. PluginInv => NativeInv
  BY DEF PluginInv
<1> QED BY PluginInit, PluginStep, <1>3, PendInit, PendStep, QueueIsInit, QueueIsStep, <1>2, PTL DEF Spec
=============================================================================
