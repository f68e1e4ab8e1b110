------------------------- MODULE JsInterfaceProofs -------------------------
(* What the calls and the counter of JsInterface keep, whatever the plugin *)
(* does in between; P is the set of the steps a call of that plugin is at. *)
EXTENDS JsInterface, TLAPS, FiniteSetTheorems

USE MaxCallsAssumption DEF MaxCallsAssumption

CallRecord(P) ==
  [op : Ops, id : Ids \cup {NoId}, kind : Kind, pc : P, context : Contexts, during : SUBSET Calls]

(* A load was under way together with c.                                   *)
LoadMet(c) == \E d \in Made : Op(d) = "initContext" /\ Overlap(c, d)

CallsInv(P) ==
  /\ calls \in Seq(CallRecord(P)) /\ Len(calls) <= MaxCalls
  /\ \A c \in Made : Op(c) # "releaseAllContexts" => calls[c].id \in Ids
  /\ \A c \in Made : calls[c].during \subseteq 1 .. c - 1
  /\ \A c, d \in Made : c < d /\ ~Over(c) => c \in calls[d].during

OwnInv ==
  /\ own \in Seq(Calls) /\ contextCounter = Len(own)
  /\ \A k \in 1 .. Len(own) : own[k] \in Made /\ Op(own[k]) = "initContext" /\ Over(own[k])
  /\ \A j, k \in 1 .. Len(own) : own[j] = own[k] => j = k

(* The counter goes on only when a load is answered, so a load that was    *)
(* alone is answered with the counter it was sent with.                    *)
CounterInv ==
  /\ \A c \in Made : Op(c) = "initContext" =>
       /\ calls[c].id <= contextCounter
       /\ Over(c) \/ calls[c].id = contextCounter \/ LoadMet(c)
  /\ \A c \in Made : Op(c) \notin {"initContext", "releaseAllContexts"} => calls[c].id < contextCounter
  /\ \A k \in 1 .. Len(own) : calls[own[k]].id = k - 1 \/ LoadMet(own[k])

JsInv(P) == CallsInv(P) /\ OwnInv /\ CounterInv

(* Step pc of call c, with the context h and the id k.                     *)
Moved(c, pc, h, k) ==
  /\ calls' = [calls EXCEPT ![c] = [op |-> calls[c].op, id |-> k, kind |-> calls[c].kind, pc |-> pc,
                                    context |-> h, during |-> calls[c].during]]
  /\ k = calls[c].id \/ Op(c) = "releaseAllContexts"

-----------------------------------------------------------------------------
LEMMA CallsType ==
  ASSUME NEW P, CallsInv(P)
  PROVE  /\ Made = 1 .. Len(calls) /\ Len(calls) \in Nat /\ Made \subseteq Calls
         /\ \A c \in Made : /\ calls[c] \in CallRecord(P)
                            /\ c \in Calls /\ c \in Nat
                            /\ Op(c) \in Ops /\ calls[c].kind \in Kind /\ calls[c].pc \in P
                            /\ calls[c].id \in Ids \cup {NoId} /\ calls[c].context \in Contexts
                            /\ calls[c].during \subseteq Calls
<1>1. Made = 1 .. Len(calls) /\ Len(calls) \in Nat
  BY DEF CallsInv, Made
<1>2. \A c \in Made : calls[c] \in CallRecord(P)
  BY DEF CallsInv, Made
<1>3. \A c \in Made : c \in Calls /\ c \in Nat
  BY <1>1 DEF CallsInv, Calls
<1> QED BY <1>1, <1>2, <1>3 DEF CallRecord, Op, Made

(* Two calls under way at the same time overlap.                           *)
LEMMA InFlight ==
  ASSUME NEW P, CallsInv(P), NEW c \in Made, NEW d \in Made, c # d, ~Over(c), ~Over(d)
  PROVE  Overlap(c, d) /\ Overlap(d, c)
<1>1. c \in Nat /\ d \in Nat
  BY CallsType
<1>2. c < d \/ d < c
  BY <1>1
<1> QED BY <1>2 DEF CallsInv, Overlap

LEMMA NotItself ==
  ASSUME NEW P, CallsInv(P), NEW c \in Made
  PROVE  ~Overlap(c, c)
<1>1. c \in Nat /\ calls[c].during \subseteq 1 .. c - 1
  BY CallsType DEF CallsInv
<1> QED BY <1>1 DEF Overlap

(* There are no more objects than loads that were answered, so a load that *)
(* can be sent finds an id that is in bounds.                              *)
LEMMA CounterBound ==
  ASSUME NEW P, CallsInv(P), OwnInv
  PROVE  contextCounter \in Nat /\ contextCounter <= Len(calls)
<1>1. Made = 1 .. Len(calls) /\ Len(calls) \in Nat
  BY CallsType
<1>2. own \in Seq(Calls) /\ Len(own) \in Nat
  BY DEF OwnInv
<1>3. own \in Injection(1 .. Len(own), 1 .. Len(calls))
  <2>1. own \in [1 .. Len(own) -> 1 .. Len(calls)]
    BY <1>1, <1>2 DEF OwnInv
  <2> QED BY <2>1 DEF OwnInv, Injection, IsInjective
<1>4. /\ IsFiniteSet(1 .. Len(calls)) /\ Cardinality(1 .. Len(calls)) = Len(calls)
      /\ Cardinality(1 .. Len(own)) = Len(own)
  <2>1. \A n \in Nat : IsFiniteSet(1 .. n) /\ Cardinality(1 .. n) = n
    <3>1. TAKE n \in Nat
    <3>2. IsFiniteSet(1 .. n) /\ Cardinality(1 .. n) = IF 1 > n THEN 0 ELSE n - 1 + 1
      BY FS_Interval
    <3> QED BY <3>2
  <2> QED BY <1>1, <1>2, <2>1
<1>5. Cardinality(1 .. Len(own)) <= Cardinality(1 .. Len(calls))
  BY <1>3, <1>4, FS_Injection
<1> QED BY <1>2, <1>4, <1>5 DEF OwnInv

(* The type invariant of the module.                                       *)
LEMMA JsTypes ==
  ASSUME NEW P, JsInv(P)
  PROVE  JsTypeOK
<1> USE DEF JsInv
<1>1. contextCounter \in 0 .. MaxCalls
  BY CounterBound DEF CallsInv
<1>2. \A c \in Made : calls[c].during \subseteq 1 .. c - 1
  BY DEF CallsInv
<1> QED BY <1>1, <1>2, CallsType DEF JsTypeOK, CallsInv, OwnInv

-----------------------------------------------------------------------------
LEMMA JsInitially == ASSUME NEW P, JsInit PROVE JsInv(P)
<1>1. calls = <<>> /\ own = <<>> /\ Made = {} /\ contextCounter = 0
  BY DEF JsInit, Made
<1> QED BY <1>1 DEF JsInv, CallsInv, OwnInv, CounterInv

(* What a call that goes on leaves as it was.                              *)
LEMMA MovedFrame ==
  ASSUME NEW P, CallsInv(P), NEW c \in Made, NEW pc, NEW h, NEW k, Moved(c, pc, h, k)
  PROVE  /\ Made' = Made /\ Len(calls') = Len(calls)
         /\ \A d \in Made : d # c => calls'[d] = calls[d]
         /\ calls'[c].pc = pc /\ calls'[c].context = h /\ calls'[c].id = k
         /\ \A d \in Made : /\ calls'[d].op = calls[d].op
                            /\ calls'[d].kind = calls[d].kind
                            /\ calls'[d].during = calls[d].during
                            /\ calls[d].op # "releaseAllContexts" => calls'[d].id = calls[d].id
<1>1. calls \in Seq(CallRecord(P)) /\ Made = 1 .. Len(calls)
  BY CallsType DEF CallsInv
<1>2. /\ DOMAIN calls' = DOMAIN calls
      /\ \A d \in Made : d # c => calls'[d] = calls[d]
      /\ calls'[c] = [op |-> calls[c].op, id |-> k, kind |-> calls[c].kind, pc |-> pc,
                      context |-> h, during |-> calls[c].during]
  BY <1>1 DEF Moved, Made
<1>3. Len(calls') = Len(calls)
  BY <1>1, <1>2 DEF Moved, Made
<1> QED BY <1>2, <1>3 DEF Made, Moved, Op

LEMMA CallsMoved ==
  ASSUME NEW P, CallsInv(P), NEW c \in Made, NEW pc \in P, NEW h \in Contexts,
         NEW k \in Ids \cup {NoId}, Moved(c, pc, h, k), ~Over(c)
  PROVE  CallsInv(P)'
<1> DEFINE r == [op |-> calls[c].op, id |-> k, kind |-> calls[c].kind, pc |-> pc,
                 context |-> h, during |-> calls[c].during]
<1>1. calls[c] \in CallRecord(P) /\ c \in 1 .. Len(calls)
  BY CallsType
<1>2. r \in CallRecord(P)
  BY <1>1 DEF CallRecord
<1>3. calls' \in Seq(CallRecord(P)) /\ Len(calls') = Len(calls)
  <2>1. calls' = [calls EXCEPT ![c] = r]
    BY DEF Moved
  <2> HIDE DEF r
  <2> QED BY <1>1, <1>2, <2>1 DEF CallsInv
<1> HIDE DEF r
<1>4. \A d \in Made : /\ calls'[d].op = calls[d].op /\ calls'[d].during = calls[d].during
                      /\ calls[d].op # "releaseAllContexts" => calls'[d].id = calls[d].id
                      /\ Over(d) => Over(d)'
  BY MovedFrame DEF Over
<1>5. Made' = Made
  BY MovedFrame
<1> QED BY <1>3, <1>4, <1>5 DEF CallsInv, Op

LEMMA LoadMetStays ==
  ASSUME Made \subseteq Made',
         \A d \in Made : calls'[d].op = calls[d].op /\ calls'[d].during = calls[d].during
  PROVE  \A c \in Made : LoadMet(c) => LoadMet(c)'
  BY DEF LoadMet, Op, Overlap

LEMMA JsMoved ==
  ASSUME NEW P, JsInv(P), NEW c \in Made, NEW pc \in P, NEW h \in Contexts,
         NEW k \in Ids \cup {NoId}, Moved(c, pc, h, k), ~Over(c), UNCHANGED <<contextCounter, own>>
  PROVE  JsInv(P)'
<1> USE DEF JsInv
<1>1. CallsInv(P)'
  BY CallsMoved
<1>2. /\ Made' = Made
      /\ \A d \in Made : /\ calls'[d].op = calls[d].op /\ calls'[d].during = calls[d].during
                         /\ calls[d].op # "releaseAllContexts" => calls'[d].id = calls[d].id
                         /\ Over(d) => Over(d)'
  BY MovedFrame DEF Over
<1>3. OwnInv'
  BY <1>2 DEF OwnInv, Op
<1>4. \A d \in Made : LoadMet(d) => LoadMet(d)'
  BY <1>2, LoadMetStays
<1>5. CounterInv'
  BY <1>2, <1>4 DEF CounterInv, OwnInv, Op
<1> QED BY <1>1, <1>3, <1>5

-----------------------------------------------------------------------------
LEMMA SendFrame ==
  ASSUME NEW P, CallsInv(P), NEW op, NEW k, NEW kind, Send(op, k, kind)
  PROVE  /\ Len(calls') = Len(calls) + 1 /\ Made' = Made \cup {Len(calls) + 1}
         /\ Len(calls) + 1 \in Calls /\ Len(calls) + 1 \notin Made
         /\ \A d \in Made : calls'[d] = calls[d] /\ d < Len(calls) + 1
         /\ calls'[Len(calls) + 1] =
              [op |-> op, id |-> k, kind |-> kind, pc |-> "sent", context |-> NoContext,
               during |-> {c \in Made : ~Over(c)}]
         /\ calls'[Len(calls) + 1].op = op /\ calls'[Len(calls) + 1].id = k
         /\ calls'[Len(calls) + 1].pc = "sent" /\ calls'[Len(calls) + 1].context = NoContext
         /\ calls'[Len(calls) + 1].during = {c \in Made : ~Over(c)}
<1> DEFINE r == [op |-> op, id |-> k, kind |-> kind, pc |-> "sent", context |-> NoContext,
                 during |-> {c \in Made : ~Over(c)}]
<1>1. calls' = Append(calls, r) /\ Len(calls) < MaxCalls
  BY DEF Send
<1>2. calls \in Seq(CallRecord(P)) /\ Made = 1 .. Len(calls) /\ Len(calls) \in Nat
  BY CallsType DEF CallsInv
<1> HIDE DEF r
<1>3. /\ Len(calls') = Len(calls) + 1 /\ DOMAIN calls' = 1 .. Len(calls) + 1
      /\ \A d \in 1 .. Len(calls) : calls'[d] = calls[d]
      /\ calls'[Len(calls) + 1] = r
  BY <1>1, <1>2
<1> QED BY <1>1, <1>2, <1>3 DEF Made, Calls, r

LEMMA CallsSent ==
  ASSUME NEW P, CallsInv(P), "sent" \in P, NEW op \in Ops, NEW k \in Ids \cup {NoId},
         NEW kind \in Kind, Send(op, k, kind), op # "releaseAllContexts" => k \in Ids
  PROVE  CallsInv(P)'
<1> DEFINE n == Len(calls) + 1
           r == [op |-> op, id |-> k, kind |-> kind, pc |-> "sent", context |-> NoContext,
                 during |-> {c \in Made : ~Over(c)}]
<1>1. /\ Len(calls') = n /\ Made' = Made \cup {n} /\ n \in Calls /\ n \notin Made
      /\ \A d \in Made : calls'[d] = calls[d] /\ d < n
      /\ calls'[n] = r
  BY SendFrame
<1>2. Made = 1 .. Len(calls) /\ Len(calls) \in Nat /\ Made \subseteq Calls
  BY CallsType
<1>3. r \in CallRecord(P) /\ Len(calls) < MaxCalls /\ calls' = Append(calls, r)
  BY <1>2 DEF CallRecord, Contexts, Send
<1>4. r.op = op /\ r.id = k /\ r.pc = "sent" /\ r.during = {c \in Made : ~Over(c)}
  OBVIOUS
<1> HIDE DEF r
<1>5. calls' \in Seq(CallRecord(P)) /\ Len(calls') <= MaxCalls
  BY <1>1, <1>2, <1>3 DEF CallsInv
<1>6. \A c \in Made' : Op(c)' # "releaseAllContexts" => calls'[c].id \in Ids
  BY <1>1, <1>4 DEF CallsInv, Op
<1>7. \A c \in Made' : calls'[c].during \subseteq 1 .. c - 1
  BY <1>1, <1>2, <1>4 DEF CallsInv
<1>8. ASSUME NEW c \in Made', NEW d \in Made', c < d, ~Over(c)'
      PROVE  c \in calls'[d].during
  <2>1. c \in Made
    BY <1>1, <1>2, <1>8
  <2>2. ~Over(c)
    BY <1>1, <1>8, <2>1 DEF Over
  <2> QED BY <1>1, <1>4, <1>8, <2>1, <2>2 DEF CallsInv
<1> QED BY <1>5, <1>6, <1>7, <1>8 DEF CallsInv

LEMMA JsSent ==
  ASSUME NEW P, JsInv(P), "sent" \in P, NEW op \in Ops, NEW k \in Ids \cup {NoId},
         NEW kind \in Kind, Send(op, k, kind), op # "releaseAllContexts" => k \in Ids,
         op = "initContext" => k = contextCounter,
         op \notin {"initContext", "releaseAllContexts"} => k < contextCounter,
         UNCHANGED <<contextCounter, own>>
  PROVE  JsInv(P)'
<1> USE DEF JsInv
<1>1. CallsInv(P)'
  BY CallsSent
<1> DEFINE n == Len(calls) + 1
<1>2. /\ Made' = Made \cup {n} /\ n \notin Made
      /\ \A d \in Made : calls'[d] = calls[d]
      /\ calls'[n].op = op /\ calls'[n].id = k /\ calls'[n].pc = "sent"
  BY SendFrame
<1> HIDE DEF n
<1>3. OwnInv'
  BY <1>2 DEF OwnInv, Op, Over
<1>4. \A d \in Made : LoadMet(d) => LoadMet(d)'
  BY <1>2, LoadMetStays
<1>5. contextCounter \in Nat
  BY CounterBound
<1>6. CounterInv'
  <2>1. \A c \in Made' : Op(c)' = "initContext" =>
          calls'[c].id <= contextCounter' /\ (Over(c)' \/ calls'[c].id = contextCounter' \/ LoadMet(c)')
    BY <1>2, <1>4, <1>5 DEF CounterInv, Op, Over
  <2>2. \A c \in Made' : Op(c)' \notin {"initContext", "releaseAllContexts"}
                           => calls'[c].id < contextCounter'
    BY <1>2 DEF CounterInv, Op
  <2>3. \A j \in 1 .. Len(own') : calls'[own'[j]].id = j - 1 \/ LoadMet(own[j])'
    BY <1>2, <1>4 DEF CounterInv, OwnInv
  <2> QED BY <2>1, <2>2, <2>3 DEF CounterInv
<1> QED BY <1>1, <1>3, <1>6

(* What the application sends.                                             *)
LEMMA JsLoad == ASSUME NEW P, JsInv(P), "sent" \in P, Load PROVE JsInv(P)'
<1>1. contextCounter \in Ids
  BY CounterBound, CallsType DEF JsInv, Load, Send, Ids
<1> QED BY <1>1, JsSent DEF Load, Ops, Kind, NoKind

LEMMA JsReleaseAll == ASSUME NEW P, JsInv(P), "sent" \in P, ReleaseAll PROVE JsInv(P)'
  BY JsSent DEF ReleaseAll, Ops, Kind, NoKind

LEMMA JsUse ==
  ASSUME NEW P, JsInv(P), "sent" \in P, NEW k \in Ids, NEW kind \in Kind, 
         NEW op \in {"completion", "stopCompletion", "tokenize", "releaseContext"}, Use(k, op, kind)
  PROVE  JsInv(P)'
  BY JsSent DEF Use, Ops

-----------------------------------------------------------------------------
LEMMA AnsweredMoves ==
  ASSUME NEW P, CallsInv(P), NEW c \in Made, LoadAnswered(c)
  PROVE  Moved(c, "done", calls[c].context, calls[c].id)
<1>1. calls[c] \in CallRecord(P) /\ calls \in Seq(CallRecord(P))
  BY CallsType DEF CallsInv
<1> DEFINE r == [calls[c] EXCEPT !.pc = "done"]
<1>2. r = [op |-> calls[c].op, id |-> calls[c].id, kind |-> calls[c].kind, pc |-> "done",
           context |-> calls[c].context, during |-> calls[c].during]
  BY <1>1 DEF CallRecord
<1>3. calls' = [calls EXCEPT ![c] = r]
  BY <1>1 DEF LoadAnswered, SetPc
<1> HIDE DEF r
<1> QED BY <1>2, <1>3 DEF Moved

LEMMA JsAnswered ==
  ASSUME NEW P, JsInv(P), "done" \in P, NEW c \in Made, LoadAnswered(c)
  PROVE  JsInv(P)'
<1> USE DEF JsInv
<1>1. /\ Moved(c, "done", calls[c].context, calls[c].id)
      /\ calls[c].context \in Contexts /\ calls[c].id \in Ids \cup {NoId} /\ ~Over(c)
      /\ Op(c) = "initContext" /\ calls[c].id \in Ids /\ c \in Calls
  BY AnsweredMoves, CallsType DEF LoadAnswered, Over, CallsInv
<1>2. CallsInv(P)'
  BY <1>1, CallsMoved
<1>3. /\ Made' = Made /\ calls'[c].pc = "done"
      /\ \A d \in Made : /\ calls'[d].op = calls[d].op /\ calls'[d].during = calls[d].during
                         /\ calls[d].op # "releaseAllContexts" => calls'[d].id = calls[d].id
                         /\ Over(d) => Over(d)'
                         /\ d # c => (Over(d)' <=> Over(d))
  BY <1>1, MovedFrame DEF Over
<1>4. /\ own \in Seq(Calls) /\ Len(own) \in Nat /\ contextCounter = Len(own)
      /\ own' = Append(own, c) /\ contextCounter' = Len(own) + 1
  BY DEF OwnInv, LoadAnswered
<1>5. /\ own' \in Seq(Calls) /\ Len(own') = Len(own) + 1
      /\ \A k \in 1 .. Len(own) : own'[k] = own[k]
      /\ own'[Len(own) + 1] = c
  BY <1>1, <1>4
<1>6. \A k \in 1 .. Len(own) : own[k] \in Made /\ Op(own[k]) = "initContext" /\ own[k] # c
  BY <1>1 DEF OwnInv
<1>7. OwnInv'
  <2>1. \A k \in 1 .. Len(own') : own'[k] \in Made' /\ Op(own[k])' = "initContext" /\ Over(own[k])'
    BY <1>1, <1>3, <1>4, <1>5, <1>6 DEF OwnInv, Op, Over
  <2>2. \A j, k \in 1 .. Len(own') : own'[j] = own'[k] => j = k
    BY <1>4, <1>5, <1>6 DEF OwnInv
  <2> QED BY <1>4, <1>5, <2>1, <2>2 DEF OwnInv
<1>8. \A d \in Made : LoadMet(d) => LoadMet(d)'
  BY <1>3, LoadMetStays
<1>9. CounterInv'
  <2>1. ASSUME NEW d \in Made, Op(d) = "initContext"
        PROVE  /\ calls'[d].id <= contextCounter'
               /\ Over(d)' \/ calls'[d].id = contextCounter' \/ LoadMet(d)'
    <3>1. calls'[d].id <= contextCounter'
      BY <1>3, <1>4, <2>1, CallsType DEF CounterInv, Op, CallsInv, Ids
    <3>2. CASE d = c \/ Over(d)
      BY <1>3, <3>1, <3>2 DEF Over
    <3>3. CASE d # c /\ ~Over(d)
      <4>1. Overlap(d, c)
        BY <1>1, <3>3, InFlight
      <4> QED BY <1>1, <1>8, <3>1, <4>1 DEF LoadMet
    <3> QED BY <3>2, <3>3
  <2>2. \A d \in Made : Op(d) \notin {"initContext", "releaseAllContexts"}
                       => calls'[d].id < contextCounter'
    BY <1>3, <1>4, CallsType DEF CounterInv, Op, CallsInv, Ids
  <2>3. calls'[c].id = Len(own) \/ LoadMet(c)'
    BY <1>1, <1>3, <1>4, <1>8 DEF CounterInv, Op
  <2>4. \A k \in 1 .. Len(own') : calls'[own'[k]].id = k - 1 \/ LoadMet(own[k])'
    BY <1>3, <1>4, <1>5, <1>6, <1>8, <2>3 DEF CounterInv, Op
  <2> QED BY <1>3, <1>5, <2>1, <2>2, <2>4 DEF CounterInv, Op
<1> QED BY <1>2, <1>7, <1>9
=============================================================================
