------------------------ MODULE ProcessingLoopProofs ------------------------
(* The processing loop never sleeps on a request and never leaves a second *)
(* thread behind, for any number of callers, slots and requests.           *)
EXTENDS ProcessingLoop, TLAPS

USE LoopAssumption DEF LoopAssumption

-----------------------------------------------------------------------------
(* Types.                                                                  *)

LEMMA NoStatusType == NoStatus \in StatusRecord
  BY DEF NoStatus, StatusRecord

LEMMA StatusType == TypeOK => Status \in StatusRecord
  BY DEF TypeOK, Status, StatusRecord

LEMMA TypeInit == Init => TypeOK
<1> SUFFICES ASSUME Init PROVE TypeOK
  OBVIOUS
<1>1. seen \in [Callers \cup {"worker"} -> StatusRecord] /\ told \in StatusRecord
  BY NoStatusType DEF Init
<1>2. active \in 0 .. NSlots /\ queued \in 0 .. MaxRequests /\ starts \in 0 .. MaxStarts
  BY DEF Init
<1> QED BY <1>1, <1>2 DEF Init, TypeOK, WorkerPCs

LEMMA TypeStep == TypeOK /\ [Next]_vars => TypeOK'
<1> SUFFICES ASSUME TypeOK, [Next]_vars PROVE TypeOK'
  OBVIOUS
<1> USE NoStatusType, StatusType DEF TypeOK, WorkerPCs, At
<1>1. ASSUME NEW c \in Callers, Push(c) \/ Cancel(c) \/ Returning(c) PROVE TypeOK'
  <2>1. CASE Push(c)
    BY <2>1 DEF Push, threads, status
  <2>2. CASE Cancel(c)
    BY <2>2 DEF Cancel, threads, status
  <2>3. CASE NotifyOne(c)
    BY <2>3 DEF NotifyOne, Notified, work, status
  <2>4. CASE CallerSnapshot(c)
    BY <2>4 DEF CallerSnapshot, work, threads
  <2>5. CASE CallerDeliver(c)
    BY <2>5 DEF CallerDeliver, Deliver, work, threads
  <2> QED BY <1>1, <2>1, <2>2, <2>3, <2>4, <2>5 DEF Returning
<1>2. CASE Subscribe \/ Unsubscribe
  BY <1>2 DEF Subscribe, Unsubscribe, work, threads
<1>3. CASE Worker \/ Spurious
  <2>1. CASE While
    BY <2>1 DEF While, work, status
  <2>2. CASE Pending
    BY <2>2 DEF Pending, TakeRequests, status
  <2>3. ASSUME NEW n \in 0 .. NSlots, Round(n) PROVE TypeOK'
    BY <2>3 DEF Round, status
  <2>4. CASE RoundFails
    BY <2>4 DEF RoundFails, status
  <2>5. CASE PendingAgain
    BY <2>5 DEF PendingAgain, TakeRequests, status
  <2>6. CASE WorkerSnapshot
    <3>1. CASE subscribed
      <4>1. seen' = [seen EXCEPT !["worker"] = Status]
        BY <2>6, <3>1 DEF WorkerSnapshot
      <4>2. seen' \in [Callers \cup {"worker"} -> StatusRecord]
        BY <4>1
      <4> QED BY <2>6, <4>2 DEF WorkerSnapshot, work
    <3>2. CASE ~subscribed
      BY <2>6, <3>2 DEF WorkerSnapshot, work
    <3> QED BY <3>1, <3>2
  <2>7. CASE WorkerDeliver
    BY <2>7 DEF WorkerDeliver, Deliver, work
  <2>8. CASE LockAndTest \/ Predicate
    BY <2>8 DEF LockAndTest, Predicate, work, status
  <2>9. CASE Block \/ Reacquire \/ Spurious
    BY <2>9 DEF Block, Reacquire, Spurious, work, status
  <2> QED BY <1>3, <2>1, <2>2, <2>3, <2>4, <2>5, <2>6, <2>7, <2>8, <2>9 DEF Worker
<1>4. CASE Start \/ Stop
  <2>1. CASE Start
    <3>1. starts' \in 0 .. MaxStarts
      BY <2>1 DEF Start
    <3> QED BY <2>1, <3>1 DEF Start, work, status
  <2>2. CASE Stop
    BY <2>2 DEF Stop, work, status
  <2> QED BY <1>4, <2>1, <2>2
<1>5. CASE Stopping
  BY <1>5 DEF Stopping, StopNotify, Join, Notified, work, status
<1>6. CASE UNCHANGED vars
  BY <1>6 DEF vars, work, threads, status
<1> QED BY <1>1, <1>2, <1>3, <1>4, <1>5, <1>6 DEF Next

(* Every variable of the loop keeps its type.                              *)
THEOREM LoopTypes == Spec => []TypeOK
  BY TypeInit, TypeStep, PTL DEF Spec

-----------------------------------------------------------------------------
(* From the test of the queue until it blocks the worker keeps the mutex,  *)
(* so the queue it found empty is still empty when it goes to sleep.       *)

BlocksOnNothing == worker = "block" => waiting = 0

Wakes == BlocksOnNothing /\ NoLostRequest

LEMMA WakesStep == TypeOK /\ Wakes /\ [Next]_vars => Wakes'
<1> SUFFICES ASSUME TypeOK, Wakes, [Next]_vars PROVE Wakes'
  OBVIOUS
<1> USE DEF TypeOK, Wakes, BlocksOnNothing, NoLostRequest, At
<1>1. ASSUME NEW c \in Callers, Push(c) \/ Cancel(c) \/ Returning(c) PROVE Wakes'
  <2>1. CASE Push(c)
    BY <2>1 DEF Push, SlotsFree, threads
  <2>2. CASE Cancel(c)
    <3>1. ASSUME NEW d \in Callers, caller[d] = "notify" PROVE caller'[d] = "notify"
      BY <2>2, <3>1 DEF Cancel
    <3>2. waiting' > 0 => waiting > 0
      BY <2>2 DEF Cancel
    <3>3. worker' = worker
      BY <2>2 DEF Cancel, threads
    <3>4. BlocksOnNothing'
      BY <2>2, <3>3 DEF Cancel
    <3> QED BY <3>1, <3>2, <3>3, <3>4
  <2>3. CASE NotifyOne(c)
    BY <2>3 DEF NotifyOne, Notified, work
  <2>4. CASE CallerSnapshot(c)
    BY <2>4 DEF CallerSnapshot, work, threads
  <2>5. CASE CallerDeliver(c)
    BY <2>5 DEF CallerDeliver, work, threads
  <2> QED BY <1>1, <2>1, <2>2, <2>3, <2>4, <2>5 DEF Returning
<1>2. CASE Subscribe \/ Unsubscribe
  BY <1>2 DEF Subscribe, Unsubscribe, work, threads
<1>3. CASE Worker \/ Spurious
  <2>1. CASE Predicate
    BY <2>1 DEF Predicate, MayGoOn, work
  <2>2. CASE Block
    BY <2>2 DEF Block, work
  <2>3. CASE ~(Predicate \/ Block)
    BY <1>3, <2>3 DEF Worker, While, Pending, Round, RoundFails, PendingAgain,
       WorkerSnapshot, WorkerDeliver, LockAndTest, Reacquire, Spurious, work
  <2> QED BY <2>1, <2>2, <2>3
<1>4. CASE Start \/ Stop
  BY <1>4 DEF Start, Stop, work
<1>5. CASE Stopping
  BY <1>5 DEF Stopping, StopNotify, Join, Notified, work
<1>6. CASE UNCHANGED vars
  BY <1>6 DEF vars, work, threads
<1> QED BY <1>1, <1>2, <1>3, <1>4, <1>5, <1>6 DEF Next

(* The worker never sleeps on a request without a wake-up on its way.      *)
THEOREM NoRequestLost == Spec => []NoLostRequest
<1>1. Init => Wakes
  BY DEF Init, Wakes, BlocksOnNothing, NoLostRequest
<1>2. Wakes => NoLostRequest
  BY DEF Wakes
<1> QED BY <1>1, <1>2, WakesStep, LoopTypes, PTL DEF Spec

-----------------------------------------------------------------------------
(* The thread of the loop is started, told to stop and joined in turn.     *)

StoppingIsTold == owner # "idle" => ~processing_active /\ worker # "none"

FinishedIsTold == worker = "finished" => ~processing_active

Joined == OneThread /\ StoppingIsTold /\ FinishedIsTold

LEMMA JoinedStep == TypeOK /\ Joined /\ [Next]_vars => Joined'
<1> SUFFICES ASSUME TypeOK, Joined, [Next]_vars PROVE Joined'
  OBVIOUS
<1> USE DEF TypeOK, Joined, OneThread, StoppingIsTold, FinishedIsTold, At
<1>1. ASSUME NEW c \in Callers, Push(c) \/ Cancel(c) \/ Returning(c) PROVE Joined'
  BY <1>1 DEF Push, Cancel, Returning, NotifyOne, Notified, CallerSnapshot, CallerDeliver,
     threads
<1>2. CASE Subscribe \/ Unsubscribe
  BY <1>2 DEF Subscribe, Unsubscribe, threads
<1>3. CASE Worker \/ Spurious
  BY <1>3 DEF Worker, Spurious, While, Pending, Round, RoundFails, PendingAgain,
     WorkerSnapshot, WorkerDeliver, LockAndTest, Predicate, Block, Reacquire
<1>4. CASE Start \/ Stop
  BY <1>4 DEF Start, Stop
<1>5. CASE Stopping
  BY <1>5 DEF Stopping, StopNotify, Join, Notified
<1>6. CASE UNCHANGED vars
  BY <1>6 DEF vars, threads
<1> QED BY <1>1, <1>2, <1>3, <1>4, <1>5, <1>6 DEF Next

(* Once stop_processing_loop has returned no thread touches the slots, and *)
(* start_processing_loop never replaces a thread that was not joined.      *)
THEOREM StoppedIsJoined == Spec => []OneThread
<1>1. Init => Joined
  BY DEF Init, Joined, OneThread, StoppingIsTold, FinishedIsTold
<1>2. Joined => OneThread
  BY DEF Joined
<1> QED BY <1>1, <1>2, JoinedStep, LoopTypes, PTL DEF Spec

-----------------------------------------------------------------------------
(* What StopReturns lacks to hold: stop_processing_loop must not notify in *)
(* the one moment in which the worker has tested the flag and does not     *)
(* wait yet.                                                               *)

NotifiesInTime == [][StopNotify => worker # "block"]_vars

(* A worker that is told to stop is awake when the owner waits for it.     *)
Awake == owner = "join" => worker \notin {"block", "asleep"}

LEMMA AwakeStep ==
  TypeOK /\ Joined /\ Awake /\ [Next]_vars /\ [StopNotify => worker # "block"]_vars => Awake'
<1> SUFFICES ASSUME TypeOK, Joined, Awake, [Next]_vars, [StopNotify => worker # "block"]_vars
             PROVE  Awake'
  OBVIOUS
<1> USE DEF Awake, At
<1>1. ASSUME NEW c \in Callers, Push(c) \/ Cancel(c) \/ Returning(c) PROVE Awake'
  BY <1>1 DEF Push, Cancel, Returning, NotifyOne, Notified, CallerSnapshot, CallerDeliver,
     threads
<1>2. CASE Subscribe \/ Unsubscribe
  BY <1>2 DEF Subscribe, Unsubscribe, threads
<1>3. CASE Worker \/ Spurious
  <2>1. owner = "join" => ~processing_active
    BY DEF Joined, StoppingIsTold
  <2>2. CASE Predicate
    BY <2>1, <2>2 DEF Predicate, MayGoOn
  <2>3. CASE ~Predicate
    BY <1>3, <2>3 DEF Worker, Spurious, While, Pending, Round, RoundFails, PendingAgain,
       WorkerSnapshot, WorkerDeliver, LockAndTest, Block, Reacquire
  <2> QED BY <2>2, <2>3
<1>4. CASE Start \/ Stop
  BY <1>4 DEF Start, Stop
<1>5. CASE StopNotify
  <2>1. worker # "block"
    BY <1>5 DEF StopNotify, vars, threads
  <2> QED BY <1>5, <2>1 DEF StopNotify, Notified
<1>6. CASE Join
  BY <1>6 DEF Join
<1>7. CASE UNCHANGED vars
  BY <1>7 DEF vars, threads
<1> QED BY <1>1, <1>2, <1>3, <1>4, <1>5, <1>6, <1>7 DEF Next, Stopping

LEMMA StaysAwake == Spec /\ NotifiesInTime => [](TypeOK /\ Joined /\ Awake)
<1>1. Init => Joined /\ Awake
  BY DEF Init, Joined, OneThread, StoppingIsTold, FinishedIsTold, Awake
<1> QED BY <1>1, JoinedStep, AwakeStep, LoopTypes, PTL DEF Spec, NotifiesInTime

(* The steps a worker takes at most before it finishes, once it is told.   *)
ToFinish ==
  CASE worker = "pending" -> 7 [] worker = "decode" -> 6 [] worker = "pending2" -> 5
    [] worker = "status" -> 4 [] worker \in {"deliver", "woken"} -> 3
    [] worker \in {"lock", "predicate"} -> 2 [] worker = "while" -> 1
    [] OTHER -> 0

(* The safety part of StopReturns, but for that moment: while the owner    *)
(* waits in join the worker never sleeps, each of its steps leaves fewer   *)
(* of at most seven, nobody else adds one, and when none is left it has    *)
(* finished, so that join returns.                                         *)
THEOREM StopIsLostInOneWindow ==
  Spec /\ NotifiesInTime
    => /\ [](owner = "join" => ToFinish \in 0 .. 7 /\ (ToFinish = 0 => worker = "finished"))
       /\ [][owner = "join" =>
               /\ Worker => ToFinish' < ToFinish
               /\ ~Worker => ToFinish' = ToFinish \/ owner' = "idle"]_vars
<1> DEFINE Left == owner = "join" => ToFinish \in 0 .. 7 /\ (ToFinish = 0 => worker = "finished")
<1>1. TypeOK /\ Joined /\ Awake => Left
  <2> SUFFICES ASSUME TypeOK, Joined, Awake, owner = "join"
               PROVE  ToFinish \in 0 .. 7 /\ (ToFinish = 0 => worker = "finished")
    OBVIOUS
  <2>1. worker \in WorkerPCs \ {"none", "block", "asleep"}
    BY DEF TypeOK, Joined, StoppingIsTold, Awake
  <2> QED BY <2>1 DEF WorkerPCs, ToFinish
<1>2. TypeOK /\ Joined /\ Awake /\ [Next]_vars
        => [owner = "join" => /\ Worker => ToFinish' < ToFinish
                              /\ ~Worker => ToFinish' = ToFinish \/ owner' = "idle"]_vars
  <2> SUFFICES ASSUME TypeOK, Joined, Awake, Next, owner = "join"
               PROVE  /\ Worker => ToFinish' < ToFinish
                      /\ ~Worker => ToFinish' = ToFinish \/ owner' = "idle"
    OBVIOUS
  <2>1. ~processing_active /\ worker \notin {"block", "asleep"}
    BY DEF Joined, StoppingIsTold, Awake
  <2>2. ASSUME Worker PROVE ToFinish' < ToFinish
    <3>1. CASE While \/ Pending \/ PendingAgain \/ WorkerSnapshot \/ WorkerDeliver
      BY <2>1, <3>1 DEF While, Pending, PendingAgain, WorkerSnapshot, WorkerDeliver, At, ToFinish
    <3>2. CASE RoundFails \/ \E n \in 0 .. NSlots : Round(n)
      BY <3>2 DEF RoundFails, Round, At, ToFinish
    <3>3. CASE LockAndTest \/ Predicate \/ Block \/ Reacquire
      BY <2>1, <3>3 DEF LockAndTest, Predicate, MayGoOn, Block, Reacquire, At, ToFinish
    <3> QED BY <2>2, <3>1, <3>2, <3>3 DEF Worker
  <2>3. ASSUME ~Worker PROVE worker' = worker \/ owner' = "idle"
    <3>1. ASSUME NEW c \in Callers, Push(c) \/ Cancel(c) \/ Returning(c) PROVE worker' = worker
      BY <2>1, <3>1 DEF Push, Cancel, Returning, NotifyOne, Notified, CallerSnapshot,
         CallerDeliver, threads
    <3>2. CASE Subscribe \/ Unsubscribe
      BY <3>2 DEF Subscribe, Unsubscribe, threads
    <3>3. CASE Spurious
      BY <2>1, <3>3 DEF Spurious, At
    <3>4. CASE Start \/ Stop \/ Stopping
      BY <3>4 DEF Start, Stop, Stopping, StopNotify, Join
    <3> QED BY <2>3, <3>1, <3>2, <3>3, <3>4 DEF Next
  <2> QED BY <2>2, <2>3 DEF ToFinish
<1> HIDE DEF Left
<1>3. Spec /\ NotifiesInTime => []Left
  BY <1>1, StaysAwake, PTL
<1> QED BY <1>2, <1>3, StaysAwake, PTL DEF Spec, Left
=============================================================================
