--------------------------- MODULE ProcessingLoop ---------------------------
(***************************************************************************)
(* The threads around the slot manager (rn-slot-manager.cpp): the worker   *)
(* that start_processing_loop creates, callers of queue_request and        *)
(* cancel_request, and the owner that starts and stops the worker.  They   *)
(* share slots_mutex, the condition variable slots_cv, the atomic flag     *)
(* processing_active and the status subscription.                          *)
(*                                                                         *)
(* Requests are only counted here (module SlotManager has what happens to  *)
(* them).  A critical section is one action, except in the worker's wait,  *)
(* which keeps slots_mutex from the test of has_work until it blocks.      *)
(***************************************************************************)
EXTENDS Naturals

CONSTANTS
  Callers,      \* threads that call queue_request and cancel_request
  NSlots,       \* n_parallel
  MaxRequests,  \* bound: requests queued in all
  MaxStarts     \* bound: calls of start_processing_loop that start a worker

ASSUME LoopAssumption ==
  NSlots \in Nat \ {0} /\ MaxRequests \in Nat /\ MaxStarts \in Nat

VARIABLES
  processing_active,
  worker,      \* the worker: "none" when processing_thread is not joinable
  owner,       \* the thread inside stop_processing_loop, or idle
  caller,      \* callers inside queue_request or cancel_request
  waiting,     \* length of queue_requests
  active,      \* slots with a request
  subscribed,  \* whether status_subscribers has the subscriber
  seen,        \* the snapshot get_status gave each notifying thread
  told,        \* the status the subscriber was last called with
  queued,      \* requests queued so far
  starts       \* workers started so far

work    == <<waiting, active, queued>>
threads == <<processing_active, worker, owner, starts>>
status  == <<subscribed, seen, told>>
vars    == <<work, threads, status, caller>>

Status   == [waiting |-> waiting, active |-> active]
NoStatus == [waiting |-> 0, active |-> NSlots + 1]

WorkerPCs == {"none", "while", "pending", "decode", "pending2", "status", "deliver",
              "lock", "predicate", "block", "asleep", "woken", "finished"}

StatusRecord == [waiting : Nat, active : Nat]

TypeOK ==
  /\ processing_active \in BOOLEAN
  /\ worker \in WorkerPCs
  /\ owner \in {"idle", "notify", "join"}
  /\ caller \in [Callers -> {"idle", "notify", "status", "deliver"}]
  /\ waiting \in Nat /\ active \in 0 .. NSlots
  /\ subscribed \in BOOLEAN
  /\ seen \in [Callers \cup {"worker"} -> StatusRecord] /\ told \in StatusRecord
  /\ queued \in 0 .. MaxRequests /\ starts \in 0 .. MaxStarts

Init ==
  /\ processing_active = FALSE
  /\ worker = "none" /\ owner = "idle"
  /\ caller = [c \in Callers |-> "idle"]
  /\ waiting = 0 /\ active = 0
  /\ subscribed = FALSE
  /\ seen = [t \in Callers \cup {"worker"} |-> NoStatus]
  /\ told = NoStatus
  /\ queued = 0 /\ starts = 0

(* Mutant: slots_mutex is not taken.                                       *)
SlotsFree_Always == TRUE

(* The worker is the only thread that keeps slots_mutex between actions.   *)
SlotsFree == worker \notin {"predicate", "block"}

(* slots_cv.notify_one and notify_all: there is one thread to wake.        *)
Notified == IF worker = "asleep" THEN "woken" ELSE worker

-----------------------------------------------------------------------------
(* queue_request, queue_embedding_request and queue_rerank_request.        *)

Push(c) ==
  /\ caller[c] = "idle" /\ queued < MaxRequests
  /\ SlotsFree
  /\ waiting' = waiting + 1 /\ queued' = queued + 1
  /\ caller' = [caller EXCEPT ![c] = "notify"]
  /\ UNCHANGED <<active, threads, status>>

NotifyOne(c) ==
  /\ caller[c] = "notify"
  /\ worker' = Notified
  /\ caller' = [caller EXCEPT ![c] = "status"]
  /\ UNCHANGED <<work, processing_active, owner, starts, status>>

(* cancel_request, which takes no mutex, when it finds the request: in the *)
(* queue, or in a slot it marks done.                                      *)
Cancel(c) ==
  /\ caller[c] = "idle"
  /\ \/ waiting > 0 /\ waiting' = waiting - 1 /\ UNCHANGED active
     \/ active > 0 /\ active' = active - 1 /\ UNCHANGED waiting
  /\ caller' = [caller EXCEPT ![c] = "status"]
  /\ UNCHANGED <<queued, threads, status>>

(* All three end with notify_status_change when there is a subscriber: a   *)
(* snapshot under slots_mutex, ...                                         *)
CallerSnapshot(c) ==
  /\ caller[c] = "status" /\ SlotsFree
  /\ seen' = IF subscribed THEN [seen EXCEPT ![c] = Status] ELSE seen
  /\ caller' = [caller EXCEPT ![c] = IF subscribed THEN "deliver" ELSE "idle"]
  /\ UNCHANGED <<work, threads, subscribed, told>>

(* ... then the callbacks, under subscribers_mutex.                        *)
Deliver(t) ==
  /\ told' = IF subscribed THEN seen[t] ELSE told
  /\ seen' = [seen EXCEPT ![t] = NoStatus]
  /\ UNCHANGED subscribed

CallerDeliver(c) ==
  /\ caller[c] = "deliver" /\ Deliver(c)
  /\ caller' = [caller EXCEPT ![c] = "idle"]
  /\ UNCHANGED <<work, threads>>

Subscribe ==
  /\ ~subscribed /\ subscribed' = TRUE
  /\ UNCHANGED <<work, threads, caller, seen, told>>

Unsubscribe ==
  /\ subscribed /\ subscribed' = FALSE /\ told' = NoStatus
  /\ UNCHANGED <<work, threads, caller, seen>>

-----------------------------------------------------------------------------
(* The worker: update_slots, ...                                           *)

At(here, there) ==
  /\ worker = here /\ worker' = there
  /\ UNCHANGED <<processing_active, owner, starts>>

While ==
  /\ At("while", IF processing_active THEN "pending" ELSE "finished")
  /\ UNCHANGED <<work, status, caller>>

(* Mutant: n_parallel is not looked at.                                    *)
TakeRequests_NoRoomCheck ==
  \E n, f \in 0 .. waiting :
    n + f = waiting /\ active' = active + n /\ waiting' = 0

(* process_pending_queue: n requests enter slots, f fail to load.          *)
TakeRequests ==
  \E n, f \in 0 .. waiting :
    /\ n + f <= waiting /\ active + n <= NSlots
    /\ n + f = waiting \/ active + n = NSlots
    /\ f > 0 => active < NSlots
    /\ active' = active + n /\ waiting' = waiting - n - f

Pending ==
  /\ TakeRequests
  /\ At("pending", IF active' > 0 THEN "decode" ELSE "lock")
  /\ UNCHANGED <<queued, status, caller>>

(* A round of decoding and sampling ends the service of n requests; ...    *)
Round(n) ==
  /\ At("decode", "pending2")
  /\ n <= active /\ active' = active - n
  /\ UNCHANGED <<waiting, queued, status, caller>>

(* ... when llama_decode fails it ends all of them, and update_slots       *)
(* returns without telling the subscriber.                                 *)
RoundFails ==
  /\ At("decode", "lock") /\ active' = 0
  /\ UNCHANGED <<waiting, queued, status, caller>>

PendingAgain ==
  /\ TakeRequests
  /\ At("pending2", "status")
  /\ UNCHANGED <<queued, status, caller>>

WorkerSnapshot ==
  /\ At("status", IF subscribed THEN "deliver" ELSE "lock")
  /\ seen' = IF subscribed THEN [seen EXCEPT !["worker"] = Status] ELSE seen
  /\ UNCHANGED <<work, caller, subscribed, told>>

WorkerDeliver ==
  /\ At("deliver", "lock") /\ Deliver("worker")
  /\ UNCHANGED <<work, caller>>

(* ... then the wait for new work.                                         *)
HasWork == waiting > 0 \/ active > 0

LockAndTest ==
  /\ At("lock", IF ~HasWork /\ processing_active THEN "predicate" ELSE "while")
  /\ UNCHANGED <<work, status, caller>>

(* Mutant: only the flag is looked at.                                     *)
MayGoOn_FlagOnly == ~processing_active

MayGoOn == waiting > 0 \/ ~processing_active

Predicate ==
  /\ At("predicate", IF MayGoOn THEN "while" ELSE "block")
  /\ UNCHANGED <<work, status, caller>>

(* The mutex is released and the thread waits, in one step.                *)
Block ==
  /\ At("block", "asleep")
  /\ UNCHANGED <<work, status, caller>>

Spurious ==
  /\ At("asleep", "woken")
  /\ UNCHANGED <<work, status, caller>>

Reacquire ==
  /\ At("woken", "predicate")
  /\ UNCHANGED <<work, status, caller>>

-----------------------------------------------------------------------------
(* The owner of the loop; a start of a running loop, a stop of a stopped   *)
(* one do nothing.                                                         *)

Start ==
  /\ owner = "idle" /\ ~processing_active /\ starts < MaxStarts
  /\ processing_active' = TRUE /\ worker' = "while" /\ starts' = starts + 1
  /\ UNCHANGED <<work, status, caller, owner>>

Stop ==
  /\ owner = "idle" /\ processing_active
  /\ processing_active' = FALSE /\ owner' = "notify"
  /\ UNCHANGED <<work, status, caller, worker, starts>>

(* notify_all, without slots_mutex.                                        *)
StopNotify ==
  /\ owner = "notify" /\ owner' = "join" /\ worker' = Notified
  /\ UNCHANGED <<work, status, caller, processing_active, starts>>

(* Mutant: does not wait for the thread.                                   *)
Join_NoWait ==
  /\ owner = "join" /\ owner' = "idle"
  /\ worker' = IF worker = "finished" THEN "none" ELSE worker
  /\ UNCHANGED <<work, status, caller, processing_active, starts>>

Join ==
  /\ owner = "join" /\ worker = "finished"
  /\ owner' = "idle" /\ worker' = "none"
  /\ UNCHANGED <<work, status, caller, processing_active, starts>>

-----------------------------------------------------------------------------
Worker ==
  \/ While \/ Pending \/ (\E n \in 0 .. NSlots : Round(n)) \/ RoundFails
  \/ PendingAgain \/ WorkerSnapshot \/ WorkerDeliver
  \/ LockAndTest \/ Predicate \/ Block \/ Reacquire

(* What a caller does once its call has changed the queue or a slot.       *)
Returning(c) == NotifyOne(c) \/ CallerSnapshot(c) \/ CallerDeliver(c)

Stopping == StopNotify \/ Join

Next ==
  \/ \E c \in Callers : Push(c) \/ Cancel(c) \/ Returning(c)
  \/ Subscribe \/ Unsubscribe
  \/ Worker \/ Spurious
  \/ Start \/ Stop \/ Stopping

Spec == Init /\ [][Next]_vars

(* Threads run, and service ends: SlotManager shows that every request     *)
(* leaves its slot.  Nothing is said of spurious wake-ups.                 *)
Fairness ==
  /\ WF_vars(Worker) /\ WF_vars(Stopping)
  /\ \A c \in Callers : WF_vars(Returning(c))
  /\ SF_vars(\E n \in 1 .. NSlots : Round(n))

FairSpec == Spec /\ Fairness
-----------------------------------------------------------------------------
(* Properties.                                                             *)

(* The worker never sleeps on a request: when it waits on slots_cv and the *)
(* queue is not empty, the notify_one that wakes it is still to come       *)
(* (queue_request notifies after it has left the mutex).                   *)
NoLostRequest ==
  worker = "asleep" /\ waiting > 0 => \E c \in Callers : caller[c] = "notify"

(* Outside stop_processing_loop there is a thread exactly when             *)
(* processing_active says so: once stop has returned nothing touches the   *)
(* slots any more, so the destructor may free them, and start never        *)
(* assigns to a joinable std::thread.                                      *)
OneThread == owner = "idle" => (processing_active <=> worker # "none")

(* While the loop runs, waiting requests leave the queue.                  *)
RequestsTaken == waiting > 0 /\ processing_active ~> waiting = 0 \/ ~processing_active

(* "Notify condition variable to wake up the thread": stop returns.        *)
StopReturns == owner = "join" ~> owner = "idle"

(* "Notify all subscribers of status change": when no call is under way    *)
(* and the worker sleeps, the subscriber was last told the present status. *)
StatusIsCurrent ==
  subscribed /\ told # NoStatus /\ worker = "asleep" /\ (\A c \in Callers : caller[c] = "idle")
    => told = Status
=============================================================================
