--------------------------- MODULE RequestService ---------------------------
(***************************************************************************)
(* What the slot manager promises its callers, without slots, batches or   *)
(* threads: requests wait in order, at most Capacity of them are served at *)
(* once, the service takes them from the front only, and each gets at most *)
(* one final callback, never while it still waits.                         *)
(***************************************************************************)
EXTENDS Naturals, Sequences, FiniteSets

CONSTANTS Requests, Capacity

VARIABLES
  submitted,  \* requests handed to the service
  waiting,    \* those that wait, in order
  running,    \* those being served
  answers     \* final callbacks per request

vars == <<submitted, waiting, running, answers>>

Init ==
  /\ submitted = {} /\ running = {}
  /\ waiting = <<>>
  /\ answers = [r \in Requests |-> 0]

Answer(r) == answers[r] = 0 /\ answers' = [answers EXCEPT ![r] = 1]

Submit(r) ==
  /\ r \notin submitted
  /\ submitted' = submitted \cup {r} /\ waiting' = Append(waiting, r)
  /\ UNCHANGED <<running, answers>>

(* A request that cannot be served at all is answered on submission.       *)
Refuse(r) ==
  /\ r \notin submitted
  /\ submitted' = submitted \cup {r} /\ Answer(r)
  /\ UNCHANGED <<waiting, running>>

HasRoom == waiting # <<>> /\ Cardinality(running) < Capacity

Start ==
  /\ HasRoom
  /\ running' = running \cup {Head(waiting)} /\ waiting' = Tail(waiting)
  /\ UNCHANGED <<submitted, answers>>

(* Starting may fail; the caller hears of it.                              *)
FailToStart ==
  /\ HasRoom /\ waiting' = Tail(waiting) /\ Answer(Head(waiting))
  /\ UNCHANGED <<submitted, running>>

Finish(r) ==
  /\ r \in running /\ running' = running \ {r} /\ Answer(r)
  /\ UNCHANGED <<submitted, waiting>>

(* Service ends without a callback.                                        *)
Drop(r) ==
  /\ r \in running /\ running' = running \ {r}
  /\ UNCHANGED <<submitted, waiting, answers>>

Withdraw(r) ==
  /\ \E i \in DOMAIN waiting :
       /\ waiting[i] = r
       /\ waiting' = SubSeq(waiting, 1, i - 1) \o SubSeq(waiting, i + 1, Len(waiting))
  /\ UNCHANGED <<submitted, running, answers>>

Next ==
  \/ Start \/ FailToStart
  \/ \E r \in Requests : Submit(r) \/ Refuse(r) \/ Finish(r) \/ Drop(r) \/ Withdraw(r)

Spec == Init /\ [][Next]_vars
=============================================================================
