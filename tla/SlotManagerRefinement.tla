----------------------- MODULE SlotManagerRefinement -----------------------
(* SlotManager implements RequestService: a slot that holds a request is a *)
(* request being served.                                                   *)
EXTENDS SlotManager

Submitted == 1 .. next_request_id - 1
Waiting   == [i \in DOMAIN queue_requests |-> queue_requests[i].id]
Running   == {slot[s].request_id : s \in {t \in Slots : Held(t)}}

Service == INSTANCE RequestService WITH
  Requests <- Ids, Capacity <- NSlots,
  submitted <- Submitted, waiting <- Waiting, running <- Running

(* Requests start in the order they were queued, no more than n_parallel   *)
(* are served at once and each is answered at most once, after it left the *)
(* queue and before its slot is given up: every step of the processing     *)
(* thread, the callers and the cancelling threads is one of the service.   *)
ServiceSpec == Service!Spec
=============================================================================
