---------------------------- MODULE SerialQueue ----------------------------
(***************************************************************************)
(* What Client.serialized promises to the callers of one client: calls     *)
(* enter a queue in the order in which they are admitted, at most one of   *)
(* them runs, only the oldest one runs, and none is lost or dropped.       *)
(* SerializationGate (tickets and a chain of promises) implements it.      *)
(***************************************************************************)
EXTENDS Naturals, Sequences

CONSTANT Callers

VARIABLES
    queue,    \* the admitted calls that have not finished, oldest first
    running   \* whether the oldest one is executing

vars == <<queue, running>>

Init == queue = <<>> /\ running = FALSE

Waiting(c) == \E i \in DOMAIN queue : queue[i] = c

Enter(c) ==
    /\ ~Waiting(c)
    /\ queue' = Append(queue, c)
    /\ UNCHANGED running

Start ==
    /\ queue # <<>> /\ ~running
    /\ running' = TRUE
    /\ UNCHANGED queue

Leave ==
    /\ running
    /\ queue' = Tail(queue)
    /\ running' = FALSE

Next == (\E c \in Callers : Enter(c)) \/ Start \/ Leave

(* Admission is up to the callers; an admitted call is started and ends.   *)
Spec == Init /\ [][Next]_vars /\ WF_vars(Start) /\ WF_vars(Leave)
=============================================================================
