------------------------- MODULE SerializationGate -------------------------
(***************************************************************************)
(* The serialization gate of one client: Client.serialized together with   *)
(* the ticket bookkeeping of Correlation.Gate.  Every public operation     *)
(* that touches the connection runs inside it.  A call atomically takes a  *)
(* ticket and replaces the tail of the promise chain by its own promise;   *)
(* then it binds a task to the promise it replaced.  The task checks its   *)
(* ticket, runs the operation, counts the ticket as finished and only then *)
(* resolves its own promise.                                               *)
(*                                                                         *)
(* A promise is named by the ticket of the call that resolves it; the task *)
(* that is complete from the start (Task.pure) is OpenGate.                *)
(***************************************************************************)
EXTENDS Integers, FiniteSets

CONSTANTS
    Callers,     \* the threads that call operations of one client
    MaxTickets   \* bound on the number of calls

ASSUME MaxTicketsAssumption == MaxTickets \in Nat

VARIABLES
    issued, finished,   \* Correlation.Gate
    tail,               \* the promise at the end of the chain
    resolved,           \* the promises that are resolved
    pc,                 \* where each call is
    ticket,             \* the ticket of each call
    previous            \* the promise each call waits for

vars == <<issued, finished, tail, resolved, pc, ticket, previous>>

OpenGate == -1

Tickets  == 0 .. MaxTickets - 1
Promises == Tickets \union {OpenGate}

-----------------------------------------------------------------------------
(* Correlation.Gate                                                        *)

MayStart(t) == t = finished /\ t < issued

FinishedUncounted == finished         \* faulty
FinishedTwice == finished + 2         \* faulty
FinishedNext == IF finished < issued THEN finished + 1 ELSE finished

Pending == issued - finished

-----------------------------------------------------------------------------
(* Client.serialized, one action per step that other threads can observe   *)

Init ==
    /\ issued = 0 /\ finished = 0
    /\ tail = OpenGate
    /\ resolved = {OpenGate}
    /\ pc = [c \in Callers |-> "idle"]
    /\ ticket = [c \in Callers |-> 0]
    /\ previous = [c \in Callers |-> OpenGate]

(* Faulty: the tail is read and the new promise is not put in its place.    *)
SubmitWithoutTail(c) ==
    /\ pc[c] = "idle" /\ issued < MaxTickets
    /\ issued' = issued + 1
    /\ ticket' = [ticket EXCEPT ![c] = issued]
    /\ previous' = [previous EXCEPT ![c] = tail]
    /\ pc' = [pc EXCEPT ![c] = "submitted"]
    /\ UNCHANGED <<finished, resolved, tail>>

(* One modifyGet: the ticket and the place in the chain are taken together. *)
Submit(c) ==
    /\ pc[c] = "idle"
    /\ issued < MaxTickets
    /\ issued' = issued + 1
    /\ ticket' = [ticket EXCEPT ![c] = issued]
    /\ previous' = [previous EXCEPT ![c] = tail]
    /\ tail' = issued
    /\ pc' = [pc EXCEPT ![c] = "submitted"]
    /\ UNCHANGED <<finished, resolved>>

(* IO.bindTask: from here the task starts when the earlier promise resolves. *)
Bind(c) ==
    /\ pc[c] = "submitted"
    /\ pc' = [pc EXCEPT ![c] = "bound"]
    /\ UNCHANGED <<issued, finished, tail, resolved, ticket, previous>>

(* Faulty: the task neither waits for the earlier promise nor checks.       *)
BeginUngated(c) ==
    /\ pc[c] = "bound"
    /\ pc' = [pc EXCEPT ![c] = "running"]
    /\ UNCHANGED <<issued, finished, tail, resolved, ticket, previous>>

(* The task starts; a ticket that may not start is refused with a lifecycle *)
(* error, and the operation is not run.                                     *)
Begin(c) ==
    /\ pc[c] = "bound"
    /\ previous[c] \in resolved
    /\ pc' = [pc EXCEPT ![c] = IF MayStart(ticket[c]) THEN "running" ELSE "refused"]
    /\ UNCHANGED <<issued, finished, tail, resolved, ticket, previous>>

(* The operation returns or throws: the first statement of the finally.     *)
Finish(c) ==
    /\ pc[c] \in {"running", "refused"}
    /\ finished' = FinishedNext
    /\ pc' = [pc EXCEPT ![c] = "finished"]
    /\ UNCHANGED <<issued, tail, resolved, ticket, previous>>

(* The second statement of the finally; the waiting caller then returns.    *)
Resolve(c) ==
    /\ pc[c] = "finished"
    /\ resolved' = resolved \union {ticket[c]}
    /\ pc' = [pc EXCEPT ![c] = "idle"]
    /\ UNCHANGED <<issued, finished, tail, ticket, previous>>

Task(c) == Bind(c) \/ Begin(c) \/ Finish(c) \/ Resolve(c)

Next == \E c \in Callers : Submit(c) \/ Task(c)

Spec == Init /\ [][Next]_vars

(* Lean runs every task that can run, and every operation ends (its         *)
(* receives have deadlines and its sends are taken to complete).  Nothing   *)
(* obliges a thread to call.                                                *)
FairSpec == Spec /\ \A c \in Callers : WF_vars(Task(c))

-----------------------------------------------------------------------------
(* Properties                                                              *)

TypeOK ==
    /\ issued \in 0 .. MaxTickets
    /\ finished \in 0 .. issued
    /\ tail \in Promises
    /\ resolved \subseteq Promises
    /\ pc \in [Callers -> {"idle", "submitted", "bound", "running", "refused", "finished"}]
    /\ ticket \in [Callers -> 0 .. MaxTickets]
    /\ previous \in [Callers -> Promises]

(* The calls that hold a ticket that is not counted as finished.           *)
Admitted(c) == pc[c] \in {"submitted", "bound", "running", "refused"}

(* No two operations of one client run at the same time: what lets every    *)
(* operation use the one connection, reply stream and progress record as    *)
(* its own, although serialized holds no lock while the operation runs.     *)
Exclusive ==
    \A c, d \in Callers : pc[c] = "running" /\ pc[d] = "running" => c = d

(* The order of the promise chain and the order of the tickets are kept by  *)
(* separate updates; they never disagree, so the lifecycle error of a       *)
(* ticket that "started out of order" is never thrown.                      *)
NeverRefused == \A c \in Callers : pc[c] # "refused"

(* While an operation runs, every call that took a ticket before it has     *)
(* finished, whichever thread bound its task first.                         *)
OldestRuns ==
    \A c, d \in Callers :
        pc[c] = "running" /\ Admitted(d) /\ d # c => ticket[c] < ticket[d]

(* What pendingOperationCount reports: exactly the calls that are queued or *)
(* running, also in the window where a ticket is finished and its promise   *)
(* is not yet resolved.                                                     *)
PendingCountsCalls == Pending = Cardinality({c \in Callers : Admitted(c)})

(* The gate implements the queue it promises: the calls in the order of     *)
(* their tickets, one running, none lost and every one of them served.  An  *)
(* entry of the queue is the set of the calls that hold its ticket, one     *)
(* call each.                                                              *)
HoldersOf(t) == {c \in Callers : Admitted(c) /\ ticket[c] = t}

Promised == INSTANCE SerialQueue WITH
    Callers <- {{c} : c \in Callers},
    queue <- [i \in 1 .. Pending |-> HoldersOf(finished + i - 1)],
    running <- \E c \in Callers : pc[c] = "running"

ImplementsSerialQueue == Promised!Spec
=============================================================================
