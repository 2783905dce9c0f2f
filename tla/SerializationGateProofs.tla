---------------------- MODULE SerializationGateProofs ----------------------
(***************************************************************************)
(* Proofs, for any set of threads and any number of calls, that the gate   *)
(* runs one operation at a time, oldest first, and never refuses a ticket. *)
(*                                                                         *)
(* None of these is inductive: that a call whose promise is resolved may   *)
(* start depends on how tickets, promises and the two counters of the gate *)
(* are related in every intermediate step.  GateInv states that relation.  *)
(***************************************************************************)
EXTENDS SerializationGate, FiniteSetTheorems, TLAPS, Sequences

(* The promise at the end of the chain belongs to the last ticket.         *)
TailIsLast == tail = issued - 1

(* An admitted call holds an unfinished ticket and waits for the promise of *)
(* the ticket before its own.                                              *)
ChainFollowsTickets ==
    \A c \in Callers : Admitted(c) =>
        /\ finished <= ticket[c] /\ ticket[c] < issued
        /\ previous[c] = ticket[c] - 1

(* A ticket is counted as finished before its promise is resolved.         *)
ResolvedAreFinished ==
    /\ \A p \in resolved : p < finished
    /\ \A c \in Callers : pc[c] = "finished" => ticket[c] < finished

TicketsDiffer ==
    \A c, d \in Callers : Admitted(c) /\ Admitted(d) /\ c # d => ticket[c] # ticket[d]

RunningIsNext == \A c \in Callers : pc[c] = "running" => ticket[c] = finished

GateInv ==
    /\ TypeOK
    /\ TailIsLast
    /\ ChainFollowsTickets
    /\ ResolvedAreFinished
    /\ TicketsDiffer
    /\ RunningIsNext
    /\ NeverRefused

-----------------------------------------------------------------------------

(* The invariant holds before the first call.                              *)
LEMMA GateInvInit == Init => GateInv
  BY MaxTicketsAssumption
     DEF Init, GateInv, TypeOK, TailIsLast, ChainFollowsTickets, ResolvedAreFinished,
         TicketsDiffer, RunningIsNext, NeverRefused, Admitted, OpenGate, Promises, Tickets

(* Taking a ticket and the tail of the chain in one step keeps the order of *)
(* the chain equal to the order of the tickets.                            *)
LEMMA SubmitKeepsGateInv ==
  ASSUME NEW c \in Callers, GateInv, Submit(c)
  PROVE  GateInv'
<1> USE MaxTicketsAssumption DEF GateInv, TypeOK, Submit, Promises, Tickets, OpenGate
<1>1. TypeOK'
  OBVIOUS
<1>2. TailIsLast'
  BY DEF TailIsLast
<1>3. ChainFollowsTickets'
  BY DEF ChainFollowsTickets, Admitted, TailIsLast
<1>4. ResolvedAreFinished'
  BY DEF ResolvedAreFinished
<1>5. TicketsDiffer'
  BY DEF TicketsDiffer, ChainFollowsTickets, Admitted
<1>6. RunningIsNext'
  BY DEF RunningIsNext
<1>7. NeverRefused'
  BY DEF NeverRefused
<1> QED BY <1>1, <1>2, <1>3, <1>4, <1>5, <1>6, <1>7

(* Binding the task changes nothing but the place of the call.             *)
LEMMA BindKeepsGateInv ==
  ASSUME NEW c \in Callers, GateInv, Bind(c)
  PROVE  GateInv'
  BY DEF GateInv, TypeOK, Bind, TailIsLast, ChainFollowsTickets, ResolvedAreFinished,
         TicketsDiffer, RunningIsNext, NeverRefused, Admitted

(* A task whose earlier promise is resolved holds the ticket to be finished *)
(* next: it is not refused.                                                *)
LEMMA BeginKeepsGateInv ==
  ASSUME NEW c \in Callers, GateInv, Begin(c)
  PROVE  GateInv'
<1> USE DEF GateInv, TypeOK, Begin
<1>1. Admitted(c)
  BY DEF Admitted
<1>2. ticket[c] = finished /\ ticket[c] < issued
  <2>1. previous[c] < finished
    BY DEF ResolvedAreFinished
  <2>2. finished <= ticket[c] /\ ticket[c] < issued /\ previous[c] = ticket[c] - 1
    BY <1>1 DEF ChainFollowsTickets
  <2>3. ticket[c] \in Int /\ finished \in Int
    BY MaxTicketsAssumption
  <2> QED BY <2>1, <2>2, <2>3
<1>3. pc' = [pc EXCEPT ![c] = "running"]
  BY <1>2 DEF MayStart
<1>4. TypeOK' /\ TailIsLast' /\ ResolvedAreFinished'
  BY <1>3 DEF TailIsLast, ResolvedAreFinished
<1>5. ChainFollowsTickets' /\ TicketsDiffer'
  BY <1>3 DEF ChainFollowsTickets, TicketsDiffer, Admitted
<1>6. RunningIsNext' /\ NeverRefused'
  BY <1>2, <1>3 DEF RunningIsNext, NeverRefused
<1> QED BY <1>4, <1>5, <1>6

(* The running ticket is the one that is counted: every other admitted call *)
(* keeps an unfinished ticket.                                             *)
LEMMA FinishKeepsGateInv ==
  ASSUME NEW c \in Callers, GateInv, Finish(c)
  PROVE  GateInv'
<1> USE MaxTicketsAssumption DEF GateInv, TypeOK, Finish
<1>1. pc[c] = "running" /\ Admitted(c)
  BY DEF NeverRefused, Admitted
<1>2. ticket[c] = finished /\ finished < issued
  BY <1>1 DEF RunningIsNext, ChainFollowsTickets
<1>3. finished' = finished + 1
  BY <1>2 DEF FinishedNext
<1>4. TypeOK' /\ TailIsLast'
  BY <1>2, <1>3 DEF TailIsLast
<1>5. ChainFollowsTickets'
  <2> SUFFICES ASSUME NEW d \in Callers, Admitted(d)'
               PROVE  /\ finished' <= ticket[d] /\ ticket[d] < issued
                      /\ previous[d] = ticket[d] - 1
    BY DEF ChainFollowsTickets
  <2>1. d # c /\ Admitted(d)
    BY DEF Admitted
  <2>2. ticket[d] # ticket[c]
    BY <1>1, <2>1 DEF TicketsDiffer
  <2> QED BY <1>2, <1>3, <2>1, <2>2 DEF ChainFollowsTickets
<1>6. ResolvedAreFinished'
  BY <1>2, <1>3 DEF ResolvedAreFinished, Promises, Tickets, OpenGate
<1>7. TicketsDiffer' /\ NeverRefused'
  BY DEF TicketsDiffer, NeverRefused, Admitted
<1>8. RunningIsNext'
  <2> SUFFICES ASSUME NEW d \in Callers, pc'[d] = "running" PROVE FALSE
    BY DEF RunningIsNext
  <2>1. d # c /\ pc[d] = "running"
    OBVIOUS
  <2>2. ticket[d] = ticket[c] /\ Admitted(d)
    BY <1>2, <2>1 DEF RunningIsNext, Admitted
  <2> QED BY <1>1, <2>1, <2>2 DEF TicketsDiffer
<1> QED BY <1>4, <1>5, <1>6, <1>7, <1>8

(* A promise is resolved only after its ticket was counted.                *)
LEMMA ResolveKeepsGateInv ==
  ASSUME NEW c \in Callers, GateInv, Resolve(c)
  PROVE  GateInv'
<1> USE MaxTicketsAssumption DEF GateInv, TypeOK, Resolve
<1>1. ticket[c] < finished
  BY DEF ResolvedAreFinished
<1>2. TypeOK'
  <2>1. ticket[c] \in Tickets
    BY <1>1 DEF Tickets
  <2>2. resolved' \subseteq Promises
    BY <2>1 DEF Promises
  <2>3. pc' \in [Callers -> {"idle", "submitted", "bound", "running", "refused", "finished"}]
    OBVIOUS
  <2> QED BY <2>2, <2>3
<1>3. ResolvedAreFinished'
  BY <1>1 DEF ResolvedAreFinished
<1>4. TailIsLast' /\ ChainFollowsTickets' /\ TicketsDiffer'
  BY DEF TailIsLast, ChainFollowsTickets, TicketsDiffer, Admitted
<1>5. RunningIsNext' /\ NeverRefused'
  BY DEF RunningIsNext, NeverRefused
<1> QED BY <1>2, <1>3, <1>4, <1>5

LEMMA StutterKeepsGateInv == GateInv /\ UNCHANGED vars => GateInv'
  BY DEF GateInv, vars, TypeOK, TailIsLast, ChainFollowsTickets, ResolvedAreFinished,
         TicketsDiffer, RunningIsNext, NeverRefused, Admitted

(* The relation between tickets, promises and counters holds throughout.   *)
THEOREM GateInvariant == Spec => []GateInv
<1>1. GateInv /\ [Next]_vars => GateInv'
  <2> SUFFICES ASSUME GateInv, [Next]_vars PROVE GateInv'
    OBVIOUS
  <2>1. ASSUME NEW c \in Callers, Submit(c) PROVE GateInv'
    BY <2>1, SubmitKeepsGateInv
  <2>2. ASSUME NEW c \in Callers, Task(c) PROVE GateInv'
    BY <2>2, BindKeepsGateInv, BeginKeepsGateInv, FinishKeepsGateInv, ResolveKeepsGateInv
       DEF Task
  <2> QED BY <2>1, <2>2, StutterKeepsGateInv DEF Next
<1> QED BY GateInvInit, <1>1, PTL DEF Spec

(* Every variable keeps its type, and finished never overtakes issued: the  *)
(* saturating branch of Gate.finish is never taken.                        *)
THEOREM TypeCorrect == Spec => []TypeOK
  BY GateInvariant, PTL DEF GateInv

(* serialized never runs two operations of one client at the same time.    *)
THEOREM MutualExclusion == Spec => []Exclusive
<1>1. GateInv => Exclusive
  BY DEF GateInv, Exclusive, RunningIsNext, TicketsDiffer, Admitted
<1> QED BY GateInvariant, <1>1, PTL

(* The check of mayStart never fails: no call gets the out-of-order error.  *)
THEOREM TicketsNeverRefused == Spec => []NeverRefused
  BY GateInvariant, PTL DEF GateInv

(* The running operation is older than every other admitted one.           *)
THEOREM OldestFirst == Spec => []OldestRuns
<1>1. GateInv => OldestRuns
  <2> SUFFICES ASSUME GateInv, NEW c \in Callers, NEW d \in Callers,
                      pc[c] = "running", Admitted(d), d # c
               PROVE  ticket[c] < ticket[d]
    BY DEF OldestRuns
  <2>1. ticket[c] = finished /\ finished <= ticket[d] /\ ticket[c] # ticket[d]
    BY DEF GateInv, RunningIsNext, ChainFollowsTickets, TicketsDiffer, Admitted
  <2> QED BY <2>1, MaxTicketsAssumption DEF GateInv, TypeOK
<1> QED BY GateInvariant, <1>1, PTL

-----------------------------------------------------------------------------
(* The two counters against the set of calls they stand for.  Counting is   *)
(* inductive once every finish is known to count an admitted call.          *)

AdmittedCalls == {c \in Callers : Admitted(c)}

CountInv == IsFiniteSet(AdmittedCalls) /\ Pending = Cardinality(AdmittedCalls)

LEMMA CountInvInit == Init => CountInv
<1> SUFFICES ASSUME Init PROVE CountInv
  OBVIOUS
<1>1. AdmittedCalls = {}
  BY DEF Init, AdmittedCalls, Admitted
<1> QED BY <1>1, FS_EmptySet DEF CountInv, Pending, Init

(* A call that takes a ticket was not admitted: both sides grow by one.    *)
LEMMA SubmitCounts ==
  ASSUME NEW c \in Callers, GateInv, CountInv, Submit(c)
  PROVE  CountInv'
<1>1. c \notin AdmittedCalls /\ AdmittedCalls' = AdmittedCalls \union {c}
  BY DEF AdmittedCalls, Admitted, Submit, GateInv, TypeOK
<1>2. Cardinality(AdmittedCalls') = Cardinality(AdmittedCalls) + 1 /\ IsFiniteSet(AdmittedCalls')
  BY <1>1, FS_AddElement DEF CountInv
<1>3. issued \in Int /\ finished \in Int
  BY MaxTicketsAssumption DEF GateInv, TypeOK
<1>4. Pending' = Pending + 1
  BY <1>3 DEF Pending, Submit
<1> QED BY <1>2, <1>4 DEF CountInv

(* The call that is counted as finished was admitted: both sides shrink.   *)
LEMMA FinishCounts ==
  ASSUME NEW c \in Callers, GateInv, CountInv, Finish(c)
  PROVE  CountInv'
<1>1. c \in AdmittedCalls /\ AdmittedCalls' = AdmittedCalls \ {c}
  BY DEF AdmittedCalls, Admitted, Finish, GateInv, TypeOK
<1>2. Cardinality(AdmittedCalls') = Cardinality(AdmittedCalls) - 1 /\ IsFiniteSet(AdmittedCalls')
  BY <1>1, FS_RemoveElement DEF CountInv
<1>3. issued \in Int /\ finished \in Int /\ finished < issued
  BY MaxTicketsAssumption
     DEF GateInv, TypeOK, ChainFollowsTickets, NeverRefused, Admitted, Finish
<1>4. Pending' = Pending - 1
  BY <1>3 DEF Pending, Finish, FinishedNext
<1> QED BY <1>2, <1>4 DEF CountInv

(* The other steps admit no call and finish none.                          *)
LEMMA OthersKeepCount ==
  ASSUME GateInv, CountInv,
         \/ UNCHANGED vars
         \/ \E c \in Callers : Bind(c) \/ Begin(c) \/ Resolve(c)
  PROVE  CountInv'
<1>1. AdmittedCalls' = AdmittedCalls
  BY DEF AdmittedCalls, Admitted, Bind, Begin, Resolve, vars, GateInv, TypeOK
<1>2. Pending' = Pending
  BY DEF Pending, Bind, Begin, Resolve, vars
<1> QED BY <1>1, <1>2 DEF CountInv

(* pendingOperationCount is the number of queued and running calls.        *)
THEOREM PendingIsExact == Spec => []PendingCountsCalls
<1>1. GateInv /\ CountInv /\ [Next]_vars => CountInv'
  <2> SUFFICES ASSUME GateInv, CountInv, [Next]_vars PROVE CountInv'
    OBVIOUS
  <2>1. ASSUME NEW c \in Callers, Submit(c) \/ Finish(c) PROVE CountInv'
    BY <2>1, SubmitCounts, FinishCounts
  <2>2. ASSUME UNCHANGED vars \/ \E c \in Callers : Bind(c) \/ Begin(c) \/ Resolve(c)
        PROVE  CountInv'
    BY <2>2, OthersKeepCount
  <2> QED BY <2>1, <2>2 DEF Next, Task
<1>2. CountInv => PendingCountsCalls
  BY DEF CountInv, PendingCountsCalls, AdmittedCalls
<1> QED BY GateInvariant, CountInvInit, <1>1, <1>2, PTL DEF Spec

-----------------------------------------------------------------------------
(* The gate implements the queue it promises: the calls that hold the       *)
(* tickets from finished to issued, in this order.                         *)

Queue   == [i \in 1 .. Pending |-> HoldersOf(finished + i - 1)]
Running == \E c \in Callers : pc[c] = "running"

(* Adding to the end of a line, and taking its first away.                 *)
LEMMA LineGrows ==
  ASSUME NEW S, NEW n \in Nat, NEW line \in [1 .. n -> S], NEW entry \in S,
         NEW longer \in [1 .. n + 1 -> S], longer[n + 1] = entry,
         \A i \in 1 .. n : longer[i] = line[i]
  PROVE  longer = Append(line, entry)
<1>1. line \in Seq(S) /\ Len(line) = n
  OBVIOUS
<1>2. /\ Append(line, entry) \in Seq(S) /\ Len(Append(line, entry)) = n + 1
      /\ Append(line, entry)[n + 1] = entry
      /\ \A i \in 1 .. n : Append(line, entry)[i] = line[i]
  BY <1>1
<1>3. \A i \in 1 .. n + 1 : longer[i] = Append(line, entry)[i]
  <2>1. \A i \in 1 .. n + 1 : i \in 1 .. n \/ i = n + 1
    OBVIOUS
  <2> QED BY <1>2, <2>1
<1>4. longer \in Seq(S) /\ Len(longer) = n + 1
  OBVIOUS
<1> QED BY <1>2, <1>3, <1>4

LEMMA LineShrinks ==
  ASSUME NEW S, NEW n \in Nat \ {0}, NEW line \in [1 .. n -> S],
         NEW shorter \in [1 .. n - 1 -> S],
         \A i \in 1 .. n - 1 : shorter[i] = line[i + 1]
  PROVE  shorter = Tail(line)
<1>1. line \in Seq(S) /\ Len(line) = n
  OBVIOUS
<1>2. /\ Tail(line) \in Seq(S) /\ Len(Tail(line)) = n - 1
      /\ \A i \in 1 .. n - 1 : Tail(line)[i] = line[i + 1]
  BY <1>1
<1>3. shorter \in Seq(S) /\ Len(shorter) = n - 1
  OBVIOUS
<1> QED BY <1>2, <1>3

LEMMA QueueTyped ==
  /\ Queue \in [1 .. Pending -> SUBSET Callers]
  /\ \A i \in 1 .. Pending : Queue[i] = HoldersOf(finished + i - 1)
  BY DEF Queue, HoldersOf

LEMMA CountersTyped ==
  ASSUME GateInv
  PROVE  /\ issued \in Nat /\ finished \in Nat /\ Pending \in Nat
         /\ \A c \in Callers : ticket[c] \in Nat
  BY MaxTicketsAssumption DEF GateInv, TypeOK, Pending

(* A step that admits no call and finishes none leaves the queue.          *)
LEMMA QueueStays ==
  ASSUME UNCHANGED <<issued, finished, ticket>>,
         \A c \in Callers : Admitted(c)' <=> Admitted(c)
  PROVE  Queue' = Queue
<1>1. \A t : HoldersOf(t)' = HoldersOf(t)
  BY DEF HoldersOf
<1>2. Pending' = Pending
  BY DEF Pending
<1> QED BY <1>1, <1>2 DEF Queue

(* A call that takes a ticket enters the queue at its end.                 *)
LEMMA SubmitEnters ==
  ASSUME GateInv, NEW c \in Callers, Submit(c)
  PROVE  /\ \A i \in DOMAIN Queue : Queue[i] # {c}
         /\ Queue' = Append(Queue, {c}) /\ Running' = Running
<1>1. /\ ~Admitted(c) /\ Admitted(c)' /\ issued' = issued + 1 /\ finished' = finished
      /\ \A d \in Callers : d # c => (Admitted(d)' <=> Admitted(d))
      /\ ticket'[c] = issued /\ \A d \in Callers : d # c => ticket'[d] = ticket[d]
  BY DEF Submit, Admitted, GateInv, TypeOK
<1>2. \A i \in DOMAIN Queue : Queue[i] # {c}
  <2>1. DOMAIN Queue = 1 .. Pending
    BY DEF Queue
  <2>2. \A t : c \notin HoldersOf(t)
    BY <1>1 DEF HoldersOf
  <2> QED BY <2>1, <2>2, QueueTyped
<1>3. Pending' = Pending + 1 /\ Pending = issued - finished
  BY <1>1, CountersTyped DEF Pending
<1>4. ASSUME NEW t, t # issued PROVE HoldersOf(t)' = HoldersOf(t)
  BY <1>1, <1>4 DEF HoldersOf
<1>5. HoldersOf(issued) = {}
  BY CountersTyped DEF HoldersOf, GateInv, ChainFollowsTickets
<1>6. ASSUME NEW t, t = issued PROVE HoldersOf(t)' = {c}
  BY <1>1, <1>5, <1>6 DEF HoldersOf
<1>7. Queue' \in [1 .. Pending + 1 -> SUBSET Callers]
  BY <1>3 DEF Queue, HoldersOf
<1>8. ASSUME NEW i \in 1 .. Pending PROVE Queue'[i] = Queue[i]
  <2>1. i \in 1 .. Pending + 1 /\ finished + i - 1 # issued
    BY <1>3, CountersTyped
  <2>2. Queue'[i] = HoldersOf(finished + i - 1)
    BY <1>1, <1>3, <1>4, <2>1 DEF Queue
  <2> QED BY <2>2, QueueTyped
<1>9. Queue'[Pending + 1] = {c}
  <2>1. Pending + 1 \in 1 .. Pending + 1 /\ finished + (Pending + 1) - 1 = issued
    BY <1>3, CountersTyped
  <2> QED BY <1>1, <1>3, <1>6, <2>1 DEF Queue
<1>10. Queue' = Append(Queue, {c})
  <2> HIDE DEF Queue
  <2> QED BY <1>7, <1>8, <1>9, QueueTyped, CountersTyped, LineGrows
<1>11. \A d \in Callers : pc'[d] = "running" <=> pc[d] = "running"
  BY DEF Submit, GateInv, TypeOK
<1> QED BY <1>2, <1>10, <1>11 DEF Running

(* The call that is counted is the first of the queue, and leaves it.      *)
LEMMA FinishLeaves ==
  ASSUME GateInv, NEW c \in Callers, Finish(c)
  PROVE  Running = TRUE /\ Queue' = Tail(Queue) /\ Running' = FALSE
<1>1. pc[c] = "running" /\ Admitted(c) /\ ticket[c] = finished /\ finished < issued
  BY DEF GateInv, NeverRefused, Finish, Admitted, RunningIsNext, ChainFollowsTickets
<1>2. /\ issued' = issued /\ finished' = finished + 1 /\ ticket' = ticket /\ ~Admitted(c)'
      /\ \A d \in Callers : d # c => (Admitted(d)' <=> Admitted(d))
  BY <1>1 DEF Finish, FinishedNext, Admitted, GateInv, TypeOK
<1>3. Pending' = Pending - 1 /\ Pending = issued - finished /\ Pending \in Nat \ {0}
  BY <1>1, <1>2, CountersTyped DEF Pending
<1>4. ASSUME NEW t, t # finished PROVE HoldersOf(t)' = HoldersOf(t)
  BY <1>1, <1>2, <1>4 DEF HoldersOf
<1>5. Queue' \in [1 .. Pending - 1 -> SUBSET Callers]
  BY <1>3 DEF Queue, HoldersOf
<1>6. ASSUME NEW i \in 1 .. Pending - 1 PROVE Queue'[i] = Queue[i + 1]
  <2>1. /\ i + 1 \in 1 .. Pending /\ finished + 1 + i - 1 # finished
        /\ finished + (i + 1) - 1 = finished + 1 + i - 1
    BY <1>3, CountersTyped
  <2>2. Queue'[i] = HoldersOf(finished + 1 + i - 1)
    BY <1>2, <1>3, <1>4, <2>1 DEF Queue
  <2> QED BY <2>1, <2>2, QueueTyped
<1>7. Queue' = Tail(Queue)
  <2> HIDE DEF Queue
  <2> QED BY <1>3, <1>5, <1>6, QueueTyped, LineShrinks
<1>8. ASSUME NEW d \in Callers, pc'[d] = "running" PROVE FALSE
  <2>1. d # c /\ pc[d] = "running"
    BY <1>8 DEF Finish, GateInv, TypeOK
  <2>2. ticket[d] = ticket[c] /\ Admitted(d)
    BY <1>1, <2>1 DEF GateInv, RunningIsNext, Admitted
  <2> QED BY <1>1, <2>1, <2>2 DEF GateInv, TicketsDiffer
<1> QED BY <1>1, <1>7, <1>8 DEF Running

(* The call that begins is the first of the queue, and no other one runs.  *)
LEMMA BeginStarts ==
  ASSUME GateInv, GateInv', NEW c \in Callers, Begin(c)
  PROVE  Queue # <<>> /\ Running = FALSE /\ Running' = TRUE /\ Queue' = Queue
<1>1. pc' = [pc EXCEPT ![c] = "running"] /\ pc[c] = "bound"
  BY DEF Begin, GateInv, NeverRefused, TypeOK
<1>2. Running' = TRUE
  BY <1>1 DEF Running, GateInv, TypeOK
<1>3. ASSUME NEW d \in Callers, pc[d] = "running" PROVE FALSE
  <2>1. d # c /\ pc'[c] = "running" /\ pc'[d] = "running"
    BY <1>1, <1>3 DEF GateInv, TypeOK
  <2>2. ticket'[c] = ticket'[d] /\ Admitted(c)' /\ Admitted(d)'
    BY <2>1 DEF GateInv, RunningIsNext, Admitted
  <2> QED BY <2>1, <2>2 DEF GateInv, TicketsDiffer
<1>4. Queue' = Queue
  BY <1>1, QueueStays DEF Begin, Admitted, GateInv, TypeOK
<1>5. Queue # <<>>
  <2>1. finished < issued
    BY <1>1, CountersTyped DEF GateInv, ChainFollowsTickets, Admitted
  <2>2. 1 \in DOMAIN Queue
    BY <2>1, CountersTyped DEF Queue, Pending
  <2> QED BY <2>2
<1> QED BY <1>2, <1>3, <1>4, <1>5 DEF Running

(* serialized does what it promises: every step of tickets and promises is *)
(* a step of a first-in first-out queue that runs one call at a time, or   *)
(* none at all.                                                            *)
THEOREM GateIsAQueue == Spec => Promised!Init /\ [][Promised!Next]_(Promised!vars)
<1>1. Init => Promised!Init
  <2> SUFFICES ASSUME Init PROVE Promised!Init
    OBVIOUS
  <2>1. Pending = 0 /\ ~Running
    BY DEF Init, Pending, Running
  <2>2. Queue = <<>>
    BY <2>1 DEF Queue
  <2> QED BY <2>1, <2>2 DEF Promised!Init, Queue, Running
<1>2. GateInv /\ GateInv' /\ [Next]_vars => [Promised!Next]_(Promised!vars)
  <2> SUFFICES ASSUME GateInv, GateInv', [Next]_vars
               PROVE  Promised!Next \/ (Queue' = Queue /\ Running' = Running)
    BY DEF Promised!vars, Queue, Running
  <2>1. ASSUME NEW c \in Callers, Submit(c) PROVE Promised!Enter({c})
    BY <2>1, SubmitEnters DEF Promised!Enter, Promised!Waiting, Queue, Running
  <2>2. ASSUME NEW c \in Callers, Begin(c) PROVE Promised!Start
    BY <2>2, BeginStarts DEF Promised!Start, Queue, Running
  <2>3. ASSUME NEW c \in Callers, Finish(c) PROVE Promised!Leave
    BY <2>3, FinishLeaves DEF Promised!Leave, Queue, Running
  <2>4. ASSUME NEW c \in Callers, Bind(c) \/ Resolve(c)
        PROVE  Queue' = Queue /\ Running' = Running
    <3>1. \A d \in Callers : (Admitted(d)' <=> Admitted(d))
                              /\ (pc'[d] = "running" <=> pc[d] = "running")
      BY <2>4 DEF Bind, Resolve, Admitted, GateInv, TypeOK
    <3>2. UNCHANGED <<issued, finished, ticket>>
      BY <2>4 DEF Bind, Resolve
    <3> QED BY <3>1, <3>2, QueueStays DEF Running
  <2>5. CASE UNCHANGED vars
    <3>1. Queue' = Queue
      BY <2>5, QueueStays DEF vars, Admitted
    <3> QED BY <2>5, <3>1 DEF vars, Running
  <2> QED BY <2>1, <2>2, <2>3, <2>4, <2>5 DEF Next, Task, Promised!Next
<1> QED BY <1>1, <1>2, GateInvariant, PTL DEF Spec
=============================================================================
