------------------------ MODULE ClientSessionProofs ------------------------
(***************************************************************************)
(* Proofs, for any number of calls, chunks, retries, duplicates, sizes and *)
(* any network behaviour of the model.                                     *)
(*                                                                         *)
(* 1. The session's separate references agree and every request fits the   *)
(*    PDU length of its connection.  Both rest on what is known of the     *)
(*    running operation at each of its waits (SessionInv): which size it   *)
(*    was planned for, and that the PDU length of a client only grows,     *)
(*    because a session with a smaller one is dropped.                     *)
(* 2. A mutating request takes effect at most once unless the caller       *)
(*    allowed its repetition, no request is left unanswered on an open     *)
(*    connection, and mutations are not overtaken.  EffectInv follows the  *)
(*    identifiers of requests: they belong to calls that were admitted,    *)
(*    those of a call that has not returned to the one that runs, and to   *)
(*    sends it has made.                                                   *)
(* 3. What a failed write reports of its requests is what happened to      *)
(*    them.  ProgressInv relates the identifiers to the record of attempts *)
(*    the write keeps, to the replies that await it, and to the reports of *)
(*    the writes that returned.                                            *)
(* 4. No reply is taken for the answer to another request.                 *)
(*    CorrelationInv says what carries which reference.                    *)
(* 5. The session uses the gate exactly as SerialQueue offers it.          *)
(***************************************************************************)
EXTENDS ClientSession, FiniteSetTheorems, FunctionTheorems, SequenceTheorems, DataInduction, TLAPS

-----------------------------------------------------------------------------
(* 1. The session                                                          *)

Message == [id : Ids, reference : References, size : Nat]
Reply   == [id : Ids, reference : References,
            status : {"ok", "rejected", "malformed", "garbled"}]

RunState ==
    [chunk : Nat, chunks : Nat, planned : Nat, reference : References,
     retries : 0 .. ReconnectRetries, reconnectFirst : BOOLEAN, attempted : BOOLEAN,
     allowance : 0 .. MaxStaleResponses, expired : BOOLEAN, sends : Nat]

(* What TypeOK does not say.                                               *)
TypesHold ==
    /\ TypeOK
    /\ kind \in [Ops -> OpKinds \union {"none"}]
    /\ reference \in [Ops -> References]
    /\ size \in [Ops -> Nat]
    /\ run \in RunState
    /\ toPlc \in Seq(Message) /\ toClient \in Seq(Reply) /\ stray \subseteq Message

(* The gate holds each call once, and only calls that were admitted.       *)
QueueHolds ==
    /\ queue \in Seq(Ops)
    /\ pc # "idle" => queue # <<>>
    /\ \A i \in 1 .. Len(queue) : phase[queue[i]] = "queued"
    /\ \A i, j \in 1 .. Len(queue) : queue[i] = queue[j] => i = j

Exchanging == {"attempt", "adopt", "send", "receive"}

(* Chunks are numbered, later ones get no retry, and every send but the    *)
(* first of a chunk has cost a retry.                                      *)
RunHolds ==
    /\ pc \notin {"idle", "disconnecting"} =>
          /\ run.chunk \in 1 .. MaxChunks + 1 /\ run.chunk <= run.chunks
          /\ run.chunks <= MaxChunks + 1
          /\ run.sends <= ReconnectRetries + run.chunk
    /\ pc = "chunk" => run.sends < ReconnectRetries + run.chunk /\ (run.chunk = 1 => run.sends = 0)
    /\ pc \in Exchanging => (run.chunk # 1 => run.retries = 0)
    /\ pc \in Exchanging \ {"receive"} =>
          /\ run.sends < ReconnectRetries + run.chunk
          /\ run.chunk = 1 => run.sends + run.retries <= ReconnectRetries
    /\ pc = "receive" /\ run.chunk = 1 => run.sends + run.retries <= ReconnectRetries + 1

(* A request was planned for a PDU length that the client still has.       *)
PlansHold ==
    /\ \A o \in Ops :
          kind[o] \in {"raw", "control"} /\ phase[o] \in {"prepared", "queued"}
              => size[o] <= pduLength
    /\ pc \in Exchanging => run.planned <= pduLength
    /\ \A o \in Ops : phase[o] \in {"prepared", "queued"} => kind[o] # "none"
    /\ pc = "chunk" => \/ Chunked(kind[Running])
                       \/ kind[Running] \in {"raw", "control"} /\ run.planned = size[Running]
    /\ pc \in Exchanging \union {"chunk"} => Chunked(kind[Running]) \/ run.chunks = 1

(* The state of the session, the connection and the wire.                  *)
ConnectionHolds ==
    /\ connection # NoConnection <=> lifecycle = "connected"
    /\ connection # NoConnection => pduLength <= connection
    /\ pc = "adopt" => connection # NoConnection
    /\ connection = NoConnection => toPlc = <<>> /\ toClient = <<>>
    /\ RequestsFit

SessionInv == TypesHold /\ QueueHolds /\ RunHolds /\ PlansHold /\ ConnectionHolds

-----------------------------------------------------------------------------
(* Sequences as wires                                                      *)

(* What is on a wire after a message was added or taken.                   *)
LEMMA WireContents ==
  ASSUME NEW S, NEW wire \in Seq(S)
  PROVE  /\ Messages(<<>>) = {}
         /\ Messages(wire) \subseteq S
         /\ \A m \in S : Append(wire, m) \in Seq(S)
                         /\ Messages(Append(wire, m)) = Messages(wire) \union {m}
         /\ wire # <<>> => /\ Head(wire) \in Messages(wire) /\ Head(wire) \in S
                           /\ Tail(wire) \in Seq(S)
                           /\ Messages(Tail(wire)) \subseteq Messages(wire)
<1>1. Messages(<<>>) = {} /\ Messages(wire) \subseteq S
  BY DEF Messages
<1>2. ASSUME NEW m \in S
      PROVE  Append(wire, m) \in Seq(S) /\ Messages(Append(wire, m)) = Messages(wire) \union {m}
  <2>1. /\ Append(wire, m) \in Seq(S) /\ Len(Append(wire, m)) = Len(wire) + 1
        /\ \A i \in 1 .. Len(wire) : Append(wire, m)[i] = wire[i]
        /\ Append(wire, m)[Len(wire) + 1] = m
    OBVIOUS
  <2>2. Len(wire) \in Nat
    OBVIOUS
  <2>3. /\ DOMAIN wire = 1 .. Len(wire)
        /\ DOMAIN Append(wire, m) = 1 .. Len(wire) + 1
        /\ 1 .. Len(wire) + 1 = (1 .. Len(wire)) \union {Len(wire) + 1}
    BY <2>1, <2>2
  <2> QED BY <2>1, <2>2, <2>3 DEF Messages
<1>3. ASSUME wire # <<>>
      PROVE  /\ Head(wire) \in Messages(wire) /\ Head(wire) \in S
             /\ Tail(wire) \in Seq(S) /\ Messages(Tail(wire)) \subseteq Messages(wire)
  <2>1. /\ Tail(wire) \in Seq(S) /\ Len(Tail(wire)) = Len(wire) - 1 /\ Len(wire) \in Nat \ {0}
        /\ \A i \in 1 .. Len(wire) - 1 : Tail(wire)[i] = wire[i + 1]
        /\ Head(wire) = wire[1]
    BY <1>3
  <2>2. DOMAIN wire = 1 .. Len(wire) /\ DOMAIN Tail(wire) = 1 .. Len(wire) - 1
    BY <2>1
  <2> QED BY <2>1, <2>2 DEF Messages
<1> QED BY <1>1, <1>2, <1>3

(* The call that runs is one that was admitted.                            *)
LEMMA RunningCall ==
  ASSUME SessionInv, queue # <<>>
  PROVE  /\ Running \in Ops /\ phase[Running] = "queued" /\ Running = queue[1]
         /\ Tail(queue) \in Seq(Ops) /\ Len(Tail(queue)) = Len(queue) - 1
         /\ \A i \in 1 .. Len(queue) - 1 : Tail(queue)[i] = queue[i + 1]
         /\ \A i \in 1 .. Len(queue) - 1 : Tail(queue)[i] # Running
  BY DEF SessionInv, QueueHolds, Running

(* A session begins connected, with nothing asked.                         *)
LEMMA SessionInvInit == Init => SessionInv
<1> SUFFICES ASSUME Init PROVE SessionInv
  OBVIOUS
<1> USE SessionAssumption, ReferenceModulusAssumption DEF Init
<1>1. TypesHold
  <2>1. 0 \in References /\ NoRun \in RunState
    BY DEF References, NoRun, RunState
  <2>2. toPlc \in Seq(Message) /\ toClient \in Seq(Reply) /\ stray \subseteq Message
    OBVIOUS
  <2>3. {m.id : m \in Messages(toPlc) \union stray} \subseteq Ids
    BY DEF Messages
  <2>4. TypeOK
    BY <2>1, <2>3 DEF TypeOK, LifecycleStates, Pcs, NoRun, RunState
  <2> QED BY <2>1, <2>2, <2>4 DEF TypesHold
<1>2. QueueHolds /\ RunHolds
  BY DEF QueueHolds, RunHolds, Exchanging
<1>3. PlansHold
  BY DEF PlansHold, Exchanging
<1>4. ConnectionHolds
  BY DEF ConnectionHolds, RequestsFit, Messages, NoConnection
<1> QED BY <1>1, <1>2, <1>3, <1>4 DEF SessionInv

-----------------------------------------------------------------------------
(* Calls                                                                   *)

(* Entering the queue appends a call that is not in it.                    *)
LEMMA EnterAppends ==
  ASSUME SessionInv, NEW o \in Ops, Gate!Enter(o), phase[o] # "queued",
         phase' = [phase EXCEPT ![o] = "queued"], UNCHANGED pc
  PROVE  /\ QueueHolds'
         /\ phase' \in [Ops -> {"new", "prepared", "queued", "done"}]
         /\ queue # <<>> => Running' = Running
<1> DEFINE n == Len(queue)
<1>1. /\ queue' = Append(queue, o) /\ queue \in Seq(Ops) /\ n \in Nat
      /\ queue' \in Seq(Ops) /\ Len(queue') = n + 1 /\ queue'[n + 1] = o
      /\ \A i \in 1 .. n : queue'[i] = queue[i]
  BY DEF SessionInv, QueueHolds, Gate!Enter
<1>2. /\ phase' \in [Ops -> {"new", "prepared", "queued", "done"}]
      /\ phase'[o] = "queued" /\ \A p \in Ops : p # o => phase'[p] = phase[p]
  BY DEF SessionInv, TypesHold, TypeOK
<1>3. \A i \in 1 .. n : queue[i] \in Ops /\ phase[queue[i]] = "queued" /\ queue[i] # o
  BY <1>1 DEF SessionInv, QueueHolds
<1>4. QueueHolds'
  <2>1. queue' # <<>>
    BY <1>1
  <2>2. \A i \in 1 .. n + 1 : phase'[queue'[i]] = "queued"
    BY <1>1, <1>2, <1>3
  <2>3. ASSUME NEW i \in 1 .. n + 1, NEW j \in 1 .. n + 1, queue'[i] = queue'[j] PROVE i = j
    BY <2>3, <1>1, <1>3 DEF SessionInv, QueueHolds
  <2> QED BY <1>1, <2>1, <2>2, <2>3 DEF QueueHolds
<1>5. queue # <<>> => Running' = Running
  BY <1>1 DEF Running
<1> QED BY <1>2, <1>4, <1>5

(* What a thread does before its call is admitted: it takes a reference or *)
(* a size, and the PDU length it compares with can only grow afterwards.   *)
LEMMA CallerKeepsSessionInv ==
  ASSUME SessionInv, NEW o \in Ops, Caller(o)
  PROVE  SessionInv'
<1> USE SessionAssumption, ReferenceModulusAssumption DEF SessionInv
<1>1. CASE CallGated(o)
  <2>1. phase[o] = "new" /\ phase' = [phase EXCEPT ![o] = "queued"] /\ Gate!Enter(o)
        /\ UNCHANGED <<clientVars, nextReference, reference, size, report, runVars, netVars>>
        /\ \E k \in OpKinds \ {"control", "raw"} : kind' = [kind EXCEPT ![o] = k]
    BY <1>1 DEF CallGated
  <2>2. /\ QueueHolds' /\ phase' \in [Ops -> {"new", "prepared", "queued", "done"}]
        /\ queue # <<>> => Running' = Running
    BY <2>1, EnterAppends DEF runVars
  <2>3. TypesHold'
    BY <2>1, <2>2 DEF TypesHold, TypeOK, clientVars, runVars, netVars, Messages
  <2>4. RunHolds' /\ ConnectionHolds'
    BY <2>1 DEF RunHolds, ConnectionHolds, RequestsFit, Messages, clientVars, runVars, netVars
  <2>5. PlansHold'
    <3>1. \A p \in Ops : p # o => kind'[p] = kind[p] /\ phase'[p] = phase[p]
      BY <2>1 DEF TypesHold, TypeOK
    <3>2. kind'[o] \notin {"raw", "control", "none"}
      BY <2>1 DEF TypesHold, OpKinds
    <3>3. pc # "idle" => Running \in Ops /\ Running # o /\ Running' = Running
      BY <2>1, <2>2, RunningCall DEF QueueHolds
    <3> QED BY <2>1, <3>1, <3>2, <3>3 DEF PlansHold, Exchanging, clientVars, runVars
  <2> QED BY <2>2, <2>3, <2>4, <2>5
<1>2. CASE PrepareControl(o) \/ PrepareRaw(o)
  <2>1. /\ phase[o] = "new" /\ UNCHANGED <<clientVars, queue, runVars, netVars>>
        /\ \E k \in {"control", "raw"} : kind' = [kind EXCEPT ![o] = k]
        /\ \E s \in Nat : /\ size' = [size EXCEPT ![o] = s]
                          /\ \/ s <= pduLength /\ phase' = [phase EXCEPT ![o] = "prepared"]
                             \/ phase' = [phase EXCEPT ![o] = "done"]
        /\ \E r \in References : reference' = [reference EXCEPT ![o] = r]
        /\ nextReference' \in References
    <3>1. pduLength \in PduLengths /\ PduLengths \subseteq Nat \ {0} /\ nextReference \in References
      BY DEF TypesHold, TypeOK
    <3>2. CASE PrepareControl(o)
      <4>1. NextReference(nextReference) \in References
        BY <3>1 DEF NextReference, References
      <4>2. 1 \in Nat /\ 1 <= pduLength
        BY <3>1
      <4> QED BY <3>1, <3>2, <4>1, <4>2 DEF PrepareControl
    <3>3. CASE PrepareRaw(o)
      <4>1. PICK s \in PduLengths :
               /\ size' = [size EXCEPT ![o] = s]
               /\ IF s > pduLength
                  THEN phase' = [phase EXCEPT ![o] = "done"]
                  ELSE phase' = [phase EXCEPT ![o] = "prepared"]
        BY <3>3 DEF PrepareRaw
      <4>2. s \in Nat /\ pduLength \in Nat
        BY <3>1
      <4>3. \/ s <= pduLength /\ phase' = [phase EXCEPT ![o] = "prepared"]
            \/ phase' = [phase EXCEPT ![o] = "done"]
        BY <4>1, <4>2
      <4> QED BY <3>1, <3>3, <4>1, <4>2, <4>3 DEF PrepareRaw
    <3> QED BY <1>2, <3>2, <3>3
  <2>2. /\ phase' \in [Ops -> {"new", "prepared", "queued", "done"}]
        /\ \A p \in Ops : p # o => /\ phase'[p] = phase[p] /\ kind'[p] = kind[p]
                                   /\ size'[p] = size[p]
        /\ phase'[o] # "queued"
    BY <2>1 DEF TypesHold, TypeOK
  <2>3. TypesHold'
    BY <2>1, <2>2 DEF TypesHold, TypeOK, OpKinds, clientVars, runVars, netVars, Messages
  <2>4. QueueHolds'
    <3>1. \A i \in 1 .. Len(queue) : queue[i] \in Ops /\ queue[i] # o
      BY <2>1 DEF QueueHolds
    <3> QED BY <2>1, <2>2, <3>1 DEF QueueHolds, runVars
  <2>5. RunHolds' /\ ConnectionHolds'
    BY <2>1 DEF RunHolds, ConnectionHolds, RequestsFit, Messages, clientVars, runVars, netVars
  <2>6. PlansHold'
    <3>1. pc # "idle" => Running \in Ops /\ Running # o /\ Running' = Running
      BY <2>1, RunningCall DEF QueueHolds, Running
    <3>2. (size'[o] <= pduLength \/ phase'[o] = "done") /\ kind'[o] # "none"
      BY <2>1 DEF TypesHold, TypeOK
    <3> QED BY <2>1, <2>2, <3>1, <3>2 DEF PlansHold, Exchanging, clientVars, runVars
  <2> QED BY <2>3, <2>4, <2>5, <2>6
<1>3. CASE EnterGate(o)
  <2>1. phase[o] = "prepared" /\ phase' = [phase EXCEPT ![o] = "queued"] /\ Gate!Enter(o)
        /\ UNCHANGED <<clientVars, nextReference, kind, reference, size, report, runVars, netVars>>
    BY <1>3 DEF EnterGate
  <2>2. /\ QueueHolds' /\ phase' \in [Ops -> {"new", "prepared", "queued", "done"}]
        /\ queue # <<>> => Running' = Running
    BY <2>1, EnterAppends DEF runVars
  <2>3. TypesHold'
    BY <2>1, <2>2 DEF TypesHold, TypeOK, clientVars, runVars, netVars, Messages
  <2>4. RunHolds' /\ ConnectionHolds'
    BY <2>1 DEF RunHolds, ConnectionHolds, RequestsFit, Messages, clientVars, runVars, netVars
  <2>5. PlansHold'
    <3>1. \A p \in Ops : p # o => phase'[p] = phase[p]
      BY <2>1 DEF TypesHold, TypeOK
    <3> QED BY <2>1, <2>2, <3>1 DEF PlansHold, QueueHolds, Exchanging, clientVars, runVars
  <2> QED BY <2>2, <2>3, <2>4, <2>5
<1> QED BY <1>1, <1>2, <1>3 DEF Caller

-----------------------------------------------------------------------------
(* Steps of the running operation                                          *)

(* Typed wires carry requests with identifiers of the model.               *)
LEMMA WiresTyped ==
  ASSUME NEW wire \in Seq(Message), NEW loose \in SUBSET Message
  PROVE  {m.id : m \in Messages(wire) \union loose} \subseteq Ids
<1>1. Messages(wire) \subseteq Message
  BY WireContents
<1> QED BY <1>1 DEF Message

(* Giving up the connection leaves nothing on the wire.                    *)
LEMMA DropWireTypes ==
  ASSUME SessionInv, DropWire
  PROVE  /\ toPlc' = <<>> /\ toClient' = <<>> /\ stray' \subseteq Message
         /\ toPlc' \in Seq(Message) /\ toClient' \in Seq(Reply)
         /\ Messages(toPlc)' = {}
         /\ {m.id : m \in Messages(toPlc) \union stray}' \subseteq Ids
<1>1. Messages(toPlc) \subseteq Message /\ stray \subseteq Message
  BY WireContents DEF SessionInv, TypesHold
<1>2. /\ toPlc' = <<>> /\ toClient' = <<>> /\ stray' \subseteq Message
      /\ toPlc' \in Seq(Message) /\ toClient' \in Seq(Reply)
  BY <1>1 DEF DropWire
<1>3. Messages(toPlc)' = {}
  BY <1>2 DEF Messages
<1> QED BY <1>2, <1>3, WiresTyped

(* A transport that closes never leaves the lifecycle connected.           *)
LEMMA ClosedIsNotConnected ==
  ASSUME lifecycle \in LifecycleStates
  PROVE  /\ Transition(lifecycle, "transportClosed") \in {"closed", "disconnected"}
         /\ Transition(Transition(lifecycle, "transportClosed"), "disconnect") = "closed"
         /\ Transition(Transition(lifecycle, "transportClosed"), "reconnected")
               \in {"connected", Illegal}
  BY DEF LifecycleStates, Transition, Illegal

(* What a failed attempt leaves: no connection, and one retry less.        *)
LEMMA CatchKeepsSessionInv ==
  ASSUME SessionInv, pc \in Exchanging, NEW failure \in ErrorKinds, Catch(failure)
  PROVE  SessionInv'
<1> USE SessionAssumption DEF SessionInv
<1>1. /\ connection' = NoConnection /\ lifecycle' \in {"closed", "disconnected"} /\ DropWire
      /\ UNCHANGED <<pduLength, nextReference, queue, callVars, applied>>
  BY ClosedIsNotConnected DEF Catch, CloseCurrent, TypesHold, TypeOK
<1>2. /\ toPlc' = <<>> /\ toClient' = <<>> /\ stray' \subseteq Message
      /\ toPlc' \in Seq(Message) /\ toClient' \in Seq(Reply)
      /\ Messages(toPlc)' = {}
      /\ {m.id : m \in Messages(toPlc) \union stray}' \subseteq Ids
  BY <1>1, DropWireTypes
<1>3. \/ pc' = "failed" /\ error' = failure /\ run' = run
      \/ /\ pc' = "attempt" /\ error' = error
         /\ run.retries # 0
         /\ run' = [run EXCEPT !.retries = run.retries - 1, !.reconnectFirst = TRUE,
                               !.attempted = FALSE]
  BY DEF Catch, RetryBudgetAfter, NoRetry
<1>4. run.retries \in 0 .. ReconnectRetries /\ run \in RunState /\ ReconnectRetries \in Nat
  BY DEF TypesHold, RunState
<1>5. run' \in RunState
  <2>1. run.retries # 0 => run.retries - 1 \in 0 .. ReconnectRetries
    BY <1>4
  <2>2. TRUE \in BOOLEAN /\ FALSE \in BOOLEAN
    OBVIOUS
  <2>3. CASE run' = run
    BY <2>3, <1>4
  <2>4. CASE /\ run.retries # 0
             /\ run' = [run EXCEPT !.retries = run.retries - 1, !.reconnectFirst = TRUE,
                                   !.attempted = FALSE]
    <3> DEFINE left == run.retries - 1
    <3>1. left \in 0 .. ReconnectRetries
      BY <2>1, <2>4
    <3>2. run' = [run EXCEPT !.retries = left, !.reconnectFirst = TRUE, !.attempted = FALSE]
      BY <2>4
    <3> HIDE DEF left
    <3> QED BY <1>4, <3>1, <3>2 DEF RunState
  <2> QED BY <1>3, <2>3, <2>4
<1>6. Running' = Running /\ kind' = kind /\ phase' = phase /\ size' = size
      /\ reference' = reference
  BY <1>1 DEF Running, callVars
<1>7. TypesHold'
  <2>1. TypeOK'
    BY <1>1, <1>2, <1>3, <1>5, <1>6 DEF TypesHold, TypeOK, RunState, LifecycleStates, Pcs
  <2> QED BY <1>1, <1>2, <1>5, <1>6, <2>1 DEF TypesHold
<1>8. QueueHolds'
  BY <1>1, <1>6 DEF QueueHolds, Exchanging
<1>9. RunHolds'
  <2>1. CASE pc' = "failed" /\ run' = run
    BY <2>1 DEF RunHolds, Exchanging
  <2>2. CASE /\ pc' = "attempt" /\ run.retries # 0
             /\ run' = [run EXCEPT !.retries = run.retries - 1, !.reconnectFirst = TRUE,
                                   !.attempted = FALSE]
    <3>1. /\ run'.chunk = run.chunk /\ run'.chunks = run.chunks /\ run'.sends = run.sends
          /\ run'.retries = run.retries - 1
      BY <2>2, <1>4 DEF RunState
    <3>2. /\ run.chunk = 1 /\ run.chunk <= run.chunks /\ run.chunks <= MaxChunks + 1
          /\ run.sends + run.retries <= ReconnectRetries + 1
          /\ run.sends <= ReconnectRetries + run.chunk
          /\ run.sends \in Nat /\ MaxChunks \in Nat /\ run.retries \in Nat
      BY <2>2, <1>4 DEF RunHolds, Exchanging, RunState
    <3> QED BY <2>2, <1>4, <3>1, <3>2 DEF RunHolds, Exchanging
  <2> QED BY <1>3, <2>1, <2>2
<1>10. PlansHold'
  <2>1. run'.planned = run.planned /\ run'.chunks = run.chunks
    BY <1>3, <1>4 DEF RunState
  <2> QED BY <1>1, <1>3, <1>6, <2>1 DEF PlansHold, Exchanging
<1>11. ConnectionHolds'
  BY <1>1, <1>2, <1>3 DEF ConnectionHolds, RequestsFit
<1> QED BY <1>7, <1>8, <1>9, <1>10, <1>11

(* The gate starts the oldest call with a plan of this moment.             *)
LEMMA StartKeepsSessionInv ==
  ASSUME SessionInv, Start
  PROVE  SessionInv'
<1> USE SessionAssumption DEF SessionInv
<1>1. /\ pc = "idle" /\ queue # <<>>
      /\ pc' = IF kind[Running] = "disconnect" THEN "disconnecting" ELSE "chunk"
      /\ UNCHANGED <<connection, lifecycle, pduLength, nextReference, queue, callVars, error,
                     netVars>>
  BY DEF Start, Gate!Start
<1>2. PICK n \in 1 .. (IF Chunked(kind[Running]) THEN MaxChunks ELSE 1) :
        run' = [NoRun EXCEPT !.chunk = 1, !.chunks = n,
                             !.planned = IF Chunked(kind[Running]) THEN pduLength
                                         ELSE size[Running]]
  BY DEF Start
<1>3. Running \in Ops /\ phase[Running] = "queued"
  BY <1>1, RunningCall
<1>4. /\ pduLength \in Nat /\ size[Running] \in Nat /\ kind[Running] \in OpKinds
      /\ MaxChunks \in Nat /\ ReconnectRetries \in Nat
  BY <1>3 DEF TypesHold, TypeOK, PlansHold
<1>5. n \in Nat /\ 1 <= n /\ n <= MaxChunks + 1 /\ (~Chunked(kind[Running]) => n = 1)
  BY <1>2, <1>4
<1>6. run' \in RunState /\ run'.reference = 0
  <2> DEFINE plan == IF Chunked(kind[Running]) THEN pduLength ELSE size[Running]
  <2>1. plan \in Nat /\ run' = [NoRun EXCEPT !.chunk = 1, !.chunks = n, !.planned = plan]
    BY <1>2, <1>4
  <2>2. NoRun \in RunState /\ NoRun.reference = 0
    BY ReferenceModulusAssumption DEF NoRun, RunState, References
  <2> HIDE DEF plan
  <2> QED BY <1>5, <2>1, <2>2 DEF RunState
<1>7. /\ run'.chunk = 1 /\ run'.chunks = n /\ run'.sends = 0
      /\ run'.planned = IF Chunked(kind[Running]) THEN pduLength ELSE size[Running]
  BY <1>2 DEF NoRun
<1>8. Running' = Running /\ kind' = kind /\ phase' = phase /\ size' = size
      /\ reference' = reference /\ Messages(toPlc)' = Messages(toPlc)
  BY <1>1 DEF Running, callVars, netVars, Messages
<1>9. TypesHold'
  BY <1>1, <1>6, <1>8 DEF TypesHold, TypeOK, RunState, Pcs, netVars
<1>10. QueueHolds'
  BY <1>1, <1>8 DEF QueueHolds
<1>11. RunHolds'
  <2>1. /\ 1 \in 1 .. MaxChunks + 1 /\ 0 <= ReconnectRetries + 1 /\ 0 < ReconnectRetries + 1
    BY <1>4
  <2> QED BY <1>1, <1>5, <1>7, <2>1 DEF RunHolds, Exchanging
<1>12. PlansHold'
  <2>1. pc' = "chunk" => Chunked(kind[Running]) \/ kind[Running] \in {"raw", "control"}
    BY <1>1, <1>4 DEF OpKinds, Chunked
  <2> QED BY <1>1, <1>5, <1>7, <1>8, <2>1 DEF PlansHold, Exchanging
<1>13. ConnectionHolds'
  BY <1>1, <1>8 DEF ConnectionHolds, RequestsFit, netVars
<1> QED BY <1>9, <1>10, <1>11, <1>12, <1>13

(* A request is begun only for a size the session still has.               *)
LEMMA BeginExchangeKeepsSessionInv ==
  ASSUME SessionInv, BeginExchange
  PROVE  SessionInv'
<1> USE SessionAssumption DEF SessionInv
<1>1. /\ pc = "chunk" /\ UNCHANGED <<clientVars, queue, callVars, netVars>>
      /\ \/ pc' = "failed" /\ error' \in ErrorKinds
         \/ pc' = "attempt" /\ error' = error
            /\ (Chunked(kind[Running]) => run.planned <= pduLength)
      /\ run' = [run EXCEPT
                   !.reference = IF Chunked(kind[Running]) THEN nextReference
                                 ELSE reference[Running],
                   !.retries = RetriesFor(run.chunk),
                   !.reconnectFirst = FALSE, !.attempted = FALSE]
      /\ nextReference' \in {nextReference, NextReference(nextReference)}
  BY DEF BeginExchange, Raise, ErrorKinds
<1>2. /\ Running \in Ops /\ phase[Running] = "queued" /\ run \in RunState
      /\ ReconnectRetries \in Nat /\ MaxChunks \in Nat
  BY <1>1, RunningCall DEF QueueHolds, TypesHold
<1>3. nextReference' \in References /\ nextReference \in References
      /\ reference[Running] \in References
  BY <1>1, <1>2, ReferenceModulusAssumption, SMTT(30) DEF TypesHold, TypeOK, NextReference, References
<1>4. RetriesFor(run.chunk) \in 0 .. ReconnectRetries
      /\ (run.chunk # 1 => RetriesFor(run.chunk) = 0)
  BY <1>2 DEF RetriesFor
<1>5. /\ run' \in RunState /\ run'.chunk = run.chunk /\ run'.chunks = run.chunks
      /\ run'.sends = run.sends /\ run'.planned = run.planned
      /\ run'.retries = RetriesFor(run.chunk)
  <2> DEFINE r == IF Chunked(kind[Running]) THEN nextReference ELSE reference[Running]
             q == RetriesFor(run.chunk)
  <2>1. r \in References /\ q \in 0 .. ReconnectRetries
    BY <1>3, <1>4
  <2>2. run' = [run EXCEPT !.reference = r, !.retries = q, !.reconnectFirst = FALSE,
                           !.attempted = FALSE]
    BY <1>1
  <2>3. q = RetriesFor(run.chunk)
    OBVIOUS
  <2> HIDE DEF r, q
  <2> QED BY <1>2, <2>1, <2>2, <2>3 DEF RunState
<1>6. Running' = Running /\ kind' = kind /\ phase' = phase /\ size' = size
      /\ reference' = reference /\ Messages(toPlc)' = Messages(toPlc)
      /\ UNCHANGED <<connection, lifecycle, pduLength, toPlc, toClient, stray, applied>>
  BY <1>1 DEF Running, callVars, netVars, clientVars, Messages
<1>7. TypesHold'
  BY <1>1, <1>3, <1>5, <1>6 DEF TypesHold, TypeOK, RunState, Pcs
<1>8. QueueHolds'
  BY <1>1, <1>6 DEF QueueHolds
<1>9. RunHolds'
  BY <1>1, <1>2, <1>4, <1>5 DEF RunHolds, Exchanging, RunState
<1>10. PlansHold'
  <2>1. ~Chunked(kind[Running]) => run.planned <= pduLength
    BY <1>1, <1>2 DEF PlansHold
  <2> QED BY <1>1, <1>5, <1>6, <2>1 DEF PlansHold, Exchanging
<1>11. ConnectionHolds'
  BY <1>1, <1>6 DEF ConnectionHolds, RequestsFit
<1> QED BY <1>7, <1>8, <1>9, <1>10, <1>11

(* A session with a smaller PDU length is not adopted, so what was planned *)
(* before the reconnection still fits.                                     *)
LEMMA ReconnectKeepsSessionInv ==
  ASSUME SessionInv, Reconnect
  PROVE  SessionInv'
<1> USE SessionAssumption DEF SessionInv
<1>1. pc = "attempt" /\ pc \in Exchanging
  BY DEF Reconnect, Exchanging
<1>2. CASE \E failure \in ErrorKinds : Catch(failure)
  BY <1>1, <1>2, CatchKeepsSessionInv
<1>3. CASE \E negotiated \in PduLengths :
             /\ ~Shrinks(negotiated) /\ connection' = negotiated /\ lifecycle' = "connected"
             /\ DropWire /\ pc' = "adopt"
             /\ UNCHANGED <<pduLength, writeProgress, nextReference, queue, callVars,
                            error, run, applied, duplicates, crossed>>
  <2>1. /\ connection' \in PduLengths /\ connection' # NoConnection
        /\ pduLength <= connection'
    BY <1>3 DEF Shrinks, NoConnection, TypesHold, TypeOK
  <2>2. /\ toPlc' = <<>> /\ toClient' = <<>> /\ stray' \subseteq Message
        /\ toPlc' \in Seq(Message) /\ toClient' \in Seq(Reply)
        /\ Messages(toPlc)' = {}
        /\ {m.id : m \in Messages(toPlc) \union stray}' \subseteq Ids
    BY <1>3, DropWireTypes
  <2>3. Running' = Running /\ kind' = kind /\ phase' = phase /\ size' = size
        /\ reference' = reference
    BY <1>3 DEF Running, callVars
  <2>4. TypesHold'
    BY <1>3, <2>1, <2>2, <2>3 DEF TypesHold, TypeOK, LifecycleStates, Pcs
  <2>5. QueueHolds'
    BY <1>1, <1>3, <2>3 DEF QueueHolds
  <2>6. RunHolds' /\ PlansHold'
    BY <1>1, <1>3, <2>3 DEF RunHolds, PlansHold, Exchanging
  <2>7. ConnectionHolds'
    BY <1>3, <2>1, <2>2 DEF ConnectionHolds, RequestsFit
  <2> QED BY <2>4, <2>5, <2>6, <2>7
<1>4. {"protocol", "lifecycle"} \subseteq ErrorKinds
  BY DEF ErrorKinds
<1>5. Transition(Transition(lifecycle, "transportClosed"), "reconnected") \in {"connected", Illegal}
  BY ClosedIsNotConnected DEF TypesHold, TypeOK
<1> QED BY <1>2, <1>3, <1>4, <1>5 DEF Reconnect

(* The PDU length only grows.                                              *)
LEMMA AdoptKeepsSessionInv ==
  ASSUME SessionInv, AdoptPduLength
  PROVE  SessionInv'
<1> USE SessionAssumption DEF SessionInv
<1>1. /\ pc = "adopt" /\ pc' = "send" /\ pduLength' = connection
      /\ UNCHANGED <<connection, lifecycle, nextReference, queue, callVars, error, run, netVars>>
  BY DEF AdoptPduLength
<1>2. /\ connection \in PduLengths /\ pduLength \in PduLengths /\ connection # NoConnection
      /\ pduLength <= connection
  BY <1>1 DEF TypesHold, TypeOK, ConnectionHolds
<1>3. Running' = Running /\ kind' = kind /\ phase' = phase /\ size' = size
      /\ reference' = reference /\ Messages(toPlc)' = Messages(toPlc)
  BY <1>1 DEF Running, callVars, netVars, Messages
<1>4. TypesHold' /\ QueueHolds' /\ RunHolds'
  BY <1>1, <1>2, <1>3 DEF TypesHold, TypeOK, Pcs, netVars, QueueHolds, RunHolds, Exchanging
<1>5. PlansHold'
  <2>1. /\ run.planned \in Nat /\ \A o \in Ops : size[o] \in Nat
        /\ pduLength \in Nat /\ connection \in Nat
    BY <1>2 DEF TypesHold, RunState
  <2>2. run.planned <= pduLength'
    BY <1>1, <1>2, <2>1 DEF PlansHold, Exchanging
  <2>3. \A o \in Ops : size[o] <= pduLength => size[o] <= pduLength'
    BY <1>1, <1>2, <2>1
  <2> QED BY <1>1, <1>3, <2>2, <2>3 DEF PlansHold, Exchanging
<1>6. ConnectionHolds'
  BY <1>1, <1>2, <1>3 DEF ConnectionHolds, RequestsFit, netVars
<1> QED BY <1>4, <1>5, <1>6

(* The request that is sent was planned for at most the PDU length of the  *)
(* connection it is sent on.                                               *)
LEMMA SendKeepsSessionInv ==
  ASSUME SessionInv, Send
  PROVE  SessionInv'
<1> USE SessionAssumption DEF SessionInv
<1>1. pc \in Exchanging \ {"receive"} /\ pc \in Exchanging
  BY DEF Send, Exchanging
<1>2. CASE \E failure \in ErrorKinds : Catch(failure)
  BY <1>1, <1>2, CatchKeepsSessionInv
<1>3. CASE /\ connection # NoConnection /\ pc' = "receive"
           /\ toPlc' = Append(toPlc, [id |-> <<Running, run.chunk, run.sends + 1>>,
                                      reference |-> run.reference, size |-> run.planned])
           /\ run' = [run EXCEPT !.sends = run.sends + 1, !.attempted = TRUE,
                                 !.allowance = MaxStaleResponses]
           /\ UNCHANGED <<connection, lifecycle, pduLength, nextReference, queue, callVars,
                          error, toClient, stray, applied>>
  <2> DEFINE sent == [id |-> <<Running, run.chunk, run.sends + 1>>,
                      reference |-> run.reference, size |-> run.planned]
  <2>1. /\ Running \in Ops /\ run \in RunState /\ MaxChunks \in Nat /\ ReconnectRetries \in Nat
        /\ MaxStaleResponses \in Nat
    BY <1>1, RunningCall DEF QueueHolds, TypesHold, Exchanging
  <2>2. /\ run.chunk \in 1 .. MaxChunks + 1 /\ run.chunk <= run.chunks
        /\ run.chunks <= MaxChunks + 1 /\ run.sends < ReconnectRetries + run.chunk
        /\ run.chunk = 1 => run.sends + run.retries <= ReconnectRetries
        /\ run.chunk # 1 => run.retries = 0
    BY <1>1 DEF RunHolds, Exchanging
  <2>3. run.sends + 1 \in 1 .. MaxChunks + 1 + ReconnectRetries
    BY <2>1, <2>2 DEF RunState
  <2>4. sent \in Message
    BY <2>1, <2>2, <2>3 DEF Message, Ids, RunState
  <2>5. toPlc' \in Seq(Message) /\ Messages(toPlc)' = Messages(toPlc) \union {sent}
    <3>1. toPlc \in Seq(Message) /\ toPlc' = Append(toPlc, sent)
      BY <1>3 DEF TypesHold
    <3> HIDE DEF sent
    <3> QED BY <2>4, <3>1, WireContents
  <2>6. /\ run' \in RunState /\ run'.chunk = run.chunk /\ run'.chunks = run.chunks
        /\ run'.sends = run.sends + 1 /\ run'.retries = run.retries
        /\ run'.planned = run.planned
    <3> DEFINE s == run.sends + 1
    <3>1. s \in Nat /\ MaxStaleResponses \in 0 .. MaxStaleResponses
      BY <2>1 DEF RunState
    <3>2. run' = [run EXCEPT !.sends = s, !.attempted = TRUE, !.allowance = MaxStaleResponses]
      BY <1>3
    <3>3. s = run.sends + 1
      OBVIOUS
    <3> HIDE DEF s
    <3> QED BY <2>1, <3>1, <3>2, <3>3 DEF RunState
  <2>7. Running' = Running /\ kind' = kind /\ phase' = phase /\ size' = size
        /\ reference' = reference
    BY <1>3 DEF Running, callVars
  <2>8. TypesHold'
    <3>1. {m.id : m \in Messages(toPlc) \union stray}' \subseteq Ids
      BY <1>3, <2>5, WiresTyped DEF TypesHold
    <3> QED BY <1>3, <2>5, <2>6, <2>7, <3>1 DEF TypesHold, TypeOK, RunState, Pcs
  <2>9. QueueHolds'
    BY <1>1, <1>3, <2>7 DEF QueueHolds, Exchanging
  <2>10. RunHolds'
    <3>1. run.sends + 1 <= ReconnectRetries + run.chunk
      BY <2>1, <2>2 DEF RunState
    <3>2. run.chunk = 1 => run.sends + 1 + run.retries <= ReconnectRetries + 1
      BY <2>1, <2>2 DEF RunState
    <3> QED BY <1>3, <2>2, <2>6, <3>1, <3>2 DEF RunHolds, Exchanging
  <2>11. PlansHold'
    BY <1>1, <1>3, <2>6, <2>7 DEF PlansHold, Exchanging
  <2>12. ConnectionHolds'
    <3>1. /\ run.planned <= pduLength /\ pduLength <= connection
          /\ run.planned \in Nat /\ pduLength \in Nat /\ connection \in Nat
      BY <1>1, <1>3, <2>1 DEF PlansHold, ConnectionHolds, TypesHold, TypeOK, RunState
    <3>2. sent.size <= connection
      BY <3>1
    <3>3. RequestsFit'
      BY <1>3, <2>5, <3>2 DEF RequestsFit, ConnectionHolds
    <3> QED BY <1>3, <3>3 DEF ConnectionHolds
  <2> QED BY <2>8, <2>9, <2>10, <2>11, <2>12
<1>4. {"disconnected", "protocol"} \subseteq ErrorKinds
  BY DEF ErrorKinds
<1> QED BY <1>2, <1>3, <1>4 DEF Send

(* A reply is skipped, ends a chunk, ends the operation or fails it.       *)
LEMMA ReceiveKeepsSessionInv ==
  ASSUME SessionInv, Receive
  PROVE  SessionInv'
<1> USE SessionAssumption DEF SessionInv
<1>1. pc = "receive" /\ pc \in Exchanging /\ toClient # <<>>
  BY DEF Receive, Exchanging
<1>2. CASE Catch("protocol")
  BY <1>1, <1>2, CatchKeepsSessionInv DEF ErrorKinds
<1>3. CASE /\ toClient' = Tail(toClient)
           /\ UNCHANGED <<connection, lifecycle, pduLength, nextReference, queue, callVars,
                          toPlc, stray, applied>>
           /\ \/ /\ run.allowance # 0 /\ run' = [run EXCEPT !.allowance = run.allowance - 1]
                 /\ pc' = pc /\ error' = error
              \/ /\ run.chunk < run.chunks /\ pc' = "chunk" /\ error' = error
                 /\ run' = [run EXCEPT !.chunk = run.chunk + 1]
              \/ pc' = "succeeded" /\ run' = run /\ error' = error
              \/ pc' = "failed" /\ run' = run /\ error' \in {"plcRejected", "protocol"}
  <2>1. /\ Running \in Ops /\ run \in RunState /\ MaxChunks \in Nat /\ ReconnectRetries \in Nat
        /\ MaxStaleResponses \in Nat
    BY <1>1, RunningCall DEF QueueHolds, TypesHold, Exchanging
  <2>2. /\ run.chunk \in 1 .. MaxChunks + 1 /\ run.chunk <= run.chunks
        /\ run.chunks <= MaxChunks + 1 /\ run.sends <= ReconnectRetries + run.chunk
        /\ run.chunk # 1 => run.retries = 0
        /\ run.chunk = 1 => run.sends + run.retries <= ReconnectRetries + 1
    BY <1>1 DEF RunHolds, Exchanging
  <2>3. toClient' \in Seq(Reply)
    BY <1>1, <1>3, WireContents DEF TypesHold
  <2>4. Running' = Running /\ kind' = kind /\ phase' = phase /\ size' = size
        /\ reference' = reference /\ Messages(toPlc)' = Messages(toPlc)
    BY <1>3 DEF Running, callVars, Messages
  <2>5. connection # NoConnection
    BY <1>1 DEF ConnectionHolds
  <2>6. /\ run' \in RunState /\ run'.chunks = run.chunks /\ run'.sends = run.sends
        /\ run'.retries = run.retries /\ run'.planned = run.planned
        /\ run'.chunk = IF pc' = "chunk" THEN run.chunk + 1 ELSE run.chunk
        /\ pc' = "chunk" => run.chunk < run.chunks
    <3>1. CASE /\ run.allowance # 0 /\ run' = [run EXCEPT !.allowance = run.allowance - 1]
               /\ pc' = pc
      <4> DEFINE a == run.allowance - 1
      <4>1. a \in 0 .. MaxStaleResponses
        BY <2>1, <3>1 DEF RunState
      <4>2. run' = [run EXCEPT !.allowance = a]
        BY <3>1
      <4> HIDE DEF a
      <4> QED BY <1>1, <2>1, <3>1, <4>1, <4>2 DEF RunState
    <3>2. CASE /\ run.chunk < run.chunks /\ pc' = "chunk"
               /\ run' = [run EXCEPT !.chunk = run.chunk + 1]
      <4> DEFINE c == run.chunk + 1
      <4>1. c \in Nat /\ c = run.chunk + 1
        BY <2>1 DEF RunState
      <4>2. run' = [run EXCEPT !.chunk = c]
        BY <3>2
      <4> HIDE DEF c
      <4> QED BY <2>1, <3>2, <4>1, <4>2 DEF RunState
    <3>3. CASE pc' \in {"succeeded", "failed"} /\ run' = run
      BY <2>1, <3>3
    <3> QED BY <1>3, <3>1, <3>2, <3>3
  <2>7. pc' \in {"receive", "chunk", "succeeded", "failed"}
    BY <1>1, <1>3
  <2>8. TypesHold'
    <3>1. error' \in ErrorKinds \union {"none"} /\ pc' \in Pcs
      BY <1>3, <2>7 DEF TypesHold, TypeOK, ErrorKinds, Pcs
    <3> QED BY <1>3, <2>3, <2>4, <2>6, <3>1 DEF TypesHold, TypeOK, RunState
  <2>9. QueueHolds'
    BY <1>1, <1>3, <2>4 DEF QueueHolds
  <2>10. RunHolds'
    <3>1. /\ run.chunk \in Nat /\ run.chunks \in Nat /\ run.sends \in Nat
      BY <2>1 DEF RunState
    <3>2. CASE pc' = "chunk"
      <4>1. /\ run.chunk + 1 \in 1 .. MaxChunks + 1 /\ run.chunk + 1 <= run.chunks
            /\ run.sends <= ReconnectRetries + (run.chunk + 1)
            /\ run.sends < ReconnectRetries + (run.chunk + 1) /\ run.chunk + 1 # 1
        BY <2>1, <2>2, <2>6, <3>1, <3>2
      <4> QED BY <2>2, <2>6, <3>2, <4>1 DEF RunHolds, Exchanging
    <3>3. CASE pc' # "chunk"
      BY <2>2, <2>6, <2>7, <3>3 DEF RunHolds, Exchanging
    <3> QED BY <3>2, <3>3
  <2>11. PlansHold'
    <3>1. pc' = "chunk" => Chunked(kind[Running])
      BY <1>1, <2>1, <2>2, <2>6 DEF PlansHold, RunState
    <3>2. run.planned <= pduLength /\ (Chunked(kind[Running]) \/ run.chunks = 1)
      BY <1>1 DEF PlansHold
    <3> QED BY <1>3, <2>4, <2>6, <2>7, <3>1, <3>2 DEF PlansHold, Exchanging
  <2>12. ConnectionHolds'
    BY <1>3, <2>4, <2>5, <2>7 DEF ConnectionHolds, RequestsFit
  <2> QED BY <2>8, <2>9, <2>10, <2>11, <2>12
<1>4. SUFFICES ASSUME ~Catch("protocol") PROVE SessionInv'
  BY <1>2
<1>5. /\ toClient' = Tail(toClient)
      /\ UNCHANGED <<connection, lifecycle, pduLength, nextReference, queue, callVars,
                     toPlc, stray, applied>>
      /\ \/ /\ CorrelationStep(run.reference, run.allowance, Head(toClient).reference) = "skipStale"
            /\ run' = [run EXCEPT !.allowance = run.allowance - 1]
            /\ pc' = pc /\ error' = error
         \/ Decoded(Head(toClient).status)
  BY <1>4 DEF Receive
<1>6. CorrelationStep(run.reference, run.allowance, Head(toClient).reference) = "skipStale"
        => run.allowance # 0
  BY DEF CorrelationStep
<1>7. Decoded(Head(toClient).status) =>
         \/ /\ run.chunk < run.chunks /\ pc' = "chunk" /\ error' = error
            /\ run' = [run EXCEPT !.chunk = run.chunk + 1]
         \/ pc' = "succeeded" /\ run' = run /\ error' = error
         \/ pc' = "failed" /\ run' = run /\ error' \in {"plcRejected", "protocol"}
  BY DEF Decoded
<1> QED BY <1>3, <1>5, <1>6, <1>7

(* The operation leaves the gate; its session stays as it is or is closed. *)
LEMMA ReturnKeepsSessionInv ==
  ASSUME SessionInv, pc # "idle", Return,
         \/ UNCHANGED <<connection, lifecycle, toPlc, toClient, stray>>
         \/ /\ connection' = NoConnection /\ lifecycle' \in {"closed", "disconnected"}
            /\ DropWire
  PROVE  SessionInv'
<1> USE SessionAssumption DEF SessionInv
<1>1. /\ pc' = "idle" /\ error' = "none" /\ run' = NoRun
      /\ phase' = [phase EXCEPT ![Running] = "done"] /\ queue' = Tail(queue)
      /\ UNCHANGED <<pduLength, nextReference, kind, reference, size, applied>>
  BY DEF Return, Gate!Leave
<1>2. queue # <<>> /\ Running \in Ops
      /\ Tail(queue) \in Seq(Ops) /\ Len(Tail(queue)) = Len(queue) - 1
      /\ \A i \in 1 .. Len(queue) - 1 : Tail(queue)[i] = queue[i + 1] /\ Tail(queue)[i] # Running
  BY RunningCall DEF QueueHolds
<1>3. /\ phase' \in [Ops -> {"new", "prepared", "queued", "done"}]
      /\ phase'[Running] = "done" /\ \A o \in Ops : o # Running => phase'[o] = phase[o]
  BY <1>1, <1>2 DEF TypesHold, TypeOK
<1>4. /\ toPlc' \in Seq(Message) /\ toClient' \in Seq(Reply) /\ stray' \subseteq Message
      /\ \/ /\ Messages(toPlc)' = Messages(toPlc)
            /\ UNCHANGED <<connection, lifecycle, toPlc, toClient>>
         \/ /\ Messages(toPlc)' = {} /\ connection' = NoConnection /\ toPlc' = <<>>
            /\ toClient' = <<>> /\ lifecycle' \in {"closed", "disconnected"}
  <2>1. CASE UNCHANGED <<connection, lifecycle, toPlc, toClient, stray>>
    BY <2>1 DEF TypesHold, Messages
  <2>2. CASE /\ connection' = NoConnection /\ lifecycle' \in {"closed", "disconnected"}
             /\ DropWire
    BY <2>2, DropWireTypes
  <2> QED BY <2>1, <2>2
<1>5. TypesHold'
  <2>1. NoRun \in RunState
    BY ReferenceModulusAssumption DEF NoRun, RunState, References
  <2>2. {m.id : m \in Messages(toPlc) \union stray}' \subseteq Ids
    BY <1>4, WiresTyped
  <2> QED BY <1>1, <1>3, <1>4, <2>1, <2>2
       DEF TypesHold, TypeOK, RunState, LifecycleStates, Pcs
<1>6. QueueHolds'
  <2>1. Len(queue) \in Nat
    BY DEF QueueHolds
  <2>2. \A i \in 1 .. Len(queue) - 1 : i + 1 \in 1 .. Len(queue)
    BY <2>1
  <2>3. \A i \in 1 .. Len(queue') : phase'[queue'[i]] = "queued"
    BY <1>1, <1>2, <1>3, <2>1, <2>2 DEF QueueHolds
  <2>4. \A i, j \in 1 .. Len(queue') : queue'[i] = queue'[j] => i = j
    BY <1>1, <1>2, <2>1, <2>2 DEF QueueHolds
  <2> QED BY <1>1, <1>2, <2>3, <2>4 DEF QueueHolds
<1>7. RunHolds'
  BY <1>1 DEF RunHolds, Exchanging
<1>8. PlansHold'
  BY <1>1, <1>2, <1>3 DEF PlansHold, Exchanging
<1>9. ConnectionHolds'
  BY <1>1, <1>4 DEF ConnectionHolds, RequestsFit
<1> QED BY <1>5, <1>6, <1>7, <1>8, <1>9

(* The deadline, the PLC and the network: none touches the session.        *)
LEMMA EnvironmentKeepsSessionInv ==
  ASSUME SessionInv, Environment
  PROVE  SessionInv'
<1> USE SessionAssumption DEF SessionInv
<1>1. CASE DeadlineExpires
  <2>1. /\ pc' = pc /\ run' = [run EXCEPT !.expired = TRUE]
        /\ UNCHANGED <<clientVars, nextReference, queue, callVars, error, netVars>>
    BY <1>1 DEF DeadlineExpires
  <2>2. /\ run' \in RunState /\ run'.chunks = run.chunks /\ run'.sends = run.sends
        /\ run'.retries = run.retries /\ run'.planned = run.planned /\ run'.chunk = run.chunk
    BY <2>1 DEF TypesHold, RunState
  <2>3. Running' = Running /\ Messages(toPlc)' = Messages(toPlc)
    BY <2>1 DEF Running, Messages, netVars
  <2>4. TypesHold'
    BY <2>1, <2>2, <2>3 DEF TypesHold, TypeOK, RunState, clientVars, callVars, netVars
  <2>5. QueueHolds' /\ RunHolds'
    BY <2>1, <2>2 DEF QueueHolds, RunHolds, callVars
  <2>6. PlansHold'
    BY <2>1, <2>2, <2>3 DEF PlansHold, clientVars, callVars
  <2>7. ConnectionHolds'
    BY <2>1, <2>3 DEF ConnectionHolds, RequestsFit, clientVars, netVars
  <2> QED BY <2>4, <2>5, <2>6, <2>7
<1>2. CASE PlcServes
  <2> DEFINE request == Head(toPlc)
  <2>1. /\ toPlc # <<>> /\ toPlc' = Tail(toPlc)
        /\ UNCHANGED <<clientVars, nextReference, queue, callVars, runVars, stray>>
    BY <1>2 DEF PlcServes
  <2>2. PICK status \in {"ok", "rejected", "malformed", "garbled"}, copies \in 1 .. 2 :
          /\ toClient' = toClient \o [i \in 1 .. copies |->
                [id |-> request.id, reference |-> request.reference, status |-> status]]
          /\ applied' \in {applied, applied \union {request.id}}
    BY <1>2 DEF PlcServes
  <2>3. /\ toPlc \in Seq(Message) /\ request \in Message /\ toPlc' \in Seq(Message)
        /\ Messages(toPlc') \subseteq Messages(toPlc)
    BY <2>1, WireContents DEF TypesHold
  <2>4. toClient' \in Seq(Reply)
    <3> DEFINE reply == [id |-> request.id, reference |-> request.reference, status |-> status]
    <3>1. reply \in Reply
      BY <2>3 DEF Message, Reply
    <3>2. [i \in 1 .. copies |-> reply] \in Seq(Reply)
      <4> HIDE DEF reply
      <4>1. copies \in Nat
        OBVIOUS
      <4>2. [i \in 1 .. copies |-> reply] \in [1 .. copies -> Reply]
        BY <3>1
      <4> QED BY <4>1, <4>2
    <3>3. toClient \in Seq(Reply)
      BY DEF TypesHold
    <3> HIDE DEF reply
    <3>4. \A s, t \in Seq(Reply) : s \o t \in Seq(Reply)
      OBVIOUS
    <3> QED BY <2>2, <3>2, <3>3, <3>4 DEF reply
  <2>5. Messages(toPlc)' \subseteq Messages(toPlc)
    BY <2>3 DEF Messages
  <2>6. Running' = Running
    BY <2>1 DEF Running
  <2>7. TypesHold'
    <3>1. request.id \in Ids
      BY <2>3 DEF Message
    <3>2. stray' \subseteq Message
      BY <2>1 DEF TypesHold
    <3>3. {m.id : m \in Messages(toPlc) \union stray}' \subseteq Ids
      BY <2>3, <3>2, WiresTyped
    <3>4. applied' \subseteq Ids
      BY <2>2, <3>1 DEF TypesHold, TypeOK
    <3> QED BY <2>1, <2>3, <2>4, <3>2, <3>3, <3>4
         DEF TypesHold, TypeOK, clientVars, callVars, runVars
  <2>8. QueueHolds' /\ RunHolds'
    BY <2>1 DEF QueueHolds, RunHolds, callVars, runVars
  <2>9. PlansHold'
    BY <2>1, <2>6 DEF PlansHold, clientVars, callVars, runVars
  <2>10. ConnectionHolds'
    BY <2>1, <2>5 DEF ConnectionHolds, RequestsFit, clientVars, runVars
  <2> QED BY <2>7, <2>8, <2>9, <2>10
<1>3. CASE StrayServedOrLost
  <2>1. PICK request \in stray :
          /\ stray' = stray \ {request}
          /\ applied' \in {applied, applied \union {request.id}}
          /\ UNCHANGED <<clientVars, nextReference, queue, callVars, runVars, toPlc, toClient>>
    BY <1>3 DEF StrayServedOrLost
  <2>2. Running' = Running /\ Messages(toPlc)' = Messages(toPlc)
    BY <2>1 DEF Running, Messages
  <2>3. request.id \in Ids /\ stray' \subseteq Message
    BY <2>1 DEF TypesHold, Message
  <2>4. TypesHold'
    <3>1. {m.id : m \in Messages(toPlc) \union stray}' \subseteq Ids
      BY <2>1, <2>3, WiresTyped DEF TypesHold
    <3> QED BY <2>1, <2>3, <3>1 DEF TypesHold, TypeOK, clientVars, callVars, runVars
  <2>5. QueueHolds' /\ RunHolds'
    BY <2>1 DEF QueueHolds, RunHolds, callVars, runVars
  <2>6. PlansHold'
    BY <2>1, <2>2 DEF PlansHold, clientVars, callVars, runVars
  <2>7. ConnectionHolds'
    BY <2>1, <2>2 DEF ConnectionHolds, RequestsFit, clientVars, runVars
  <2> QED BY <2>4, <2>5, <2>6, <2>7
<1> QED BY <1>1, <1>2, <1>3 DEF Environment

-----------------------------------------------------------------------------
(* The theorems                                                            *)

(* Every step of the session preserves the invariant.                      *)
LEMMA NextKeepsSessionInv == SessionInv /\ [Next]_vars => SessionInv'
<1> SUFFICES ASSUME SessionInv, [Next]_vars PROVE SessionInv'
  OBVIOUS
<1> USE DEF SessionInv
<1>1. CASE \E o \in Ops : Caller(o)
  BY <1>1, CallerKeepsSessionInv
<1>2. CASE AttemptExpired \/ ReconnectFails \/ ReceiveFails
  <2>1. pc \in Exchanging /\ \E failure \in ErrorKinds : Catch(failure)
    BY <1>2 DEF AttemptExpired, ReconnectFails, ReceiveFails, ConnectFailures, ErrorKinds,
                Exchanging
  <2> QED BY <2>1, CatchKeepsSessionInv
<1>3. CASE Start \/ BeginExchange \/ Reconnect \/ AdoptPduLength \/ Send \/ Receive
  BY <1>3, StartKeepsSessionInv, BeginExchangeKeepsSessionInv, ReconnectKeepsSessionInv,
     AdoptKeepsSessionInv, SendKeepsSessionInv, ReceiveKeepsSessionInv
<1>4. CASE Succeed \/ Fail \/ Disconnect
  <2>1. lifecycle \in LifecycleStates
    BY DEF TypesHold, TypeOK
  <2>2. pc # "idle" /\ Return
    BY <1>4 DEF Succeed, Fail, Disconnect
  <2>3. \/ UNCHANGED <<connection, lifecycle, toPlc, toClient, stray>>
        \/ /\ connection' = NoConnection /\ lifecycle' \in {"closed", "disconnected"}
           /\ DropWire
    BY <1>4, <2>1, ClosedIsNotConnected DEF Succeed, Fail, Disconnect, CloseCurrent
  <2> QED BY <2>2, <2>3, ReturnKeepsSessionInv
<1>5. CASE Environment
  BY <1>5, EnvironmentKeepsSessionInv
<1>6. CASE UNCHANGED vars
  <2>1. UNCHANGED <<clientVars, nextReference, queue, callVars, runVars, netVars>>
    BY <1>6 DEF vars
  <2>2. Running' = Running /\ Messages(toPlc)' = Messages(toPlc)
    BY <2>1 DEF Running, Messages, netVars
  <2>3. TypesHold' /\ QueueHolds' /\ RunHolds'
    BY <2>1, <2>2 DEF TypesHold, TypeOK, QueueHolds, RunHolds,
                      clientVars, callVars, runVars, netVars
  <2>4. PlansHold' /\ ConnectionHolds'
    BY <2>1, <2>2 DEF PlansHold, ConnectionHolds, RequestsFit,
                      clientVars, callVars, runVars, netVars
  <2> QED BY <2>3, <2>4
<1> QED BY <1>1, <1>2, <1>3, <1>4, <1>5, <1>6 DEF Next, Client

(* What is known at every wait of the running operation holds for any     *)
(* number of calls, chunks, retries and duplicated replies.                *)
THEOREM SessionInvariant == Spec => []SessionInv
<1>1. Init => SessionInv
  BY SessionInvInit
<1>2. SessionInv /\ [Next]_vars => SessionInv'
  BY NextKeepsSessionInv
<1> QED BY <1>1, <1>2, PTL DEF Spec

(* The lifecycle reference and the connection reference never disagree at  *)
(* a point where another thread can look, and the PDU length callers plan  *)
(* for is never more than the open session negotiated.                     *)
THEOREM ReferencesAgree == Spec => []SessionAgrees
<1>1. SessionInv => SessionAgrees
  BY DEF SessionInv, TypesHold, ConnectionHolds, SessionAgrees
<1> QED BY <1>1, SessionInvariant, PTL

(* Whatever was planned before a reconnection, and whatever a raw caller   *)
(* checked before it waited for the gate, fits the session it is sent on.  *)
THEOREM EveryRequestFits == Spec => []RequestsFit
<1>1. SessionInv => RequestsFit
  BY DEF SessionInv, ConnectionHolds
<1> QED BY <1>1, SessionInvariant, PTL

-----------------------------------------------------------------------------
(* 2. The effects of requests                                              *)

(* The requests that are somewhere: served, in flight, or being answered.  *)
KnownIds == applied \union {m.id : m \in Messages(toPlc) \union Messages(toClient) \union stray}

Mutating(o) == Safety(kind[o]) = "potentiallyMutating"

IdsHold ==
    /\ \A m \in stray : Mutates(m)
    /\ \A id \in KnownIds :
          /\ phase[id[1]] \in {"queued", "done"}
          /\ id[2] = 1 => id[3] <= 1 + ReconnectRetries
          /\ phase[id[1]] = "queued" =>
                /\ pc # "idle" /\ id[1] = Running
                /\ id[2] <= run.chunk /\ id[3] <= run.sends
                /\ pc = "chunk" => id[2] < run.chunk

Repeatable(chunk) == AllowMutatingRetries /\ chunk = 1

(* What is not to be repeated is not about to be sent again.               *)
EffectsHold ==
    /\ \A i, j \in Effects : i[1] = j[1] /\ i[2] = j[2] /\ ~Repeatable(i[2]) => i = j
    /\ pc \in Exchanging \ {"receive"} /\ Mutating(Running) /\ ~Repeatable(run.chunk) =>
          \A id \in Effects : id[1] = Running => id[2] < run.chunk

(* Unless some caller took the reply to another request, the wire carries  *)
(* at most the request that is waited for; and unless repetition is        *)
(* allowed, no session follows one that left a mutation in flight.         *)
WireHolds ==
    /\ crossed = {} /\ pc # "receive" => toPlc = <<>>
    /\ crossed = {} /\ pc = "receive" /\ toPlc # <<>> =>
          /\ Tail(toPlc) = <<>> /\ Messages(toPlc) = {Head(toPlc)}
          /\ Head(toPlc).id = Awaited
          /\ \A r \in Messages(toClient) : r.id # Awaited
    /\ ~AllowMutatingRetries /\ crossed = {} /\ stray # {} =>
          connection = NoConnection /\ pc \notin Exchanging

EffectInv == IdsHold /\ EffectsHold /\ WireHolds

-----------------------------------------------------------------------------

(* Identifiers are typed, and effects are among the known requests.        *)
LEMMA KnownIdsTyped ==
  ASSUME SessionInv
  PROVE  /\ Effects \subseteq KnownIds /\ KnownIds \subseteq Ids
         /\ \A id \in KnownIds : id[1] \in Ops /\ id[2] \in Nat /\ id[3] \in Nat
         /\ Messages(toPlc) \subseteq Message /\ Messages(toClient) \subseteq Reply
         /\ stray \subseteq Message
         /\ run.chunk \in Nat /\ run.sends \in Nat
<1>1. /\ Messages(toPlc) \subseteq Message /\ Messages(toClient) \subseteq Reply
      /\ stray \subseteq Message /\ applied \subseteq Ids
  BY WireContents DEF SessionInv, TypesHold, TypeOK
<1>2. KnownIds \subseteq Ids
  BY <1>1 DEF KnownIds, Message, Reply
<1>3. Effects \subseteq KnownIds
  BY DEF Effects, KnownIds
<1>4. \A id \in Ids : id[1] \in Ops /\ id[2] \in Nat /\ id[3] \in Nat
  BY DEF Ids
<1>5. run.chunk \in Nat /\ run.sends \in Nat
  BY DEF SessionInv, TypesHold, RunState
<1> QED BY <1>1, <1>2, <1>3, <1>4, <1>5

(* Giving up a connection makes nothing of what was sent.                  *)
LEMMA DropWireIds ==
  ASSUME SessionInv, IdsHold, DropWire, UNCHANGED <<kind, applied>>
  PROVE  /\ KnownIds' \subseteq KnownIds /\ Effects' \subseteq Effects
         /\ (\A m \in stray : Mutates(m))'
<1>1. /\ stray' = stray \union {m \in Messages(toPlc) : Mutates(m)}
      /\ Messages(toPlc)' = {} /\ Messages(toClient)' = {}
  BY DEF DropWire, Messages
<1>2. \A m : Mutates(m)' <=> Mutates(m)
  BY DEF Mutates
<1>3. KnownIds' \subseteq KnownIds
  BY <1>1 DEF KnownIds
<1>4. Effects' \subseteq Effects
  BY <1>1, <1>2 DEF Effects
<1> QED BY <1>1, <1>2, <1>3, <1>4 DEF IdsHold

(* A step of the running call, or beside it, that sends nothing: the chunk *)
(* only advances, and what must not be repeated is not made ready again.   *)
LEMMA UnsentKeepsIds ==
  ASSUME SessionInv, EffectInv, SessionInv',
         UNCHANGED <<phase, kind, queue>>,
         KnownIds' \subseteq KnownIds, Effects' \subseteq Effects,
         (\A m \in stray : Mutates(m))',
         pc # "idle" => pc' # "idle",
         pc # "idle" => run.chunk <= run'.chunk /\ run.sends <= run'.sends,
         pc' = "chunk" => pc = "chunk" \/ pc = "idle" \/ run.chunk < run'.chunk,
         pc' \in Exchanging \ {"receive"} =>
            /\ run'.chunk = run.chunk
            /\ \/ pc \in {"chunk"} \union (Exchanging \ {"receive"})
               \/ ~Mutating(Running) \/ Repeatable(run.chunk)
  PROVE  IdsHold' /\ EffectsHold'
<1>1. Running' = Running /\ \A o : Mutating(o)' = Mutating(o)
  BY DEF Running, Mutating
<1>2. /\ \A id \in KnownIds : id[2] \in Nat /\ id[3] \in Nat
      /\ Effects \subseteq KnownIds
      /\ run.chunk \in Nat /\ run.sends \in Nat /\ run'.chunk \in Nat /\ run'.sends \in Nat
  <2>1. run'.chunk \in Nat /\ run'.sends \in Nat
    BY DEF SessionInv, TypesHold, RunState
  <2> QED BY <2>1, KnownIdsTyped
<1>3. ASSUME NEW id \in KnownIds'
      PROVE  /\ phase'[id[1]] \in {"queued", "done"}
             /\ id[2] = 1 => id[3] <= 1 + ReconnectRetries
             /\ phase'[id[1]] = "queued" =>
                   /\ pc' # "idle" /\ id[1] = Running'
                   /\ id[2] <= run'.chunk /\ id[3] <= run'.sends
                   /\ pc' = "chunk" => id[2] < run'.chunk
  BY <1>1, <1>2, <1>3 DEF EffectInv, IdsHold
<1>4. IdsHold'
  BY <1>3 DEF IdsHold
<1>5. ASSUME pc' \in Exchanging \ {"receive"}, Mutating(Running), ~Repeatable(run.chunk),
             NEW id \in Effects, id[1] = Running
      PROVE  id[2] < run.chunk
  <2>1. pc = "chunk" => /\ queue # <<>> /\ phase[Running] = "queued"
    BY RunningCall DEF SessionInv, QueueHolds
  <2> QED BY <1>2, <1>5, <2>1 DEF EffectInv, IdsHold, EffectsHold
<1>6. EffectsHold'
  BY <1>1, <1>5 DEF EffectsHold, EffectInv, Repeatable
<1> QED BY <1>4, <1>6

(* At first nothing was sent.                                              *)
LEMMA EffectInvInit == Init => EffectInv
<1> SUFFICES ASSUME Init PROVE EffectInv
  OBVIOUS
<1>1. KnownIds = {} /\ Effects = {} /\ stray = {} /\ toPlc = <<>> /\ pc = "idle"
  BY DEF Init, KnownIds, Effects, Messages
<1> QED BY <1>1 DEF EffectInv, IdsHold, EffectsHold, WireHolds, Exchanging

(* Calls that enter have sent nothing.                                     *)
LEMMA CallerSendsNothing ==
  ASSUME SessionInv, EffectInv, NEW o \in Ops, Caller(o)
  PROVE  /\ phase[o] \in {"new", "prepared"}
         /\ UNCHANGED <<connection, pc, run, toPlc, toClient, stray, applied, crossed>>
         /\ \A p \in Ops : p # o => phase'[p] = phase[p] /\ kind'[p] = kind[p]
         /\ pc # "idle" => Running' = Running /\ Running \in Ops /\ Running # o
         /\ Messages(toPlc)' = Messages(toPlc) /\ Messages(toClient)' = Messages(toClient)
         /\ KnownIds' = KnownIds /\ Effects' = Effects /\ Effects \subseteq KnownIds
         /\ \A id \in KnownIds : id[1] \in Ops /\ id[1] # o
         /\ \A m \in Messages(toPlc) \union Messages(toClient) \union stray :
               Mutates(m)' = Mutates(m)
<1>1. /\ phase[o] \in {"new", "prepared"}
      /\ UNCHANGED <<connection, pc, run, toPlc, toClient, stray, applied, crossed>>
      /\ \A p \in Ops : p # o => phase'[p] = phase[p] /\ kind'[p] = kind[p]
  BY DEF Caller, CallGated, PrepareControl, PrepareRaw, EnterGate, clientVars, runVars, netVars,
         SessionInv, TypesHold, TypeOK
<1>2. pc # "idle" => Running' = Running /\ Running \in Ops /\ Running # o
  <2>1. pc # "idle" => queue # <<>> /\ Running \in Ops /\ phase[Running] = "queued"
    BY RunningCall DEF SessionInv, QueueHolds
  <2>2. queue' = queue \/ queue' = Append(queue, o)
    BY DEF Caller, CallGated, PrepareControl, PrepareRaw, EnterGate, Gate!Enter
  <2>3. queue \in Seq(Ops)
    BY DEF SessionInv, QueueHolds
  <2> QED BY <1>1, <2>1, <2>2, <2>3 DEF Running
<1>3. Messages(toPlc)' = Messages(toPlc) /\ Messages(toClient)' = Messages(toClient)
      /\ KnownIds' = KnownIds
  BY <1>1 DEF Messages, KnownIds
<1>4. \A id \in KnownIds : id[1] \in Ops /\ id[1] # o
  BY <1>1, KnownIdsTyped DEF EffectInv, IdsHold
<1>5. \A m \in Messages(toPlc) \union Messages(toClient) \union stray : Mutates(m)' = Mutates(m)
  <2>1. \A m \in Messages(toPlc) \union Messages(toClient) \union stray : m.id \in KnownIds
    BY DEF KnownIds
  <2> QED BY <1>1, <1>4, <2>1 DEF Mutates
<1>6. Effects' = Effects /\ Effects \subseteq KnownIds
  BY <1>1, <1>3, <1>5, KnownIdsTyped DEF Effects
<1> QED BY <1>1, <1>2, <1>3, <1>4, <1>5, <1>6

LEMMA CallerKeepsEffectInv ==
  ASSUME SessionInv, EffectInv, NEW o \in Ops, Caller(o)
  PROVE  EffectInv'
<1>1. /\ phase[o] \in {"new", "prepared"}
      /\ UNCHANGED <<connection, pc, run, toPlc, toClient, stray, applied, crossed>>
      /\ \A p \in Ops : p # o => phase'[p] = phase[p] /\ kind'[p] = kind[p]
  BY CallerSendsNothing
<1>2. pc # "idle" => Running' = Running /\ Running \in Ops /\ Running # o
  BY CallerSendsNothing
<1>3. Messages(toPlc)' = Messages(toPlc) /\ Messages(toClient)' = Messages(toClient)
      /\ KnownIds' = KnownIds
  BY CallerSendsNothing
<1>4. \A id \in KnownIds : id[1] \in Ops /\ id[1] # o
  BY CallerSendsNothing
<1>5. \A m \in Messages(toPlc) \union stray : Mutates(m)' = Mutates(m)
  BY CallerSendsNothing
<1>6. Effects' = Effects /\ Effects \subseteq KnownIds
  BY CallerSendsNothing
<1>7. IdsHold'
  <2>1. \A m \in stray' : Mutates(m)'
    BY <1>1, <1>5 DEF EffectInv, IdsHold
  <2>2. \A id \in KnownIds' : phase'[id[1]] = phase[id[1]]
    BY <1>1, <1>3, <1>4
  <2> QED BY <1>1, <1>2, <1>3, <2>1, <2>2 DEF EffectInv, IdsHold
<1>8. EffectsHold'
  BY <1>1, <1>2, <1>6 DEF EffectInv, EffectsHold, Repeatable, Mutating, Exchanging
<1>9. WireHolds'
  BY <1>1, <1>2, <1>3 DEF EffectInv, WireHolds, Awaited
<1> QED BY <1>7, <1>8, <1>9 DEF EffectInv

-----------------------------------------------------------------------------
(* Steps of the running operation                                          *)

(* A failed attempt is repeated only if that is harmless or allowed, and a *)
(* mutation that it left in flight is not followed by another session.     *)
LEMMA CatchKeepsEffectInv ==
  ASSUME SessionInv, EffectInv, pc \in Exchanging, NEW failure \in ErrorKinds, Catch(failure)
  PROVE  EffectInv'
<1>1. /\ connection' = NoConnection /\ DropWire
      /\ UNCHANGED <<queue, callVars, applied, crossed>>
  BY DEF Catch, CloseCurrent
<1>2. \/ pc' = "failed" /\ run' = run
      \/ /\ pc' = "attempt" /\ run.retries # 0 /\ (~Mutating(Running) \/ AllowMutatingRetries)
         /\ run' = [run EXCEPT !.retries = run.retries - 1, !.reconnectFirst = TRUE,
                               !.attempted = FALSE]
  <2>1. Safety(kind[Running]) = "readOnly" => ~Mutating(Running)
    BY DEF Mutating
  <2> QED BY <2>1 DEF Catch, RetryBudgetAfter, NoRetry, RetryPermitted
<1>3. SessionInv'
  BY CatchKeepsSessionInv
<1>4. /\ KnownIds' \subseteq KnownIds /\ Effects' \subseteq Effects
      /\ (\A m \in stray : Mutates(m))'
  BY <1>1, DropWireIds DEF EffectInv, callVars
<1>5. run'.chunk = run.chunk /\ run'.sends = run.sends /\ run.chunk \in Nat /\ run.sends \in Nat
  BY <1>2 DEF SessionInv, TypesHold, RunState
<1>6. pc' = "attempt" => run.chunk = 1
  BY <1>2 DEF SessionInv, RunHolds
<1>7. IdsHold' /\ EffectsHold'
  BY <1>1, <1>2, <1>3, <1>4, <1>5, <1>6, UnsentKeepsIds DEF callVars, Exchanging, Repeatable
<1>8. WireHolds'
  <2>1. toPlc' = <<>> /\ stray' = stray \union {m \in Messages(toPlc) : Mutates(m)}
    BY <1>1 DEF DropWire
  <2>2. ASSUME ~AllowMutatingRetries, crossed = {}, pc' = "attempt" PROVE stray' = {}
    <3>1. stray = {}
      BY <2>2 DEF EffectInv, WireHolds
    <3>2. ~Mutating(Running)
      BY <1>2, <2>2
    <3>3. \A m \in Messages(toPlc) : toPlc # <<>> /\ m.id[1] = Running
      <4>1. CASE toPlc = <<>>
        BY <4>1 DEF Messages
      <4>2. CASE toPlc # <<>>
        BY <2>2, <4>2 DEF EffectInv, WireHolds, Awaited
      <4> QED BY <4>1, <4>2
    <3> QED BY <2>1, <3>1, <3>2, <3>3 DEF Mutates, Mutating
  <2> QED BY <1>1, <1>2, <2>1, <2>2 DEF WireHolds, Exchanging
<1> QED BY <1>7, <1>8 DEF EffectInv

(* A call that starts has sent nothing yet.                                *)
LEMMA StartKeepsEffectInv ==
  ASSUME SessionInv, EffectInv, Start
  PROVE  EffectInv'
<1>1. /\ pc = "idle" /\ pc' \in {"disconnecting", "chunk"}
      /\ UNCHANGED <<connection, queue, callVars, netVars>>
  BY DEF Start, Gate!Start
<1>2. Messages(toPlc)' = Messages(toPlc) /\ Messages(toClient)' = Messages(toClient)
      /\ KnownIds' = KnownIds /\ Running' = Running
  BY <1>1 DEF Messages, KnownIds, Running, netVars
<1>3. \A m : Mutates(m)' = Mutates(m)
  BY <1>1 DEF Mutates, callVars
<1>4. Effects' = Effects
  BY <1>1, <1>2, <1>3 DEF Effects, netVars
<1>5. IdsHold'
  BY <1>1, <1>2, <1>3 DEF EffectInv, IdsHold, callVars, netVars
<1>6. EffectsHold'
  BY <1>1, <1>4 DEF EffectInv, EffectsHold, Repeatable, Exchanging
<1>7. WireHolds'
  BY <1>1 DEF EffectInv, WireHolds, Exchanging, netVars
<1> QED BY <1>5, <1>6, <1>7 DEF EffectInv

(* A new request is begun on a live session only.                          *)
LEMMA BeginExchangeKeepsEffectInv ==
  ASSUME SessionInv, EffectInv, BeginExchange
  PROVE  EffectInv'
<1>1. /\ pc = "chunk" /\ UNCHANGED <<clientVars, queue, callVars, netVars>>
      /\ \/ pc' = "failed"
         \/ pc' = "attempt" /\ lifecycle = "connected"
      /\ run'.chunk = run.chunk /\ run'.sends = run.sends
  BY DEF BeginExchange, Raise, LiveSession, SessionInv, TypesHold, RunState
<1>2. Messages(toPlc)' = Messages(toPlc) /\ Messages(toClient)' = Messages(toClient)
      /\ KnownIds' = KnownIds /\ \A m : Mutates(m)' = Mutates(m)
  BY <1>1 DEF Messages, KnownIds, Mutates, callVars, netVars
<1>3. Effects' = Effects
  BY <1>1, <1>2 DEF Effects, netVars
<1>4. SessionInv' /\ run.chunk \in Nat /\ run.sends \in Nat
  BY BeginExchangeKeepsSessionInv, KnownIdsTyped
<1>5. (\A m \in stray : Mutates(m))'
  BY <1>1, <1>2 DEF EffectInv, IdsHold, netVars
<1>6. IdsHold' /\ EffectsHold'
  BY <1>1, <1>2, <1>3, <1>4, <1>5, UnsentKeepsIds DEF callVars, Exchanging
<1>7. WireHolds'
  <2>1. lifecycle = "connected" => connection # NoConnection
    BY DEF SessionInv, ConnectionHolds
  <2> QED BY <1>1, <2>1 DEF EffectInv, WireHolds, Exchanging, clientVars, netVars
<1> QED BY <1>6, <1>7 DEF EffectInv

(* The new session begins with an empty wire, and the old one left no      *)
(* mutation behind unless that was allowed.                                *)
LEMMA ReconnectKeepsEffectInv ==
  ASSUME SessionInv, EffectInv, Reconnect
  PROVE  EffectInv'
<1>1. pc = "attempt" /\ pc \in Exchanging /\ pc # "receive"
  BY DEF Reconnect, Exchanging
<1>2. CASE \E failure \in ErrorKinds : Catch(failure)
  BY <1>1, <1>2, CatchKeepsEffectInv
<1>3. CASE DropWire /\ pc' = "adopt" /\ UNCHANGED <<queue, callVars, run, applied, crossed>>
  <2>1. SessionInv' /\ run.chunk \in Nat /\ run.sends \in Nat
    BY ReconnectKeepsSessionInv, KnownIdsTyped
  <2>2. /\ KnownIds' \subseteq KnownIds /\ Effects' \subseteq Effects
        /\ (\A m \in stray : Mutates(m))'
    BY <1>3, DropWireIds DEF EffectInv, callVars
  <2>3. IdsHold' /\ EffectsHold'
    BY <1>1, <1>3, <2>1, <2>2, UnsentKeepsIds DEF callVars, Exchanging
  <2>4. WireHolds'
    <3>1. toPlc' = <<>> /\ stray' = stray \union {m \in Messages(toPlc) : Mutates(m)}
      BY <1>3 DEF DropWire
    <3>2. crossed = {} => stray' = stray
      BY <1>1, <3>1 DEF EffectInv, WireHolds, Messages
    <3> QED BY <1>1, <1>3, <3>1, <3>2 DEF EffectInv, WireHolds
  <2> QED BY <2>3, <2>4 DEF EffectInv
<1>4. {"protocol", "lifecycle"} \subseteq ErrorKinds
  BY DEF ErrorKinds
<1> QED BY <1>2, <1>3, <1>4 DEF Reconnect

(* Adopting the PDU length sends nothing.                                  *)
LEMMA AdoptKeepsEffectInv ==
  ASSUME SessionInv, EffectInv, AdoptPduLength
  PROVE  EffectInv'
<1>1. /\ pc = "adopt" /\ pc' = "send" /\ UNCHANGED <<connection, queue, callVars, run, netVars>>
  BY DEF AdoptPduLength
<1>2. Messages(toPlc)' = Messages(toPlc) /\ Messages(toClient)' = Messages(toClient)
      /\ KnownIds' = KnownIds /\ \A m : Mutates(m)' = Mutates(m)
  BY <1>1 DEF Messages, KnownIds, Mutates, callVars, netVars
<1>3. Effects' = Effects
  BY <1>1, <1>2 DEF Effects, netVars
<1>4. SessionInv' /\ run.chunk \in Nat /\ run.sends \in Nat
  BY AdoptKeepsSessionInv, KnownIdsTyped
<1>5. (\A m \in stray : Mutates(m))'
  BY <1>1, <1>2 DEF EffectInv, IdsHold, netVars
<1>6. IdsHold' /\ EffectsHold'
  BY <1>1, <1>2, <1>3, <1>4, <1>5, UnsentKeepsIds DEF callVars, Exchanging
<1>7. WireHolds'
  BY <1>1 DEF EffectInv, WireHolds, Exchanging, netVars
<1> QED BY <1>6, <1>7 DEF EffectInv

(* What is sent next, under a new identifier.                              *)
SentId == <<Running, run.chunk, run.sends + 1>>
SentRequest == [id |-> SentId, reference |-> run.reference, size |-> run.planned]

LEMMA SendAdds ==
  ASSUME SessionInv, EffectInv, Send, pc' = "receive"
  PROVE  /\ pc \in Exchanging \ {"receive"} /\ connection # NoConnection
         /\ toPlc' = Append(toPlc, SentRequest) /\ toPlc \in Seq(Message)
         /\ SentRequest \in Message
         /\ run' = [run EXCEPT !.sends = run.sends + 1, !.attempted = TRUE,
                               !.allowance = MaxStaleResponses]
         /\ UNCHANGED <<connection, queue, callVars, toClient, stray, applied, crossed>>
         /\ queue # <<>> /\ phase[Running] = "queued" /\ Running' = Running
         /\ run'.chunk = run.chunk /\ run'.sends = run.sends + 1
         /\ run.chunk \in Nat /\ run.sends \in Nat
         /\ (\A m : Mutates(m)' = Mutates(m)) /\ (\A o : Mutating(o)' = Mutating(o))
         /\ SentRequest.id = SentId
         /\ SentId[1] = Running /\ SentId[2] = run.chunk /\ SentId[3] = run.sends + 1
         /\ Messages(toPlc)' = Messages(toPlc) \union {SentRequest}
         /\ Messages(toClient)' = Messages(toClient)
         /\ KnownIds' = KnownIds \union {SentId} /\ SentId \notin KnownIds
         /\ Effects' = IF Mutating(Running) THEN Effects \union {SentId} ELSE Effects
<1>1. pc \in Exchanging \ {"receive"} /\ pc # "receive" /\ pc # "idle"
  BY DEF Send, Exchanging
<1>2. /\ connection # NoConnection
      /\ toPlc' = Append(toPlc, SentRequest)
      /\ run' = [run EXCEPT !.sends = run.sends + 1, !.attempted = TRUE,
                            !.allowance = MaxStaleResponses]
      /\ UNCHANGED <<connection, queue, callVars, toClient, stray, applied, crossed>>
  BY DEF Send, Catch, SentRequest, SentId
<1>3. /\ queue # <<>> /\ phase[Running] = "queued" /\ Running' = Running
      /\ run'.chunk = run.chunk /\ run'.sends = run.sends + 1
      /\ run.chunk \in Nat /\ run.sends \in Nat
  BY <1>1, <1>2, RunningCall, KnownIdsTyped DEF SessionInv, QueueHolds, TypesHold, RunState, Running
<1>4. (\A m : Mutates(m)' = Mutates(m)) /\ (\A o : Mutating(o)' = Mutating(o))
  BY <1>2 DEF Mutates, Mutating, callVars
<1>5. SentRequest.id = SentId /\ SentId[1] = Running /\ SentId[2] = run.chunk /\ SentId[3] = run.sends + 1
  BY DEF SentRequest, SentId
<1>6. toPlc \in Seq(Message) /\ SentRequest \in Message
  <2>1. /\ SessionInv' /\ toPlc' = Append(toPlc, SentRequest) /\ toPlc \in Seq(Message)
        /\ toPlc' \in Seq(Message)
    BY <1>2, SendKeepsSessionInv DEF SessionInv, TypesHold
  <2>2. toPlc'[Len(toPlc) + 1] = SentRequest /\ Len(toPlc') = Len(toPlc) + 1 /\ Len(toPlc) \in Nat
    BY <2>1
  <2> QED BY <2>1, <2>2
<1>7. Messages(toPlc)' = Messages(toPlc) \union {SentRequest} /\ Messages(toClient)' = Messages(toClient)
  <2>1. toPlc' = Append(toPlc, SentRequest)
    BY <1>2
  <2> QED BY <1>2, <1>6, <2>1, WireContents DEF Messages
<1>8. KnownIds' = KnownIds \union {SentId}
  BY <1>2, <1>5, <1>7 DEF KnownIds
<1>9. Effects' = IF Mutating(Running) THEN Effects \union {SentId} ELSE Effects
  <2>1. Mutates(SentRequest) <=> Mutating(Running)
    BY <1>5 DEF Mutates, Mutating
  <2> QED BY <1>2, <1>4, <1>5, <1>7, <2>1 DEF Effects
<1>10. SentId \notin KnownIds
  <2>1. \A id \in KnownIds : id[3] \in Nat
    BY KnownIdsTyped
  <2> QED BY <1>3, <1>5, <2>1 DEF EffectInv, IdsHold
<1> QED BY <1>1, <1>2, <1>3, <1>4, <1>5, <1>6, <1>7, <1>8, <1>9, <1>10

(* The request that is sent is a new one, alone on its wire.               *)
LEMMA SendKeepsEffectInv ==
  ASSUME SessionInv, EffectInv, Send
  PROVE  EffectInv'
<1>1. pc \in Exchanging \ {"receive"} /\ pc \in Exchanging /\ pc # "receive" /\ pc # "idle"
  BY DEF Send, Exchanging
<1>2. CASE \E failure \in ErrorKinds : Catch(failure)
  BY <1>1, <1>2, CatchKeepsEffectInv
<1>3. CASE pc' = "receive"
  <2>1. /\ queue # <<>> /\ phase[Running] = "queued" /\ Running' = Running
        /\ run'.chunk = run.chunk /\ run'.sends = run.sends + 1
        /\ run.chunk \in Nat /\ run.sends \in Nat
        /\ connection # NoConnection /\ toPlc' = Append(toPlc, SentRequest)
        /\ UNCHANGED <<connection, queue, callVars, toClient, stray, applied, crossed>>
    BY <1>3, SendAdds
  <2>2. /\ (\A m : Mutates(m)' = Mutates(m)) /\ (\A o : Mutating(o)' = Mutating(o))
        /\ SentId \notin KnownIds
    BY <1>3, SendAdds
  <2>3. SentRequest.id = SentId /\ SentId[1] = Running /\ SentId[2] = run.chunk
        /\ SentId[3] = run.sends + 1
    BY <1>3, SendAdds
  <2>5. Messages(toPlc)' = Messages(toPlc) \union {SentRequest} /\ Messages(toClient)' = Messages(toClient)
    BY <1>3, SendAdds
  <2>6. KnownIds' = KnownIds \union {SentId}
    BY <1>3, SendAdds
  <2>7. Effects' = IF Mutating(Running) THEN Effects \union {SentId} ELSE Effects
    BY <1>3, SendAdds
  <2>8. run.chunk = 1 => run.sends + 1 <= 1 + ReconnectRetries
    BY <1>1, <2>1, SessionAssumption DEF SessionInv, RunHolds, TypesHold, RunState
  <2>9. IdsHold'
    <3>1. \A m \in stray' : Mutates(m)'
      BY <1>3, <2>1, <2>2 DEF EffectInv, IdsHold
    <3>2. \A id \in KnownIds : id[2] \in Nat /\ id[3] \in Nat
      BY KnownIdsTyped
    <3>3. phase' = phase
      BY <1>3, <2>1 DEF callVars
    <3>4. ASSUME NEW id \in KnownIds
          PROVE  /\ phase'[id[1]] \in {"queued", "done"}
                 /\ id[2] = 1 => id[3] <= 1 + ReconnectRetries
                 /\ phase'[id[1]] = "queued" =>
                       /\ pc' # "idle" /\ id[1] = Running'
                       /\ id[2] <= run'.chunk /\ id[3] <= run'.sends
                       /\ pc' = "chunk" => id[2] < run'.chunk
      BY <1>3, <2>1, <3>2, <3>3 DEF EffectInv, IdsHold
    <3>5. /\ phase'[SentId[1]] = "queued" /\ SentId[1] = Running'
          /\ SentId[2] = 1 => SentId[3] <= 1 + ReconnectRetries
          /\ SentId[2] <= run'.chunk /\ SentId[3] <= run'.sends
      BY <2>1, <2>3, <2>8, <3>3
    <3> QED BY <1>3, <2>1, <2>6, <3>1, <3>4, <3>5 DEF IdsHold
  <2>10. EffectsHold'
    <3>1. \A id \in Effects : id[2] \in Nat
      BY KnownIdsTyped
    <3>2. Mutating(Running) /\ ~Repeatable(run.chunk) =>
            \A id \in Effects : ~(id[1] = SentId[1] /\ id[2] = SentId[2])
      BY <1>1, <2>1, <2>3, <3>1 DEF EffectInv, EffectsHold
    <3>3. SentId[2] = run.chunk
      BY <2>3
    <3>4. \A i, j \in Effects' : i[1] = j[1] /\ i[2] = j[2] /\ ~Repeatable(i[2]) => i = j
      BY <2>7, <3>2, <3>3 DEF EffectInv, EffectsHold
    <3> QED BY <1>3, <3>4 DEF EffectsHold, Repeatable
  <2>11. WireHolds'
    <3>1. crossed = {} => toPlc = <<>>
      BY <1>1 DEF EffectInv, WireHolds
    <3>2. toPlc = <<>> => toPlc' = <<SentRequest>>
      BY <2>1
    <3>3. Awaited' = SentId
      BY <2>1 DEF Awaited, SentId
    <3>4. \A r \in Messages(toClient) : r.id # SentId
      <4>1. \A r \in Messages(toClient) : r.id \in KnownIds
        BY DEF KnownIds
      <4> QED BY <2>2, <4>1
    <3>5. toPlc' = <<SentRequest>> => Head(toPlc') = SentRequest /\ Tail(toPlc') = <<>>
                              /\ Messages(toPlc)' = {Head(toPlc')}
      BY DEF Messages
    <3>6. ~(~AllowMutatingRetries /\ crossed = {} /\ stray # {})
      BY <1>1 DEF EffectInv, WireHolds
    <3> QED BY <1>3, <2>1, <2>3, <2>5, <3>1, <3>2, <3>3, <3>4, <3>5, <3>6 DEF WireHolds
  <2> QED BY <2>9, <2>10, <2>11 DEF EffectInv
<1>4. {"disconnected", "protocol"} \subseteq ErrorKinds
  BY DEF ErrorKinds
<1> QED BY <1>2, <1>3, <1>4 DEF Send

(* The reply that ends a chunk answers its only request, unless it is      *)
(* recorded as crossed.                                                    *)
LEMMA ReceiveKeepsEffectInv ==
  ASSUME SessionInv, EffectInv, Receive
  PROVE  EffectInv'
<1>1. pc = "receive" /\ pc \in Exchanging /\ toClient # <<>>
  BY DEF Receive, Exchanging
<1>2. CASE Catch("protocol")
  BY <1>1, <1>2, CatchKeepsEffectInv DEF ErrorKinds
<1>3. CASE /\ toClient' = Tail(toClient)
           /\ UNCHANGED <<connection, queue, callVars, toPlc, stray, applied>>
           /\ \/ run' = [run EXCEPT !.allowance = run.allowance - 1] /\ pc' = pc
                 /\ crossed' = crossed
              \/ /\ crossed' = IF Head(toClient).id = Awaited THEN crossed
                               ELSE crossed \union {Running}
                 /\ \/ pc' = "chunk" /\ run' = [run EXCEPT !.chunk = run.chunk + 1]
                    \/ pc' \in {"succeeded", "failed"} /\ run' = run
  <2>1. SessionInv' /\ run.chunk \in Nat /\ run.sends \in Nat
    BY ReceiveKeepsSessionInv, KnownIdsTyped
  <2>2. /\ Head(toClient) \in Messages(toClient)
        /\ Messages(toClient)' \subseteq Messages(toClient) /\ Messages(toPlc)' = Messages(toPlc)
    <3>1. toClient \in Seq(Reply)
      BY DEF SessionInv, TypesHold
    <3> QED BY <1>1, <1>3, <3>1, WireContents DEF Messages
  <2>3. /\ KnownIds' \subseteq KnownIds /\ Running' = Running
        /\ \A m : Mutates(m)' = Mutates(m)
    BY <1>3, <2>2 DEF KnownIds, Running, Mutates, callVars
  <2>4. Effects' = Effects
    BY <1>3, <2>2, <2>3 DEF Effects
  <2>5. (\A m \in stray : Mutates(m))'
    BY <1>3, <2>3 DEF EffectInv, IdsHold
  <2>6. /\ run'.sends = run.sends
        /\ run'.chunk = IF pc' = "chunk" THEN run.chunk + 1 ELSE run.chunk
    BY <1>1, <1>3 DEF SessionInv, TypesHold, RunState
  <2>7. pc' \in {"receive", "chunk", "succeeded", "failed"}
    BY <1>1, <1>3
  <2>8. IdsHold' /\ EffectsHold'
    BY <1>1, <1>3, <2>1, <2>3, <2>4, <2>5, <2>6, <2>7, UnsentKeepsIds DEF callVars, Exchanging
  <2>9. WireHolds'
    <3>1. CASE pc' = "receive"
      <4>1. crossed' = crossed /\ Awaited' = Awaited
        BY <1>1, <1>3, <2>3, <2>6, <3>1 DEF Awaited
      <4> QED BY <1>1, <1>3, <2>2, <3>1, <4>1 DEF EffectInv, WireHolds, Exchanging
    <3>2. CASE pc' # "receive"
      <4>1. crossed' = {} => crossed = {} /\ Head(toClient).id = Awaited
        BY <1>1, <1>3, <3>2
      <4>2. crossed' = {} => toPlc = <<>>
        BY <1>1, <2>2, <4>1 DEF EffectInv, WireHolds
      <4> QED BY <1>1, <1>3, <3>2, <4>1, <4>2 DEF EffectInv, WireHolds
    <3> QED BY <3>1, <3>2
  <2> QED BY <2>8, <2>9 DEF EffectInv
<1>4. Catch("protocol")
      \/ /\ toClient' = Tail(toClient)
         /\ UNCHANGED <<connection, queue, callVars, toPlc, stray, applied>>
         /\ \/ run' = [run EXCEPT !.allowance = run.allowance - 1] /\ pc' = pc
               /\ crossed' = crossed
            \/ /\ crossed' = IF Head(toClient).id = Awaited THEN crossed
                             ELSE crossed \union {Running}
               /\ Decoded(Head(toClient).status)
  BY DEF Receive
<1>5. Decoded(Head(toClient).status) =>
         \/ pc' = "chunk" /\ run' = [run EXCEPT !.chunk = run.chunk + 1]
         \/ pc' \in {"succeeded", "failed"} /\ run' = run
  BY DEF Decoded
<1> QED BY <1>2, <1>3, <1>4, <1>5

(* A call that has returned keeps its effects, and nothing is on the wire. *)
LEMMA ReturnKeepsEffectInv ==
  ASSUME SessionInv, EffectInv, pc \notin {"idle", "receive"}, pc \notin Exchanging, Return,
         \/ UNCHANGED <<connection, toPlc, toClient, stray>>
         \/ connection' = NoConnection /\ DropWire
  PROVE  EffectInv'
<1>1. /\ pc' = "idle" /\ phase' = [phase EXCEPT ![Running] = "done"]
      /\ UNCHANGED <<kind, applied, crossed>>
  BY DEF Return
<1>2. phase'[Running] = "done" /\ \A o \in Ops : o # Running => phase'[o] = phase[o]
  <2>1. Running \in Ops
    BY RunningCall DEF SessionInv, QueueHolds
  <2> QED BY <1>1, <2>1 DEF SessionInv, TypesHold, TypeOK
<1>3. /\ KnownIds' \subseteq KnownIds /\ Effects' \subseteq Effects
      /\ (\A m \in stray : Mutates(m))'
      /\ crossed = {} => stray' = stray
  <2>1. CASE UNCHANGED <<connection, toPlc, toClient, stray>>
    <3>1. /\ Messages(toPlc)' = Messages(toPlc) /\ Messages(toClient)' = Messages(toClient)
          /\ \A m : Mutates(m)' = Mutates(m)
      BY <1>1, <2>1 DEF Messages, Mutates
    <3> QED BY <1>1, <2>1, <3>1 DEF KnownIds, Effects, EffectInv, IdsHold
  <2>2. CASE connection' = NoConnection /\ DropWire
    <3>1. crossed = {} => Messages(toPlc) = {}
      BY DEF EffectInv, WireHolds, Messages
    <3> QED BY <1>1, <2>2, <3>1, DropWireIds DEF EffectInv, DropWire
  <2> QED BY <2>1, <2>2
<1>4. IdsHold'
  <2>1. \A id \in KnownIds : id[1] \in Ops
    BY KnownIdsTyped
  <2>2. \A id \in KnownIds : phase'[id[1]] = "done"
    BY <1>2, <2>1 DEF EffectInv, IdsHold
  <2> QED BY <1>3, <2>2 DEF EffectInv, IdsHold
<1>5. EffectsHold'
  BY <1>1, <1>3 DEF EffectInv, EffectsHold, Repeatable, Exchanging
<1>6. WireHolds'
  <2>1. toPlc' = <<>> \/ toPlc' = toPlc
    BY DEF DropWire
  <2> QED BY <1>1, <1>3, <2>1 DEF EffectInv, WireHolds, Exchanging
<1> QED BY <1>4, <1>5, <1>6 DEF EffectInv

(* What is on the wire to the client after one or two copies of a reply.   *)
LEMMA RepliesAdded ==
  ASSUME NEW wire \in Seq(Reply), NEW reply, NEW copies \in 1 .. 2
  PROVE  Messages(wire \o [i \in 1 .. copies |-> reply]) = Messages(wire) \union {reply}
<1> DEFINE answers == [i \in 1 .. copies |-> reply]
           after == wire \o answers
           n == Len(wire)
<1>1. answers \in Seq({reply}) /\ Len(answers) = copies /\ copies \in Nat /\ 1 \in 1 .. copies
  <2>1. copies \in Nat /\ answers \in [1 .. copies -> {reply}] /\ 1 \in 1 .. copies
    OBVIOUS
  <2> QED BY <2>1
<1>2. \A i \in 1 .. copies : answers[i] = reply
  OBVIOUS
<1>3. n \in Nat /\ DOMAIN wire = 1 .. n
  OBVIOUS
<1> HIDE DEF answers
<1>4. DOMAIN after = 1 .. n + copies
  BY <1>1
<1> HIDE DEF n
<1>5. ASSUME NEW i \in 1 .. n PROVE i \in 1 .. n + copies /\ after[i] = wire[i]
  BY <1>1, <1>3 DEF n
<1>6. ASSUME NEW i \in 1 .. copies PROVE n + i \in 1 .. n + copies /\ after[n + i] = reply
  <2>1. n + i \in 1 .. n + copies /\ n + i > n /\ n + i - n = i
    BY <1>1, <1>3
  <2>2. after[n + i] = answers[n + i - n]
    BY <1>1, <1>3, <2>1 DEF n
  <2> QED BY <1>2, <2>1, <2>2
<1>7. \A i \in 1 .. n + copies : i \in 1 .. n \/ \E j \in 1 .. copies : i = n + j
  <2> TAKE i \in 1 .. n + copies
  <2>1. i > n => i - n \in 1 .. copies /\ i = n + (i - n)
    BY <1>1, <1>3
  <2>2. i <= n => i \in 1 .. n
    BY <1>1, <1>3
  <2> QED BY <1>1, <1>3, <2>1, <2>2
<1> HIDE DEF after
<1>8. {after[i] : i \in 1 .. n + copies} = {wire[i] : i \in 1 .. n} \union {reply}
  BY <1>1, <1>5, <1>6, <1>7
<1>9. Messages(wire) = {wire[i] : i \in 1 .. n} /\ Messages(after) = {after[i] : i \in 1 .. n + copies}
  BY <1>3, <1>4 DEF Messages
<1> QED BY <1>8, <1>9 DEF after, answers

(* The PLC serves what was sent, and the network delivers or loses it.     *)
LEMMA EnvironmentSendsNothing ==
  ASSUME SessionInv, EffectInv, Environment
  PROVE  /\ SessionInv' /\ run.chunk \in Nat /\ run.sends \in Nat
         /\ UNCHANGED <<connection, writeProgress, queue, callVars, pc, error, crossed>>
         /\ run'.chunk = run.chunk /\ run'.sends = run.sends /\ run'.attempted = run.attempted
         /\ Running' = Running /\ Awaited' = Awaited /\ (\A m : Mutates(m)' = Mutates(m))
         /\ KnownIds' \subseteq KnownIds /\ Effects' \subseteq Effects /\ stray' \subseteq stray
         /\ applied \subseteq applied'
         /\ \/ toPlc' = toPlc /\ toClient' = toClient
            \/ toPlc # <<>> /\ toPlc' = Tail(toPlc)
<1>1. SessionInv' /\ run.chunk \in Nat /\ run.sends \in Nat
  BY EnvironmentKeepsSessionInv, KnownIdsTyped
<1>2. UNCHANGED <<connection, writeProgress, queue, callVars, pc, error, crossed>>
  BY DEF Environment, DeadlineExpires, PlcServes, StrayServedOrLost, clientVars, netVars, runVars
<1>3. run'.chunk = run.chunk /\ run'.sends = run.sends /\ run'.attempted = run.attempted
  BY DEF Environment, DeadlineExpires, PlcServes, StrayServedOrLost, runVars, SessionInv,
         TypesHold, RunState
<1>4. Running' = Running /\ Awaited' = Awaited /\ (\A m : Mutates(m)' = Mutates(m))
  BY <1>2, <1>3 DEF Running, Awaited, Mutates, callVars
<1>5. /\ KnownIds' \subseteq KnownIds /\ Effects' \subseteq Effects /\ stray' \subseteq stray
      /\ \/ toPlc' = toPlc /\ toClient' = toClient
         \/ toPlc # <<>> /\ toPlc' = Tail(toPlc)
  <2>1. CASE DeadlineExpires
    <3>1. UNCHANGED netVars
      BY <2>1 DEF DeadlineExpires
    <3>2. Messages(toPlc)' = Messages(toPlc) /\ Messages(toClient)' = Messages(toClient)
      BY <3>1 DEF Messages, netVars
    <3> QED BY <1>4, <3>1, <3>2 DEF KnownIds, Effects, netVars
  <2>2. CASE PlcServes
    <3> DEFINE request == Head(toPlc)
    <3>1. /\ toPlc # <<>> /\ toPlc' = Tail(toPlc) /\ UNCHANGED stray
          /\ \/ Mutates(request) /\ applied' = applied \union {request.id}
             \/ applied' = applied
      BY <2>2 DEF PlcServes
    <3>2. PICK status \in {"ok", "rejected", "malformed", "garbled"}, copies \in 1 .. 2 :
            toClient' = toClient \o [i \in 1 .. copies |->
                [id |-> request.id, reference |-> request.reference, status |-> status]]
      BY <2>2 DEF PlcServes
    <3>3. /\ toPlc \in Seq(Message) /\ toClient \in Seq(Reply) /\ toClient' \in Seq(Reply)
      BY <1>1 DEF SessionInv, TypesHold
    <3>4. request \in Messages(toPlc) /\ Messages(toPlc)' \subseteq Messages(toPlc)
      <4>1. Messages(toPlc') = Messages(toPlc)'
        BY DEF Messages
      <4> QED BY <3>1, <3>3, <4>1, WireContents
    <3>5. \A r \in Messages(toClient)' : r \in Messages(toClient) \/ r.id = request.id
      <4> DEFINE reply == [id |-> request.id, reference |-> request.reference, status |-> status]
      <4>1. reply.id = request.id
        OBVIOUS
      <4> HIDE DEF reply
      <4>2. toClient' = toClient \o [i \in 1 .. copies |-> reply]
        BY <3>2 DEF reply
      <4>3. Messages(toClient)' = Messages(toClient \o [i \in 1 .. copies |-> reply])
        BY <4>2 DEF Messages
      <4>4. Messages(toClient)' = Messages(toClient) \union {reply}
        BY <3>3, <4>3, RepliesAdded
      <4> QED BY <4>1, <4>4
    <3>6. KnownIds' \subseteq KnownIds
      <4>1. request.id \in KnownIds
        BY <3>4 DEF KnownIds
      <4> HIDE DEF request
      <4>2. applied' \subseteq KnownIds
        BY <3>1, <4>1 DEF KnownIds
      <4>3. \A r \in Messages(toClient)' : r.id \in KnownIds
        BY <3>5, <4>1 DEF KnownIds
      <4>4. \A r \in Messages(toPlc)' \union stray' : r.id \in KnownIds
        BY <3>1, <3>4 DEF KnownIds
      <4> QED BY <4>2, <4>3, <4>4 DEF KnownIds
    <3>7. Effects' \subseteq Effects
      <4>1. Mutates(request) => request.id \in Effects
        BY <3>4 DEF Effects
      <4> HIDE DEF request
      <4> QED BY <1>4, <3>1, <3>4, <4>1 DEF Effects
    <3> QED BY <3>1, <3>6, <3>7
  <2>3. CASE StrayServedOrLost
    <3>1. PICK request \in stray :
            /\ stray' = stray \ {request}
            /\ applied' \in {applied, applied \union {request.id}}
            /\ UNCHANGED <<toPlc, toClient>>
      BY <2>3 DEF StrayServedOrLost
    <3>2. request.id \in Effects /\ request.id \in KnownIds
      BY DEF Effects, KnownIds, EffectInv, IdsHold
    <3>3. Messages(toPlc)' = Messages(toPlc) /\ Messages(toClient)' = Messages(toClient)
      BY <3>1 DEF Messages
    <3>4. KnownIds' \subseteq KnownIds
      BY <3>1, <3>2, <3>3 DEF KnownIds
    <3>5. Effects' \subseteq Effects
      BY <1>4, <3>1, <3>2, <3>3 DEF Effects
    <3> QED BY <3>1, <3>4, <3>5
  <2> QED BY <2>1, <2>2, <2>3 DEF Environment
<1>6. applied \subseteq applied'
  BY DEF Environment, DeadlineExpires, PlcServes, StrayServedOrLost, netVars
<1> QED BY <1>1, <1>2, <1>3, <1>4, <1>5, <1>6

LEMMA EnvironmentKeepsEffectInv ==
  ASSUME SessionInv, EffectInv, Environment
  PROVE  EffectInv'
<1>1. SessionInv' /\ run.chunk \in Nat /\ run.sends \in Nat
  BY EnvironmentSendsNothing
<1>2. UNCHANGED <<connection, queue, callVars, pc, crossed>>
  BY EnvironmentSendsNothing
<1>3. run'.chunk = run.chunk /\ run'.sends = run.sends
  BY EnvironmentSendsNothing
<1>4. Running' = Running /\ Awaited' = Awaited /\ (\A m : Mutates(m)' = Mutates(m))
  BY EnvironmentSendsNothing
<1>5. /\ KnownIds' \subseteq KnownIds /\ Effects' \subseteq Effects /\ stray' \subseteq stray
      /\ \/ toPlc' = toPlc /\ toClient' = toClient
         \/ toPlc # <<>> /\ toPlc' = Tail(toPlc)
  BY EnvironmentSendsNothing
<1>6. (\A m \in stray : Mutates(m))'
  BY <1>4, <1>5 DEF EffectInv, IdsHold
<1>7. IdsHold' /\ EffectsHold'
  BY <1>1, <1>2, <1>3, <1>5, <1>6, UnsentKeepsIds DEF callVars, Exchanging
<1>8. WireHolds'
  <2>1. crossed = {} /\ pc # "receive" => toPlc' = <<>>
    BY <1>5 DEF EffectInv, WireHolds
  <2>2. crossed = {} /\ pc = "receive" /\ toPlc' # <<>> => toPlc' = toPlc /\ toClient' = toClient
    BY <1>5 DEF EffectInv, WireHolds
  <2>3. toPlc' = toPlc /\ toClient' = toClient =>
           Messages(toPlc)' = Messages(toPlc) /\ Messages(toClient)' = Messages(toClient)
    BY DEF Messages
  <2> QED BY <1>2, <1>4, <1>5, <2>1, <2>2, <2>3 DEF EffectInv, WireHolds
<1> QED BY <1>7, <1>8 DEF EffectInv

-----------------------------------------------------------------------------
(* The theorems                                                            *)

(* Every step of the session preserves the invariant.                      *)
LEMMA NextKeepsEffectInv == SessionInv /\ EffectInv /\ [Next]_vars => EffectInv'
<1> SUFFICES ASSUME SessionInv, EffectInv, [Next]_vars PROVE EffectInv'
  OBVIOUS
<1>1. CASE \E o \in Ops : Caller(o)
  BY <1>1, CallerKeepsEffectInv
<1>2. CASE AttemptExpired \/ ReconnectFails \/ ReceiveFails
  <2>1. pc \in Exchanging /\ \E failure \in ErrorKinds : Catch(failure)
    BY <1>2 DEF AttemptExpired, ReconnectFails, ReceiveFails, ConnectFailures, ErrorKinds,
                Exchanging
  <2> QED BY <2>1, CatchKeepsEffectInv
<1>3. CASE Start \/ BeginExchange \/ Reconnect \/ AdoptPduLength \/ Send \/ Receive
  BY <1>3, StartKeepsEffectInv, BeginExchangeKeepsEffectInv, ReconnectKeepsEffectInv,
     AdoptKeepsEffectInv, SendKeepsEffectInv, ReceiveKeepsEffectInv
<1>4. CASE Succeed \/ Fail \/ Disconnect
  <2>1. pc \notin {"idle", "receive"} /\ pc \notin Exchanging /\ Return
    BY <1>4 DEF Succeed, Fail, Disconnect, Exchanging
  <2>2. \/ UNCHANGED <<connection, toPlc, toClient, stray>>
        \/ connection' = NoConnection /\ DropWire
    BY <1>4 DEF Succeed, Fail, Disconnect, CloseCurrent
  <2> QED BY <2>1, <2>2, ReturnKeepsEffectInv
<1>5. CASE Environment
  BY <1>5, EnvironmentKeepsEffectInv
<1>6. CASE UNCHANGED vars
  <2>1. UNCHANGED <<connection, queue, kind, phase, pc, run, toPlc, toClient, stray, applied, crossed>>
    BY <1>6 DEF vars, clientVars, callVars, runVars, netVars
  <2>2. /\ Running' = Running /\ Awaited' = Awaited
        /\ Messages(toPlc)' = Messages(toPlc) /\ Messages(toClient)' = Messages(toClient)
        /\ \A m : Mutates(m)' = Mutates(m)
    BY <2>1 DEF Running, Awaited, Messages, Mutates
  <2>3. KnownIds' = KnownIds /\ Effects' = Effects
    BY <2>1, <2>2 DEF KnownIds, Effects
  <2>4. IdsHold' /\ EffectsHold'
    BY <2>1, <2>2, <2>3 DEF EffectInv, IdsHold, EffectsHold, Mutating, Repeatable
  <2>5. WireHolds'
    BY <2>1, <2>2 DEF EffectInv, WireHolds
  <2> QED BY <2>4, <2>5 DEF EffectInv
<1> QED BY <1>1, <1>2, <1>3, <1>4, <1>5, <1>6 DEF Next, Client

(* The identifiers of all requests, for any number of calls and chunks.    *)
THEOREM EffectInvariant == Spec => [](SessionInv /\ EffectInv)
<1>1. Init => SessionInv /\ EffectInv
  BY SessionInvInit, EffectInvInit
<1>2. (SessionInv /\ EffectInv) /\ [Next]_vars => (SessionInv /\ EffectInv)'
  BY NextKeepsSessionInv, NextKeepsEffectInv
<1> QED BY <1>1, <1>2, PTL DEF Spec

(* No mutating request takes effect twice without the caller's consent,    *)
(* and with it only the first of an operation, as often as configured.     *)
THEOREM EffectsAreBounded == Spec => []BoundedEffects
<1>1. ASSUME SessionInv, EffectInv, NEW o \in Ops, NEW chunk \in 1 .. MaxChunks
      PROVE  Cardinality(EffectsOf(o, chunk)) <= IF Repeatable(chunk) THEN 1 + ReconnectRetries ELSE 1
  <2> DEFINE those == EffectsOf(o, chunk)
             third == [id \in those |-> id[3]]
  <2>1. /\ ReconnectRetries \in Nat
        /\ \A id \in those : /\ id \in Effects /\ id \in Ids /\ id[1] = o /\ id[2] = chunk
                              /\ id[3] \in 1 .. MaxChunks + 1 + ReconnectRetries
                              /\ id = <<o, chunk, id[3]>>
    BY <1>1, KnownIdsTyped, SessionAssumption DEF EffectsOf, Ids
  <2>2. CASE Repeatable(chunk)
    <3>1. \A id \in those : id[3] \in 1 .. 1 + ReconnectRetries
      BY <1>1, <2>1, <2>2, KnownIdsTyped DEF EffectInv, IdsHold, Repeatable
    <3>2. third \in Injection(those, 1 .. 1 + ReconnectRetries)
      <4> HIDE DEF those
      <4>1. third \in [those -> 1 .. 1 + ReconnectRetries]
        BY <3>1
      <4>2. \A i, j \in those : third[i] = third[j] => i = j
        BY <2>1
      <4> QED BY <4>1, <4>2 DEF Injection, IsInjective
    <3>3. /\ IsFiniteSet(1 .. 1 + ReconnectRetries)
          /\ Cardinality(1 .. 1 + ReconnectRetries) = 1 + ReconnectRetries
      <4>1. 1 + ReconnectRetries \in Nat /\ 1 \in Nat
        BY <2>1
      <4> QED BY <4>1, FS_Interval
    <3> HIDE DEF those, third
    <3>4. Cardinality(those) <= Cardinality(1 .. 1 + ReconnectRetries)
      BY <3>2, <3>3, FS_Injection
    <3> QED BY <2>2, <3>3, <3>4 DEF those
  <2>3. CASE ~Repeatable(chunk)
    <3>1. \A i, j \in those : i = j
      BY <1>1, <2>1, <2>3 DEF EffectInv, EffectsHold
    <3> HIDE DEF those
    <3>2. Cardinality(those) <= 1
      <4>1. CASE those = {}
        BY <4>1, FS_EmptySet
      <4>2. CASE those # {}
        <5>1. PICK id \in those : TRUE
          BY <4>2
        <5>2. those = {id}
          BY <3>1, <5>1
        <5>3. Cardinality(those) = 1
          BY <5>2, FS_Singleton
        <5> QED BY <5>3
      <4> QED BY <4>1, <4>2
    <3> QED BY <2>3, <3>2 DEF those
  <2> QED BY <2>2, <2>3
<1>2. SessionInv /\ EffectInv => BoundedEffects
  BY <1>1 DEF BoundedEffects, Repeatable
<1> QED BY <1>2, EffectInvariant, PTL

(* However an operation ended, its unanswered request is not on the        *)
(* connection that the next operation finds open.                          *)
THEOREM NothingIsLeftUnanswered == Spec => []NoUnansweredRequest
<1>1. EffectInv => NoUnansweredRequest
  BY DEF EffectInv, WireHolds, NoUnansweredRequest
<1> QED BY <1>1, EffectInvariant, PTL

(* No later mutation is sent while an earlier one may still be served.     *)
THEOREM MutationsAreNotOvertaken == Spec => []NoOvertaking
<1>1. SessionInv /\ EffectInv => NoOvertaking
  BY DEF SessionInv, ConnectionHolds, EffectInv, WireHolds, NoOvertaking, Messages
<1> QED BY <1>1, EffectInvariant, PTL

-----------------------------------------------------------------------------
(* 3. The record of write progress                                         *)

Attempts(outcomes) == [location : Nat, outcome : outcomes]
Outcomes == {"success", "replayedUnknown", "globalRejected", "pending"}

(* Settling appends the outstanding attempt, if there is one.              *)
LEMMA SettledAppends ==
  ASSUME NEW history \in Seq(Attempts(Outcomes)), NEW location \in Nat, NEW outcomes,
         outcomes[1] \in Outcomes
  PROVE  /\ Settled([history |-> history, pending |-> <<>>], outcomes)
              = [history |-> history, pending |-> <<>>]
         /\ Settled([history |-> history, pending |-> <<location>>], outcomes)
              = [history |-> Append(history, [location |-> location, outcome |-> outcomes[1]]),
                 pending |-> <<>>]
<1> DEFINE last == [location |-> location, outcome |-> outcomes[1]]
           settled(pending) == [i \in DOMAIN pending |->
                                   [location |-> pending[i], outcome |-> outcomes[i]]]
<1>1. settled(<<>>) = <<>>
  OBVIOUS
<1>2. settled(<<location>>) = <<last>>
  OBVIOUS
<1>3. \A pending : Settled([history |-> history, pending |-> pending], outcomes)
                     = [history |-> history \o settled(pending), pending |-> <<>>]
  BY DEF Settled
<1> HIDE DEF settled, last
<1>4. history \o <<>> = history
  BY ConcatEmptySeq
<1>5. last \in Attempts(Outcomes)
  BY DEF last, Attempts
<1>6. history \o <<last>> = Append(history, last)
  BY <1>5, AppendIsConcat
<1>7. Settled([history |-> history, pending |-> <<>>], outcomes)
        = [history |-> history, pending |-> <<>>]
  BY <1>1, <1>3, <1>4
<1>8. Settled([history |-> history, pending |-> <<location>>], outcomes)
        = [history |-> Append(history, last), pending |-> <<>>]
  BY <1>2, <1>3, <1>6
<1> QED BY <1>7, <1>8 DEF last

(* What is selected from a trace: nothing, or at most its last attempt, if *)
(* no other one has the outcomes.                                          *)
LEMMA SelectedFew ==
  ASSUME NEW R, NEW trace \in Seq(R), NEW outcomes,
         \A i \in 1 .. Len(trace) : trace[i].outcome \in outcomes => i = Len(trace)
  PROVE  /\ Len(Selected(trace, outcomes)) <= 1
         /\ Selected(trace, outcomes) # <<>> =>
              Len(trace) \in 1 .. Len(trace) /\ trace[Len(trace)].outcome \in outcomes
<1> DEFINE n == Len(trace)
           parts == [i \in 1 .. n |-> IF trace[i].outcome \in outcomes THEN <<trace[i]>> ELSE <<>>]
<1>1. n \in Nat /\ DOMAIN trace = 1 .. n
  OBVIOUS
<1>2. Selected(trace, outcomes) = FlattenSeq(parts)
  BY <1>1 DEF Selected
<1>3. ASSUME NEW i \in 1 .. n PROVE parts[i] \in Seq(R) /\ (i # n => parts[i] = <<>>)
  <2>1. trace[i] \in R
    OBVIOUS
  <2> QED BY <2>1
<1>4. parts \in [1 .. n -> Seq(R)]
  <2>1. \A i \in 1 .. n : parts[i] \in Seq(R)
    BY <1>3
  <2>2. parts = [i \in 1 .. n |-> parts[i]]
    OBVIOUS
  <2> HIDE DEF parts
  <2> QED BY <2>1, <2>2
<1>5. CASE n = 0
  <2>1. parts = <<>>
    BY <1>5
  <2>2. Selected(trace, outcomes) = <<>>
    BY <1>2, <2>1, FlattenNothing
  <2> QED BY <2>2
<1>6. CASE n # 0
  <2>1. n \in 1 .. n
    <3> HIDE DEF n
    <3> QED BY <1>1, <1>6
  <2>2. \/ parts[n] = <<>>
        \/ parts[n] = <<trace[n]>> /\ trace[n].outcome \in outcomes
    BY <2>1
  <2> HIDE DEF parts
  <2>3. FlattenSeq(parts) = parts[n]
    BY <1>1, <1>3, <1>4, <1>6, FlattenLast
  <2>4. Len(<<>>) <= 1 /\ \A x : Len(<<x>>) <= 1
    OBVIOUS
  <2>5. Selected(trace, outcomes) = parts[n]
    BY <1>2, <2>3
  <2>6. Len(parts[n]) <= 1 /\ (parts[n] # <<>> => trace[n].outcome \in outcomes)
    BY <2>2, <2>4, Zenon
  <2> QED BY <2>1, <2>5, <2>6
<1> QED BY <1>5, <1>6

(* A record, as it may be when a write returns: what the snapshot says of  *)
(* a trace in which at most the last attempt is rejected or pending.       *)
LEMMA SnapshotLists ==
  ASSUME NEW history \in Seq(Attempts(Outcomes)), NEW location \in Nat,
         NEW pending \in {<<>>, <<location>>},
         \A i \in 1 .. Len(history) : history[i].outcome # "pending",
         \A i \in 1 .. Len(history) : history[i].outcome = "globalRejected" =>
             i = Len(history) /\ pending = <<>>
  PROVE  LET shown == Snapshot([history |-> history, pending |-> pending])
         IN  /\ shown.attempts =
                  IF pending = <<>> THEN history
                  ELSE Append(history, [location |-> location, outcome |-> "pending"])
             /\ Len(shown.uncertain) <= 1
             /\ shown.uncertain # <<>> => pending # <<>>
             /\ shown.rejected # <<>> =>
                  /\ Len(history) \in 1 .. Len(history)
                  /\ history[Len(history)].outcome = "globalRejected"
<1> DEFINE progress == [history |-> history, pending |-> pending]
           last == [location |-> location, outcome |-> "pending"]
           trace == IF pending = <<>> THEN history ELSE Append(history, last)
           n == Len(history)
<1>1. last \in Attempts(Outcomes)
  BY DEF Attempts, Outcomes
<1>2. Trace(progress) = trace
  <2>1. pending = <<>> \/ pending = <<location>>
    OBVIOUS
  <2>2. Trace(progress) = Settled(progress, [i \in DOMAIN pending |-> "pending"]).history
    BY DEF Trace, Finish
  <2> DEFINE outcomes == [i \in DOMAIN pending |-> "pending"]
  <2>3. pending = <<location>> => outcomes[1] = "pending"
    OBVIOUS
  <2>4. CASE pending = <<>>
    <3>1. Settled([history |-> history, pending |-> <<>>], [i \in {1} |-> "pending"])
            = [history |-> history, pending |-> <<>>]
      <4> DEFINE outcomesOfOne == [i \in {1} |-> "pending"]
      <4>1. outcomesOfOne[1] \in Outcomes
        BY DEF Outcomes
      <4> HIDE DEF outcomesOfOne
      <4>2. Settled([history |-> history, pending |-> <<>>], outcomesOfOne)
              = [history |-> history, pending |-> <<>>]
        BY <4>1, SettledAppends
      <4> QED BY <4>2 DEF outcomesOfOne
    <3>2. \A o1, o2 : Settled([history |-> history, pending |-> <<>>], o1)
                        = Settled([history |-> history, pending |-> <<>>], o2)
      BY DEF Settled
    <3>3. Settled(progress, outcomes) = [history |-> history, pending |-> <<>>]
      BY <2>4, <3>1, <3>2
    <3> QED BY <2>2, <2>4, <3>3
  <2>5. CASE pending = <<location>>
    <3>1. [location |-> location, outcome |-> outcomes[1]] = last
      BY <2>3, <2>5
    <3> HIDE DEF outcomes
    <3>2. Settled([history |-> history, pending |-> <<location>>], outcomes)
            = [history |-> Append(history, last), pending |-> <<>>]
      <4>1. outcomes[1] \in Outcomes
        BY <2>3, <2>5 DEF Outcomes
      <4>2. Settled([history |-> history, pending |-> <<location>>], outcomes)
            = [history |-> Append(history, [location |-> location, outcome |-> outcomes[1]]),
               pending |-> <<>>]
        BY <4>1, SettledAppends
      <4> QED BY <3>1, <4>2
    <3>3. pending # <<>>
      BY <2>5
    <3> QED BY <2>2, <2>5, <3>2, <3>3 DEF outcomes
  <2> QED BY <2>1, <2>4, <2>5
<1>3. /\ n \in Nat /\ trace \in Seq(Attempts(Outcomes))
      /\ pending = <<>> => trace = history
      /\ pending # <<>> => /\ Len(trace) = n + 1 /\ trace[n + 1] = last
                           /\ \A i \in 1 .. n : trace[i] = history[i]
  <2> HIDE DEF last
  <2> QED BY <1>1
<1>4. last.outcome = "pending"
  OBVIOUS
<1> DEFINE shown == Snapshot(progress)
<1>5. /\ shown.attempts = trace
      /\ shown.uncertain = Selected(trace, {"pending"})
      /\ shown.rejected = Selected(trace, {"globalRejected"})
  BY <1>2 DEF Snapshot
<1> HIDE DEF trace, last, shown, progress
<1>6. /\ Len(shown.uncertain) <= 1
      /\ shown.uncertain # <<>> => pending # <<>>
  <2>1. \A i \in 1 .. Len(trace) : trace[i].outcome \in {"pending"} => i = Len(trace)
    BY <1>3
  <2>2. /\ Len(Selected(trace, {"pending"})) <= 1
        /\ Selected(trace, {"pending"}) # <<>> =>
             Len(trace) \in 1 .. Len(trace) /\ trace[Len(trace)].outcome \in {"pending"}
    BY <1>3, <2>1, SelectedFew
  <2> QED BY <1>3, <1>5, <2>2
<1>7. shown.rejected # <<>> =>
        n \in 1 .. n /\ history[n].outcome = "globalRejected"
  <2>1. \A i \in 1 .. Len(trace) : trace[i].outcome \in {"globalRejected"} => i = Len(trace)
    BY <1>3, <1>4
  <2>2. Selected(trace, {"globalRejected"}) # <<>> =>
             Len(trace) \in 1 .. Len(trace) /\ trace[Len(trace)].outcome \in {"globalRejected"}
    BY <1>3, <2>1, SelectedFew
  <2> QED BY <1>3, <1>4, <1>5, <2>2
<1> QED BY <1>5, <1>6, <1>7 DEF trace, last, shown, progress

-----------------------------------------------------------------------------
(* What a write knows and reports                                          *)

KnownOutcomes == {"success", "replayedUnknown"}

Writing == pc # "idle" /\ kind[Running] = "write"

(* While a write runs, its record holds attempts of known outcome, and an  *)
(* outstanding one from its sending until its reply or the failure.        *)
RecordHolds ==
    /\ pc = "disconnecting" => kind[Running] = "disconnect"
    /\ pc \in Exchanging \ {"receive"} => ~run.attempted
    /\ Writing =>
          /\ writeProgress \in [history : Seq(Attempts(KnownOutcomes)),
                                pending : {<<>>, <<run.chunk>>}]
          /\ pc \notin {"receive", "failed"} => writeProgress.pending = <<>>
          /\ pc = "receive" => run.attempted /\ writeProgress.pending = <<run.chunk>>
          /\ pc = "failed" /\ writeProgress.pending # <<>> => error # "invalidInput"

(* The n-th attempt of the record is the n-th request that was sent, and   *)
(* what was acknowledged or rejected in answer to it is so.                *)
AttemptsHold ==
    Writing =>
       /\ run.sends = Len(writeProgress.history) + Len(writeProgress.pending)
       /\ \A id \in KnownIds : id[1] = Running =>
             \/ /\ id[3] \in 1 .. Len(writeProgress.history)
                /\ writeProgress.history[id[3]].location = id[2]
             \/ writeProgress.pending # <<>> /\ id = Awaited
       /\ Running \notin crossed =>
             /\ \A i \in 1 .. Len(writeProgress.history) :
                   writeProgress.history[i].outcome = "success" =>
                      <<Running, writeProgress.history[i].location, i>> \in applied
             /\ pc = "failed" /\ error = "plcRejected" /\ writeProgress.pending # <<>> =>
                   Awaited \notin Effects

(* A request is on the wire once and has no effect before it is served;    *)
(* what its reply says of a mutation is so and stays so.                   *)
RepliesHold ==
    /\ \A i, j \in 1 .. Len(toPlc) : toPlc[i].id = toPlc[j].id => i = j
    /\ \A m \in Messages(toPlc) : m.id \notin applied /\ \A s \in stray : s.id # m.id
    /\ \A r \in Messages(toClient) :
          /\ r.status = "ok" /\ Mutates(r) => r.id \in applied
          /\ r.status = "rejected" => r.id \notin Effects

(* What is shown to the caller of a write that returned.                   *)
ReportHolds(o) ==
    LET progress == report[o].progress
        attempts == progress.attempts
    IN  /\ attempts \in Seq(Attempts(Outcomes))
        /\ \A id \in KnownIds : id[1] = o =>
              id[3] \in 1 .. Len(attempts) /\ attempts[id[3]].location = id[2]
        /\ o \notin crossed => \A i \in 1 .. Len(attempts) :
              /\ attempts[i].outcome = "success" => <<o, attempts[i].location, i>> \in applied
              /\ attempts[i].outcome = "globalRejected" =>
                    <<o, attempts[i].location, i>> \notin Effects
        /\ report[o].result = "ok" => progress.uncertain = <<>> /\ progress.rejected = <<>>
        /\ Len(progress.uncertain) <= 1
        /\ progress.uncertain # <<>> =>
              report[o].result \notin {"ok", "plcRejected", "invalidInput"}

ReportsHold ==
    /\ DOMAIN report = Ops
    /\ \A o \in Ops : phase[o] = "done" /\ kind[o] = "write" => ReportHolds(o)

ProgressInv == RecordHolds /\ AttemptsHold /\ RepliesHold /\ ReportsHold

-----------------------------------------------------------------------------

LEMMA ProgressInvInit == Init => ProgressInv
<1> SUFFICES ASSUME Init PROVE ProgressInv
  OBVIOUS
<1>1. pc = "idle" /\ toPlc = <<>> /\ Messages(toPlc) = {} /\ Messages(toClient) = {}
      /\ DOMAIN report = Ops /\ \A o \in Ops : phase[o] = "new"
  BY DEF Init, Messages
<1>2. Len(toPlc) = 0
  BY <1>1
<1>3. RepliesHold
  BY <1>1, <1>2 DEF RepliesHold
<1>4. RecordHolds /\ AttemptsHold /\ ReportsHold
  BY <1>1 DEF RecordHolds, AttemptsHold, ReportsHold, Writing, Exchanging
<1> QED BY <1>3, <1>4 DEF ProgressInv

(* A report stays true: no request is added for a call that returned.      *)
LEMMA ReportStays ==
  ASSUME NEW o \in Ops, ReportHolds(o), report'[o] = report[o],
         \A id \in KnownIds' : id[1] = o => id \in KnownIds,
         \A id \in Effects' : id[1] = o => id \in Effects,
         applied \subseteq applied', crossed \subseteq crossed'
  PROVE  ReportHolds(o)'
<1> DEFINE attempts == report[o].progress.attempts
<1>1. \A i \in 1 .. Len(attempts) : <<o, attempts[i].location, i>>[1] = o
  OBVIOUS
<1>2. report'[o].progress = report[o].progress /\ report'[o].result = report[o].result
      /\ report'[o].progress.attempts = attempts
  OBVIOUS
<1>3. \A id \in KnownIds' : id[1] = o =>
         id[3] \in 1 .. Len(attempts) /\ attempts[id[3]].location = id[2]
  BY DEF ReportHolds
<1>4. o \notin crossed' => \A i \in 1 .. Len(attempts) :
              /\ attempts[i].outcome = "success" => <<o, attempts[i].location, i>> \in applied'
              /\ attempts[i].outcome = "globalRejected" =>
                    <<o, attempts[i].location, i>> \notin Effects'
  BY <1>1 DEF ReportHolds
<1>5. /\ attempts \in Seq(Attempts(Outcomes))
      /\ report[o].result = "ok" =>
           report[o].progress.uncertain = <<>> /\ report[o].progress.rejected = <<>>
      /\ Len(report[o].progress.uncertain) <= 1
      /\ report[o].progress.uncertain # <<>> =>
              report[o].result \notin {"ok", "plcRejected", "invalidInput"}
  BY DEF ReportHolds
<1> HIDE DEF attempts
<1> QED BY <1>2, <1>3, <1>4, <1>5, Zenon DEF ReportHolds

(* Steps that return no call.                                              *)
LEMMA ReportsStay ==
  ASSUME SessionInv, EffectInv, ReportsHold, UNCHANGED <<phase, kind, report>>,
         \A id \in KnownIds' : id \in KnownIds \/ phase[id[1]] # "done",
         \A id \in Effects' : id \in Effects \/ phase[id[1]] # "done",
         applied \subseteq applied', crossed \subseteq crossed'
  PROVE  ReportsHold'
<1>1. ASSUME NEW o \in Ops, phase[o] = "done", kind[o] = "write" PROVE ReportHolds(o)'
  <2>1. ReportHolds(o) /\ report'[o] = report[o]
    BY <1>1 DEF ReportsHold
  <2>2. \A id \in KnownIds' : id[1] = o => id \in KnownIds
    BY <1>1
  <2>3. \A id \in Effects' : id[1] = o => id \in Effects
    BY <1>1
  <2> QED BY <2>1, <2>2, <2>3, ReportStays
<1> QED BY <1>1 DEF ReportsHold

(* Steps that leave the requests on the wire, and take replies at most.    *)
LEMMA RepliesStay ==
  ASSUME RepliesHold, UNCHANGED <<toPlc, applied, stray>>,
         Messages(toClient)' \subseteq Messages(toClient), Effects' \subseteq Effects,
         \A r \in Messages(toClient) : Mutates(r)' = Mutates(r)
  PROVE  RepliesHold'
<1>1. Messages(toPlc)' = Messages(toPlc)
  BY DEF Messages
<1>2. \A i, j \in 1 .. Len(toPlc') : toPlc'[i].id = toPlc'[j].id => i = j
  BY DEF RepliesHold
<1>3. \A m \in Messages(toPlc)' : m.id \notin applied' /\ \A s \in stray' : s.id # m.id
  BY <1>1 DEF RepliesHold
<1>4. \A r \in Messages(toClient)' :
         /\ r.status = "ok" /\ Mutates(r)' => r.id \in applied'
         /\ r.status = "rejected" => r.id \notin Effects'
  BY DEF RepliesHold
<1> QED BY <1>2, <1>3, <1>4 DEF RepliesHold

LEMMA NoReplies ==
  ASSUME DropWire
  PROVE  RepliesHold'
<1>1. Messages(toPlc)' = {} /\ Messages(toClient)' = {} /\ toPlc' = <<>>
  BY DEF DropWire, Messages
<1>2. Len(toPlc') = 0
  BY <1>1
<1> QED BY <1>1, <1>2 DEF RepliesHold

(* Steps that leave the record as it is.                                   *)
LEMMA AttemptsStay ==
  ASSUME AttemptsHold, pc' # "idle" => pc # "idle" /\ Running' = Running,
         kind'[Running] = kind[Running], UNCHANGED writeProgress,
         run'.chunk = run.chunk, run'.sends = run.sends,
         KnownIds' \subseteq KnownIds, Effects' \subseteq Effects,
         applied \subseteq applied', crossed \subseteq crossed',
         Writing /\ pc' = "failed" /\ error' = "plcRejected" =>
            writeProgress.pending = <<>> \/ (pc = "failed" /\ error = "plcRejected")
  PROVE  AttemptsHold'
<1> SUFFICES ASSUME Writing'
             PROVE  AttemptsHold'
  BY DEF AttemptsHold
<1>1. Writing /\ Running' = Running /\ Awaited' = Awaited
  BY DEF Writing, Awaited
<1>2. /\ run'.sends = Len(writeProgress'.history) + Len(writeProgress'.pending)
      /\ \A id \in KnownIds' : id[1] = Running' =>
             \/ /\ id[3] \in 1 .. Len(writeProgress'.history)
                /\ writeProgress'.history[id[3]].location = id[2]
             \/ writeProgress'.pending # <<>> /\ id = Awaited'
  BY <1>1 DEF AttemptsHold
<1>3. Running' \notin crossed' =>
             /\ \A i \in 1 .. Len(writeProgress'.history) :
                   writeProgress'.history[i].outcome = "success" =>
                      <<Running', writeProgress'.history[i].location, i>> \in applied'
             /\ pc' = "failed" /\ error' = "plcRejected" /\ writeProgress'.pending # <<>> =>
                   Awaited' \notin Effects'
  BY <1>1 DEF AttemptsHold
<1> QED BY <1>2, <1>3 DEF AttemptsHold

-----------------------------------------------------------------------------
(* Steps                                                                   *)

(* The call that runs has not returned; requests of others are no concern. *)
LEMMA WritingCall ==
  ASSUME SessionInv, pc # "idle"
  PROVE  Running \in Ops /\ phase[Running] = "queued" /\ queue # <<>>
  BY RunningCall DEF SessionInv, QueueHolds

LEMMA CallerKeepsProgressInv ==
  ASSUME SessionInv, EffectInv, ProgressInv, NEW o \in Ops, Caller(o)
  PROVE  ProgressInv'
<1>1. /\ phase[o] \in {"new", "prepared"}
      /\ UNCHANGED <<pc, run, toPlc, toClient, stray, applied, crossed>>
      /\ \A p \in Ops : p # o => phase'[p] = phase[p] /\ kind'[p] = kind[p]
      /\ pc # "idle" => Running' = Running /\ Running \in Ops /\ Running # o
      /\ Messages(toClient)' = Messages(toClient)
      /\ KnownIds' = KnownIds /\ Effects' = Effects
      /\ \A id \in KnownIds : id[1] \in Ops /\ id[1] # o
      /\ \A m \in Messages(toClient) : Mutates(m)' = Mutates(m)
  BY CallerSendsNothing
<1>2. UNCHANGED <<writeProgress, error>>
  BY DEF Caller, CallGated, PrepareControl, PrepareRaw, EnterGate, clientVars, runVars
<1>3. RecordHolds'
  <2>1. pc # "idle" => kind'[Running'] = kind[Running]
    BY <1>1
  <2> QED BY <1>1, <1>2, <2>1 DEF ProgressInv, RecordHolds, Writing, Exchanging
<1>4. AttemptsHold'
  <2>1. CASE pc = "idle"
    BY <1>1, <2>1 DEF AttemptsHold, Writing
  <2>2. CASE pc # "idle"
    <3>1. Running' = Running /\ kind'[Running] = kind[Running]
      BY <1>1, <2>2
    <3> QED BY <1>1, <1>2, <2>2, <3>1, AttemptsStay DEF ProgressInv
  <2> QED BY <2>1, <2>2
<1>5. RepliesHold'
  BY <1>1, RepliesStay DEF ProgressInv
<1>6. ReportsHold'
  <2>1. /\ DOMAIN report' = Ops
        /\ \A p \in Ops : p # o => report'[p] = report[p]
        /\ phase'[o] = "done" => kind'[o] = "raw"
    <3>1. DOMAIN report = Ops /\ DOMAIN phase = Ops /\ DOMAIN kind = Ops
      BY DEF ProgressInv, ReportsHold, SessionInv, TypesHold, TypeOK
    <3>2. CASE CallGated(o) \/ PrepareControl(o) \/ EnterGate(o)
      BY <3>1, <3>2 DEF CallGated, PrepareControl, EnterGate
    <3>3. CASE PrepareRaw(o)
      BY <3>1, <3>3 DEF PrepareRaw
    <3> QED BY <3>2, <3>3 DEF Caller
  <2>2. ASSUME NEW p \in Ops, phase'[p] = "done", kind'[p] = "write" PROVE ReportHolds(p)'
    <3>1. p # o /\ phase[p] = "done" /\ kind[p] = "write" /\ report'[p] = report[p]
      BY <1>1, <2>1, <2>2
    <3>2. ReportHolds(p)
      BY <3>1 DEF ProgressInv, ReportsHold
    <3> QED BY <1>1, <3>1, <3>2, ReportStays
  <2> QED BY <2>1, <2>2 DEF ReportsHold
<1> QED BY <1>3, <1>4, <1>5, <1>6 DEF ProgressInv

(* Known attempts are attempts.                                            *)
LEMMA HistoryTyped ==
  ASSUME NEW history \in Seq(Attempts(KnownOutcomes))
  PROVE  /\ history \in Seq(Attempts(Outcomes)) /\ Len(history) \in Nat
         /\ \A i \in 1 .. Len(history) : history[i].outcome \in KnownOutcomes
         /\ \A location \in Nat, outcome \in KnownOutcomes :
              LET more == Append(history, [location |-> location, outcome |-> outcome])
              IN  /\ more \in Seq(Attempts(KnownOutcomes)) /\ Len(more) = Len(history) + 1
                  /\ \A i \in 1 .. Len(history) : more[i] = history[i]
                  /\ more[Len(history) + 1].location = location
                  /\ more[Len(history) + 1].outcome = outcome
<1>1. Attempts(KnownOutcomes) \subseteq Attempts(Outcomes)
  BY DEF Attempts, Outcomes, KnownOutcomes
<1>2. history \in Seq(Attempts(Outcomes)) /\ Len(history) \in Nat
  BY <1>1
<1>3. \A i \in 1 .. Len(history) : history[i].outcome \in KnownOutcomes
  <2>1. \A i \in 1 .. Len(history) : history[i] \in Attempts(KnownOutcomes)
    OBVIOUS
  <2>2. \A a \in Attempts(KnownOutcomes) : a.outcome \in KnownOutcomes
    BY DEF Attempts
  <2> QED BY <2>1, <2>2
<1>4. ASSUME NEW location \in Nat, NEW outcome \in KnownOutcomes
      PROVE  LET more == Append(history, [location |-> location, outcome |-> outcome])
             IN  /\ more \in Seq(Attempts(KnownOutcomes)) /\ Len(more) = Len(history) + 1
                 /\ \A i \in 1 .. Len(history) : more[i] = history[i]
                 /\ more[Len(history) + 1].location = location
                 /\ more[Len(history) + 1].outcome = outcome
  <2> DEFINE last == [location |-> location, outcome |-> outcome]
  <2>1. last \in Attempts(KnownOutcomes) /\ last.location = location /\ last.outcome = outcome
    BY DEF Attempts
  <2> HIDE DEF last
  <2>2. LET more == Append(history, last)
        IN  /\ more \in Seq(Attempts(KnownOutcomes)) /\ Len(more) = Len(history) + 1
            /\ \A i \in 1 .. Len(history) : more[i] = history[i]
            /\ more[Len(history) + 1] = last
    BY <2>1, AppendProperties
  <2> QED BY <2>1, <2>2 DEF last
<1> QED BY <1>2, <1>3, <1>4

(* The record once the outstanding attempt is settled.                     *)
Settling(outcome) ==
    [history |-> Append(writeProgress.history, [location |-> run.chunk, outcome |-> outcome]),
     pending |-> <<>>]

LEMMA SettlingOperations ==
  ASSUME SessionInv, RecordHolds, Writing, writeProgress.pending = <<run.chunk>>
  PROVE  /\ Replay(writeProgress) = Settling("replayedUnknown")
         /\ Acknowledge(writeProgress, <<"success">>) = Settling("success")
         /\ GlobalReject(writeProgress) = Settling("globalRejected")
<1> DEFINE history == writeProgress.history
<1>1. /\ history \in Seq(Attempts(KnownOutcomes)) /\ run.chunk \in Nat
      /\ writeProgress = [history |-> history, pending |-> <<run.chunk>>]
  BY DEF RecordHolds, SessionInv, TypesHold, RunState
<1>2. history \in Seq(Attempts(Outcomes))
  BY <1>1, HistoryTyped
<1>3. ASSUME NEW outcomes, outcomes[1] \in Outcomes
      PROVE  Settled(writeProgress, outcomes) = Settling(outcomes[1])
  <2>1. Settled([history |-> history, pending |-> <<run.chunk>>], outcomes)
          = [history |-> Append(history, [location |-> run.chunk, outcome |-> outcomes[1]]),
             pending |-> <<>>]
    <3> HIDE DEF history
    <3> QED BY <1>1, <1>2, <1>3, SettledAppends
  <2> QED BY <1>1, <2>1 DEF Settling
<1> HIDE DEF history
<1>4. ASSUME NEW outcome \in Outcomes PROVE Finish(writeProgress, outcome) = Settling(outcome)
  <2> DEFINE outcomes == [i \in DOMAIN writeProgress.pending |-> outcome]
  <2>1. outcomes[1] = outcome
    OBVIOUS
  <2>2. Finish(writeProgress, outcome) = Settled(writeProgress, outcomes)
    BY DEF Finish
  <2> HIDE DEF outcomes
  <2> QED BY <1>3, <2>1, <2>2
<1>5. {"replayedUnknown", "success", "globalRejected"} \subseteq Outcomes
  BY DEF Outcomes
<1>6. Acknowledge(writeProgress, <<"success">>) = Settling("success")
  <2> DEFINE outcomes == <<"success">>
  <2>1. outcomes[1] = "success"
    OBVIOUS
  <2>2. Acknowledge(writeProgress, outcomes) = Settled(writeProgress, outcomes)
    BY DEF Acknowledge
  <2> HIDE DEF outcomes
  <2>3. Acknowledge(writeProgress, outcomes) = Settling("success")
    BY <1>3, <1>5, <2>1, <2>2
  <2> QED BY <2>3 DEF outcomes
<1> QED BY <1>4, <1>5, <1>6 DEF Replay, GlobalReject

(* What is so of it: what was known stays known, and the request that was  *)
(* awaited is the last attempt of the history.                             *)
SettledHolds(after) ==
    /\ after \in [history : Seq(Attempts(KnownOutcomes)), pending : {<<>>}]
    /\ run.sends = Len(after.history)
    /\ \A id \in KnownIds : id[1] = Running =>
          id[3] \in 1 .. Len(after.history) /\ after.history[id[3]].location = id[2]

LEMMA SettlingKeepsAttempts ==
  ASSUME SessionInv, RecordHolds, AttemptsHold, Writing, writeProgress.pending = <<run.chunk>>,
         NEW outcome \in KnownOutcomes
  PROVE  /\ SettledHolds(Settling(outcome))
         /\ Running \notin crossed /\ (outcome = "success" => Awaited \in applied) =>
               \A i \in 1 .. Len(Settling(outcome).history) :
                  Settling(outcome).history[i].outcome = "success" =>
                     <<Running, Settling(outcome).history[i].location, i>> \in applied
<1> DEFINE history == writeProgress.history
           n == Len(history)
           more == Append(history, [location |-> run.chunk, outcome |-> outcome])
<1>1. /\ history \in Seq(Attempts(KnownOutcomes)) /\ run.chunk \in Nat
      /\ writeProgress = [history |-> history, pending |-> <<run.chunk>>]
  BY DEF RecordHolds, SessionInv, TypesHold, RunState
<1>2. Settling(outcome) = [history |-> more, pending |-> <<>>]
  BY DEF Settling
<1> HIDE DEF history
<1>3. /\ n \in Nat /\ more \in Seq(Attempts(KnownOutcomes)) /\ Len(more) = n + 1
      /\ \A i \in 1 .. n : more[i] = history[i]
      /\ more[n + 1].location = run.chunk /\ more[n + 1].outcome = outcome
  BY <1>1, HistoryTyped
<1> HIDE DEF more
<1>4. /\ Settling(outcome).history = more
      /\ Settling(outcome) \in [history : Seq(Attempts(KnownOutcomes)), pending : {<<>>}]
  BY <1>2, <1>3
<1>5. run.sends = n + 1
  <2>1. Len(writeProgress.pending) = 1
    BY <1>1
  <2> QED BY <2>1 DEF AttemptsHold, history
<1>6. Awaited[1] = Running /\ Awaited[2] = run.chunk /\ Awaited[3] = n + 1
      /\ Awaited = <<Running, run.chunk, n + 1>>
  BY <1>5 DEF Awaited
<1>7. ASSUME NEW id \in KnownIds, id[1] = Running
      PROVE  id[3] \in 1 .. n + 1 /\ more[id[3]].location = id[2]
  <2>1. \/ id[3] \in 1 .. n /\ history[id[3]].location = id[2]
        \/ id = Awaited
    BY <1>7 DEF AttemptsHold, history
  <2>2. CASE id[3] \in 1 .. n /\ history[id[3]].location = id[2]
    <3>1. id[3] \in 1 .. n + 1
      BY <1>3, <2>2
    <3> QED BY <1>3, <2>2, <3>1
  <2>3. CASE id = Awaited
    <3>1. n + 1 \in 1 .. n + 1
      BY <1>3
    <3> QED BY <1>3, <1>6, <2>3, <3>1
  <2> QED BY <2>1, <2>2, <2>3
<1>8. ASSUME Running \notin crossed, outcome = "success" => Awaited \in applied,
             NEW i \in 1 .. n + 1, more[i].outcome = "success"
      PROVE  <<Running, more[i].location, i>> \in applied
  <2>1. CASE i = n + 1
    BY <1>3, <1>6, <1>8, <2>1
  <2>2. CASE i # n + 1
    <3>1. i \in 1 .. n
      BY <1>3, <2>2
    <3> QED BY <1>3, <1>8, <3>1 DEF AttemptsHold, history
  <2> QED BY <2>1, <2>2
<1> QED BY <1>3, <1>4, <1>5, <1>7, <1>8 DEF SettledHolds

(* A step that settles the outstanding attempt and sends nothing.          *)
LEMMA SettlingKeepsRecord ==
  ASSUME SessionInv, RecordHolds, AttemptsHold, Writing, writeProgress.pending = <<run.chunk>>,
         NEW outcome \in KnownOutcomes, writeProgress' = Settling(outcome),
         pc' \in {"attempt", "chunk", "succeeded"}, pc' = "attempt" => ~run'.attempted,
         UNCHANGED <<queue, kind>>, run'.sends = run.sends,
         KnownIds' \subseteq KnownIds, applied \subseteq applied', crossed \subseteq crossed',
         Running \notin crossed' /\ outcome = "success" => Awaited \in applied
  PROVE  RecordHolds' /\ AttemptsHold'
<1>1. Running' = Running
  BY DEF Running
<1>2. /\ SettledHolds(writeProgress')
      /\ Running \notin crossed' =>
            \A i \in 1 .. Len(writeProgress'.history) :
               writeProgress'.history[i].outcome = "success" =>
                  <<Running, writeProgress'.history[i].location, i>> \in applied'
  <2>1. /\ SettledHolds(Settling(outcome))
        /\ Running \notin crossed /\ (outcome = "success" => Awaited \in applied) =>
              \A i \in 1 .. Len(Settling(outcome).history) :
                 Settling(outcome).history[i].outcome = "success" =>
                    <<Running, Settling(outcome).history[i].location, i>> \in applied
    BY SettlingKeepsAttempts
  <2> QED BY <2>1
<1>3. /\ writeProgress' \in [history : Seq(Attempts(KnownOutcomes)), pending : {<<>>}]
      /\ writeProgress'.pending = <<>> /\ Len(writeProgress'.pending) = 0
      /\ Len(writeProgress'.history) \in Nat
      /\ run.sends = Len(writeProgress'.history)
  BY <1>2 DEF SettledHolds
<1>4. RecordHolds'
  <2>1. writeProgress' \in [history : Seq(Attempts(KnownOutcomes)), pending : {<<>>, <<run'.chunk>>}]
    BY <1>3
  <2>2. pc' \notin {"receive", "failed", "disconnecting", "adopt", "send"}
    OBVIOUS
  <2> QED BY <1>3, <2>1, <2>2 DEF RecordHolds, Exchanging
<1>5. AttemptsHold'
  <2>1. run'.sends = Len(writeProgress'.history) + Len(writeProgress'.pending)
    BY <1>3
  <2>2. \A id \in KnownIds' : id[1] = Running' =>
           /\ id[3] \in 1 .. Len(writeProgress'.history)
           /\ writeProgress'.history[id[3]].location = id[2]
    BY <1>1, <1>2 DEF SettledHolds
  <2> QED BY <1>1, <1>2, <1>3, <2>1, <2>2 DEF AttemptsHold
<1> QED BY <1>4, <1>5

LEMMA CatchKeepsProgressInv ==
  ASSUME SessionInv, EffectInv, ProgressInv, pc \in Exchanging,
         NEW failure \in ErrorKinds \ {"invalidInput"},
         pc = "receive" => failure # "plcRejected", Catch(failure)
  PROVE  ProgressInv'
<1>1. DropWire /\ UNCHANGED <<queue, callVars, applied, crossed>>
  BY DEF Catch, CloseCurrent
<1>2. \/ pc' = "failed" /\ error' = failure /\ UNCHANGED <<run, writeProgress>>
      \/ /\ pc' = "attempt" /\ error' = error
         /\ run' = [run EXCEPT !.retries = run.retries - 1, !.reconnectFirst = TRUE,
                               !.attempted = FALSE]
         /\ writeProgress' = IF run.attempted /\ kind[Running] = "write"
                             THEN Replay(writeProgress) ELSE writeProgress
  BY DEF Catch, RetryBudgetAfter, NoRetry
<1>3. /\ Running' = Running /\ KnownIds' \subseteq KnownIds /\ Effects' \subseteq Effects
      /\ UNCHANGED <<phase, kind, report>> /\ pc # "idle"
  BY <1>1, DropWireIds DEF EffectInv, callVars, Running, Exchanging
<1>4. /\ run'.chunk = run.chunk /\ run'.sends = run.sends
      /\ pc' = "attempt" => ~run'.attempted
  BY <1>2 DEF SessionInv, TypesHold, RunState
<1>5. RepliesHold'
  BY <1>1, NoReplies
<1>6. ReportsHold'
  BY <1>1, <1>3, ReportsStay DEF ProgressInv
<1>7. pc # "receive" => ~run.attempted
  BY DEF ProgressInv, RecordHolds
<1>8. CASE pc' = "attempt" /\ Writing /\ run.attempted
  <2>1. writeProgress.pending = <<run.chunk>> /\ pc = "receive"
    BY <1>7, <1>8 DEF ProgressInv, RecordHolds
  <2>2. writeProgress' = Settling("replayedUnknown")
    BY <1>2, <1>8, <2>1, SettlingOperations DEF ProgressInv, Writing
  <2>3. "replayedUnknown" \in KnownOutcomes
    BY DEF KnownOutcomes
  <2>4. /\ pc' \in {"attempt", "chunk", "succeeded"} /\ UNCHANGED <<queue, kind>>
        /\ applied \subseteq applied' /\ crossed \subseteq crossed'
    BY <1>1, <1>3, <1>8
  <2>5. RecordHolds' /\ AttemptsHold'
    BY <1>3, <1>4, <1>8, <2>1, <2>2, <2>3, <2>4, SettlingKeepsRecord DEF ProgressInv
  <2> QED BY <1>5, <1>6, <2>5 DEF ProgressInv
<1>9. CASE ~(pc' = "attempt" /\ Writing /\ run.attempted)
  <2>1. Writing => writeProgress' = writeProgress
    BY <1>2, <1>9 DEF Writing
  <2>2. pc' = "attempt" /\ Writing => writeProgress.pending = <<>>
    BY <1>9 DEF ProgressInv, RecordHolds, Exchanging
  <2>3. Writing' = Writing
    BY <1>2, <1>3 DEF Writing
  <2>4. RecordHolds'
    <3>1. pc' \in {"attempt", "failed"}
      BY <1>2
    <3>2. Writing' => writeProgress' \in [history : Seq(Attempts(KnownOutcomes)),
                                          pending : {<<>>, <<run'.chunk>>}]
      BY <1>4, <2>1, <2>3 DEF ProgressInv, RecordHolds
    <3>3. pc' = "failed" => error' # "invalidInput"
      BY <1>2
    <3> QED BY <1>4, <2>1, <2>2, <2>3, <3>1, <3>2, <3>3 DEF RecordHolds, Exchanging
  <2>5. AttemptsHold'
    <3>1. CASE Writing
      <4>1. pc' = "failed" /\ error' = "plcRejected" => writeProgress.pending = <<>>
        <5>1. pc' = "failed" /\ error' = "plcRejected" => pc # "receive"
          BY <1>2
        <5> QED BY <3>1, <5>1 DEF ProgressInv, RecordHolds, Exchanging
      <4> QED BY <1>1, <1>3, <1>4, <2>1, <3>1, <4>1, AttemptsStay DEF ProgressInv
    <3>2. CASE ~Writing
      BY <2>3, <3>2 DEF AttemptsHold
    <3> QED BY <3>1, <3>2
  <2> QED BY <1>5, <1>6, <2>4, <2>5 DEF ProgressInv
<1> QED BY <1>8, <1>9

(* A write starts with an empty record, before anything is sent for it.    *)
LEMMA StartKeepsProgressInv ==
  ASSUME SessionInv, EffectInv, ProgressInv, Start
  PROVE  ProgressInv'
<1>1. /\ pc = "idle" /\ queue # <<>> /\ UNCHANGED <<queue, callVars, netVars>>
      /\ pc' = IF kind[Running] = "disconnect" THEN "disconnecting" ELSE "chunk"
      /\ kind[Running] = "write" => writeProgress' = NoProgress
      /\ run'.sends = 0
  BY DEF Start, Gate!Start, NoRun
<1>2. /\ Messages(toPlc)' = Messages(toPlc) /\ Messages(toClient)' = Messages(toClient)
      /\ Running' = Running /\ (\A m : Mutates(m)' = Mutates(m))
      /\ UNCHANGED <<phase, kind, report, toPlc, toClient, stray, applied, crossed>>
  BY <1>1 DEF Messages, Running, Mutates, netVars, callVars
<1>3. KnownIds' = KnownIds /\ Effects' = Effects
  BY <1>1, <1>2 DEF KnownIds, Effects, netVars
<1>4. RepliesHold' /\ ReportsHold'
  BY <1>2, <1>3, RepliesStay, ReportsStay DEF ProgressInv
<1>5. NoProgress.history = <<>> /\ NoProgress.pending = <<>> /\ Len(<<>>) = 0
      /\ NoProgress = [history |-> <<>>, pending |-> <<>>]
  BY DEF NoProgress
<1>6. RecordHolds'
  <2>1. kind[Running] = "write" => writeProgress' \in [history : Seq(Attempts(KnownOutcomes)),
                                                       pending : {<<>>, <<run'.chunk>>}]
    <3>1. <<>> \in Seq(Attempts(KnownOutcomes))
      OBVIOUS
    <3>2. [history |-> <<>>, pending |-> <<>>] \in [history : Seq(Attempts(KnownOutcomes)),
                                                     pending : {<<>>, <<run'.chunk>>}]
      BY <3>1, Zenon
    <3> QED BY <1>1, <1>5, <3>2, Zenon
  <2>2. pc' \in {"disconnecting", "chunk"}
    BY <1>1
  <2>3. kind[Running] = "write" => writeProgress'.pending = <<>>
    BY <1>1, <1>5
  <2> QED BY <1>1, <1>2, <2>1, <2>2, <2>3 DEF RecordHolds, Writing, Exchanging
<1>7. AttemptsHold'
  <2>1. phase[Running] = "queued"
    BY <1>1, RunningCall
  <2>2. \A id \in KnownIds : id[1] # Running
    BY <1>1, <2>1 DEF EffectInv, IdsHold
  <2>3. pc' \in {"disconnecting", "chunk"}
    BY <1>1
  <2> QED BY <1>1, <1>2, <1>3, <1>5, <2>2, <2>3 DEF AttemptsHold, Writing
<1> QED BY <1>4, <1>6, <1>7 DEF ProgressInv

(* A new request is begun, or not, with nothing outstanding.               *)
LEMMA BeginExchangeKeepsProgressInv ==
  ASSUME SessionInv, EffectInv, ProgressInv, BeginExchange
  PROVE  ProgressInv'
<1>1. /\ pc = "chunk" /\ UNCHANGED <<clientVars, queue, callVars, netVars>>
      /\ pc' \in {"failed", "attempt"}
      /\ run'.chunk = run.chunk /\ run'.sends = run.sends /\ ~run'.attempted
  BY DEF BeginExchange, Raise, SessionInv, TypesHold, RunState
<1>2. /\ Messages(toPlc)' = Messages(toPlc) /\ Messages(toClient)' = Messages(toClient)
      /\ Running' = Running /\ (\A m : Mutates(m)' = Mutates(m))
      /\ UNCHANGED <<phase, kind, report, writeProgress, toPlc, toClient, stray, applied, crossed>>
  BY <1>1 DEF Messages, Running, Mutates, netVars, callVars, clientVars
<1>3. KnownIds' = KnownIds /\ Effects' = Effects
  BY <1>1, <1>2 DEF KnownIds, Effects, netVars
<1>4. RepliesHold' /\ ReportsHold'
  BY <1>2, <1>3, RepliesStay, ReportsStay DEF ProgressInv
<1>5. Writing' = Writing /\ (Writing => writeProgress.pending = <<>>)
  BY <1>1, <1>2 DEF ProgressInv, RecordHolds, Writing
<1>6. RecordHolds'
  BY <1>1, <1>2, <1>5 DEF ProgressInv, RecordHolds, Exchanging
<1>7. AttemptsHold'
  BY <1>1, <1>2, <1>3, <1>5, AttemptsStay DEF ProgressInv
<1> QED BY <1>4, <1>6, <1>7 DEF ProgressInv

LEMMA ReconnectKeepsProgressInv ==
  ASSUME SessionInv, EffectInv, ProgressInv, Reconnect
  PROVE  ProgressInv'
<1>1. pc = "attempt" /\ pc \in Exchanging
  BY DEF Reconnect, Exchanging
<1>2. CASE \E failure \in {"protocol", "lifecycle"} : Catch(failure)
  <2>1. {"protocol", "lifecycle"} \subseteq ErrorKinds \ {"invalidInput"}
    BY DEF ErrorKinds
  <2> QED BY <1>1, <1>2, <2>1, CatchKeepsProgressInv
<1>3. CASE DropWire /\ pc' = "adopt"
           /\ UNCHANGED <<writeProgress, queue, callVars, error, run, applied, crossed>>
  <2>1. /\ KnownIds' \subseteq KnownIds /\ Effects' \subseteq Effects
        /\ Running' = Running /\ UNCHANGED <<phase, kind, report>>
    BY <1>3, DropWireIds DEF EffectInv, callVars, Running
  <2>2. RepliesHold' /\ ReportsHold'
    BY <1>3, <2>1, NoReplies, ReportsStay DEF ProgressInv
  <2>3. RecordHolds'
    BY <1>1, <1>3, <2>1 DEF ProgressInv, RecordHolds, Writing, Exchanging
  <2>4. AttemptsHold'
    BY <1>1, <1>3, <2>1, AttemptsStay DEF ProgressInv
  <2> QED BY <2>2, <2>3, <2>4 DEF ProgressInv
<1> QED BY <1>2, <1>3 DEF Reconnect

LEMMA AdoptKeepsProgressInv ==
  ASSUME SessionInv, EffectInv, ProgressInv, AdoptPduLength
  PROVE  ProgressInv'
<1>1. /\ pc = "adopt" /\ pc' = "send"
      /\ UNCHANGED <<writeProgress, queue, callVars, error, run, netVars>>
  BY DEF AdoptPduLength
<1>2. /\ Messages(toPlc)' = Messages(toPlc) /\ Messages(toClient)' = Messages(toClient)
      /\ Running' = Running /\ (\A m : Mutates(m)' = Mutates(m))
      /\ UNCHANGED <<phase, kind, report, toPlc, toClient, stray, applied, crossed>>
  BY <1>1 DEF Messages, Running, Mutates, netVars, callVars
<1>3. KnownIds' = KnownIds /\ Effects' = Effects
  BY <1>1, <1>2 DEF KnownIds, Effects, netVars
<1>4. RepliesHold' /\ ReportsHold'
  BY <1>2, <1>3, RepliesStay, ReportsStay DEF ProgressInv
<1>5. RecordHolds'
  BY <1>1, <1>2 DEF ProgressInv, RecordHolds, Writing, Exchanging
<1>6. AttemptsHold'
  BY <1>1, <1>2, <1>3, AttemptsStay DEF ProgressInv
<1> QED BY <1>4, <1>5, <1>6 DEF ProgressInv

(* The request is new, and the record has it outstanding before it is sent. *)
LEMMA SendKeepsProgressInv ==
  ASSUME SessionInv, EffectInv, ProgressInv, Send
  PROVE  ProgressInv'
<1>1. pc \in Exchanging /\ pc # "receive"
  BY DEF Send, Exchanging
<1>2. CASE \E failure \in {"disconnected", "protocol"} : Catch(failure)
  <2>1. {"disconnected", "protocol"} \subseteq ErrorKinds \ {"invalidInput"}
    BY DEF ErrorKinds
  <2> QED BY <1>1, <1>2, <2>1, CatchKeepsProgressInv
<1>3. CASE /\ pc' = "receive"
           /\ writeProgress' = IF kind[Running] = "write" THEN Sent(writeProgress, <<run.chunk>>)
                               ELSE writeProgress
  <2>1. /\ toPlc' = Append(toPlc, SentRequest) /\ toPlc \in Seq(Message) /\ SentRequest \in Message
        /\ run' = [run EXCEPT !.sends = run.sends + 1, !.attempted = TRUE,
                              !.allowance = MaxStaleResponses]
        /\ UNCHANGED <<queue, callVars, toClient, stray, applied, crossed>>
        /\ phase[Running] = "queued" /\ Running' = Running
        /\ run'.chunk = run.chunk /\ run'.sends = run.sends + 1
        /\ run.chunk \in Nat /\ run.sends \in Nat
        /\ \A m : Mutates(m)' = Mutates(m)
    BY <1>3, SendAdds
  <2>2. /\ SentRequest.id = SentId /\ SentId[1] = Running
        /\ Messages(toPlc)' = Messages(toPlc) \union {SentRequest}
        /\ Messages(toClient)' = Messages(toClient)
        /\ KnownIds' = KnownIds \union {SentId} /\ SentId \notin KnownIds
        /\ Effects' \subseteq Effects \union {SentId}
    BY <1>3, SendAdds
  <2>3. UNCHANGED <<phase, kind, report>>
    BY <2>1 DEF callVars
  <2>4. ReportsHold'
    <3>1. phase[SentId[1]] # "done"
      BY <2>1, <2>2
    <3> QED BY <2>1, <2>2, <2>3, <3>1, ReportsStay DEF ProgressInv
  <2>5. RepliesHold'
    <3>1. /\ \A m \in Messages(toPlc) \union Messages(toClient) : m.id \in KnownIds
          /\ \A s \in stray : s.id \in KnownIds
          /\ applied \subseteq KnownIds
      BY DEF KnownIds
    <3>2. /\ Len(toPlc) \in Nat /\ Len(toPlc') = Len(toPlc) + 1
          /\ \A i \in 1 .. Len(toPlc) : toPlc'[i] = toPlc[i] /\ toPlc[i] \in Messages(toPlc)
          /\ toPlc'[Len(toPlc) + 1] = SentRequest
      BY <2>1 DEF Messages
    <3>3. ASSUME NEW i \in 1 .. Len(toPlc'), NEW j \in 1 .. Len(toPlc'), toPlc'[i].id = toPlc'[j].id
          PROVE  i = j
      <4>1. ASSUME NEW k \in 1 .. Len(toPlc) PROVE toPlc'[k].id # SentId
        BY <2>2, <3>1, <3>2
      <4>2. \A k \in 1 .. Len(toPlc') : k \in 1 .. Len(toPlc) \/ k = Len(toPlc) + 1
        BY <3>2
      <4>3. CASE i \in 1 .. Len(toPlc) /\ j \in 1 .. Len(toPlc)
        BY <3>2, <3>3, <4>3 DEF ProgressInv, RepliesHold
      <4> QED BY <2>2, <3>2, <3>3, <4>1, <4>2, <4>3
    <3>4. \A m \in Messages(toPlc)' : m.id \notin applied' /\ \A s \in stray' : s.id # m.id
      BY <2>1, <2>2, <3>1 DEF ProgressInv, RepliesHold
    <3>5. \A r \in Messages(toClient)' :
             /\ r.status = "ok" /\ Mutates(r)' => r.id \in applied'
             /\ r.status = "rejected" => r.id \notin Effects'
      BY <2>1, <2>2, <3>1 DEF ProgressInv, RepliesHold
    <3> QED BY <3>3, <3>4, <3>5 DEF RepliesHold
  <2>6. run'.attempted
    BY <2>1 DEF SessionInv, TypesHold, RunState
  <2>7. Writing' = Writing /\ (Writing => kind[Running] = "write")
    BY <1>1, <1>3, <2>1, <2>3 DEF Writing, Exchanging
  <2>8. Writing => /\ writeProgress.pending = <<>>
                   /\ writeProgress.history \in Seq(Attempts(KnownOutcomes))
                   /\ writeProgress' = [history |-> writeProgress.history, pending |-> <<run.chunk>>]
    BY <1>1, <1>3 DEF ProgressInv, RecordHolds, Writing, Exchanging, Sent
  <2>9. RecordHolds'
    <3>1. Writing => /\ writeProgress' \in [history : Seq(Attempts(KnownOutcomes)),
                                            pending : {<<>>, <<run'.chunk>>}]
                     /\ writeProgress'.pending = <<run'.chunk>>
      BY <2>1, <2>8
    <3> QED BY <1>3, <2>6, <2>7, <3>1 DEF RecordHolds, Exchanging
  <2>10. AttemptsHold'
    <3> SUFFICES ASSUME Writing PROVE AttemptsHold'
      BY <2>7 DEF AttemptsHold
    <3> DEFINE n == Len(writeProgress.history)
    <3>1. /\ n \in Nat /\ writeProgress'.history = writeProgress.history
          /\ writeProgress'.pending = <<run.chunk>> /\ Len(writeProgress'.pending) = 1
          /\ writeProgress'.pending # <<>> /\ writeProgress.pending = <<>>
      <4>1. n \in Nat
        <5>1. writeProgress.history \in Seq(Attempts(KnownOutcomes))
          BY <2>8
        <5> QED BY <5>1, LenProperties
      <4>2. writeProgress'.history = writeProgress.history /\ writeProgress'.pending = <<run.chunk>>
        BY <2>8
      <4>3. Len(<<run.chunk>>) = 1 /\ <<run.chunk>> # <<>>
        OBVIOUS
      <4> QED BY <2>8, <4>1, <4>2, <4>3
    <3>2. run.sends = n
      <4>1. Len(writeProgress.pending) = 0
        BY <3>1
      <4> QED BY <3>1, <4>1 DEF ProgressInv, AttemptsHold
    <3>3. Awaited' = SentId
      BY <2>1 DEF Awaited, SentId
    <3>4. run'.sends = Len(writeProgress'.history) + Len(writeProgress'.pending)
      BY <2>1, <3>1, <3>2
    <3>5. \A id \in KnownIds' : id[1] = Running' =>
             \/ /\ id[3] \in 1 .. Len(writeProgress'.history)
                /\ writeProgress'.history[id[3]].location = id[2]
             \/ writeProgress'.pending # <<>> /\ id = Awaited'
      BY <2>1, <2>2, <3>1, <3>3 DEF ProgressInv, AttemptsHold
    <3>6. Running' \notin crossed' => \A i \in 1 .. Len(writeProgress'.history) :
             writeProgress'.history[i].outcome = "success" =>
                <<Running', writeProgress'.history[i].location, i>> \in applied'
      BY <2>1, <3>1 DEF ProgressInv, AttemptsHold
    <3> QED BY <1>3, <3>4, <3>5, <3>6 DEF AttemptsHold
  <2> QED BY <2>4, <2>5, <2>9, <2>10 DEF ProgressInv
<1> QED BY <1>2, <1>3 DEF Send

(* The reply that is delivered settles the attempt, or fails the write.    *)
LEMMA ReceiveKeepsProgressInv ==
  ASSUME SessionInv, EffectInv, ProgressInv, Receive
  PROVE  ProgressInv'
<1> DEFINE reply == Head(toClient)
<1>1. pc = "receive" /\ pc \in Exchanging /\ toClient # <<>>
  BY DEF Receive, Exchanging
<1>2. CASE Catch("protocol")
  BY <1>1, <1>2, CatchKeepsProgressInv DEF ErrorKinds
<1>3. CASE /\ toClient' = Tail(toClient)
           /\ UNCHANGED <<queue, callVars, toPlc, stray, applied>>
           /\ \/ /\ run' = [run EXCEPT !.allowance = run.allowance - 1]
                 /\ UNCHANGED <<crossed, writeProgress, pc, error>>
              \/ /\ crossed' = IF reply.id = Awaited THEN crossed ELSE crossed \union {Running}
                 /\ Decoded(reply.status)
  <2>1. reply \in Messages(toClient) /\ reply \in Reply
        /\ Messages(toClient)' \subseteq Messages(toClient) /\ Messages(toPlc)' = Messages(toPlc)
    <3>1. toClient \in Seq(Reply)
      BY DEF SessionInv, TypesHold
    <3> QED BY <1>1, <1>3, <3>1, WireContents DEF Messages
  <2> HIDE DEF reply
  <2>2. /\ KnownIds' \subseteq KnownIds /\ Running' = Running /\ (\A m : Mutates(m)' = Mutates(m))
        /\ UNCHANGED <<phase, kind, report>> /\ crossed \subseteq crossed'
    BY <1>3, <2>1 DEF KnownIds, Running, Mutates, callVars
  <2>3. Effects' = Effects
    BY <1>3, <2>1, <2>2 DEF Effects
  <2>4. RepliesHold' /\ ReportsHold'
    BY <1>3, <2>1, <2>2, <2>3, RepliesStay, ReportsStay DEF ProgressInv
  <2>5. CASE run' = [run EXCEPT !.allowance = run.allowance - 1]
             /\ UNCHANGED <<crossed, writeProgress, pc, error>>
    <3>1. run'.chunk = run.chunk /\ run'.sends = run.sends /\ run'.attempted = run.attempted
      BY <2>5 DEF SessionInv, TypesHold, RunState
    <3>2. RecordHolds'
      BY <1>1, <2>2, <2>5, <3>1 DEF ProgressInv, RecordHolds, Writing, Exchanging
    <3>3. AttemptsHold'
      BY <1>1, <1>3, <2>2, <2>3, <2>5, <3>1, AttemptsStay DEF ProgressInv
    <3> QED BY <2>4, <3>2, <3>3 DEF ProgressInv
  <2>6. CASE crossed' = (IF reply.id = Awaited THEN crossed ELSE crossed \union {Running})
             /\ Decoded(reply.status)
    <3>1. CASE kind[Running] # "write"
      <4>1. pc' \in {"chunk", "succeeded", "failed"}
        BY <2>6 DEF Decoded
      <4>2. ~Writing'
        BY <2>2, <3>1 DEF Writing
      <4>3. RecordHolds' /\ AttemptsHold'
        BY <4>1, <4>2 DEF RecordHolds, AttemptsHold, Exchanging
      <4> QED BY <2>4, <4>3 DEF ProgressInv
    <3>2. CASE kind[Running] = "write"
      <4>1. Writing /\ writeProgress.pending = <<run.chunk>> /\ run.attempted
        BY <1>1, <3>2 DEF ProgressInv, RecordHolds, Writing
      <4>2. Mutates(reply) <=> Mutating(reply.id[1])
        BY DEF Mutates, Mutating
      <4>3. Mutating(Running)
        BY <3>2 DEF Mutating, Safety
      <4>4. Running \notin crossed' => reply.id = Awaited /\ Running \notin crossed
                                       /\ Awaited[1] = Running
        BY <2>6 DEF Awaited
      <4>5. CASE reply.status = "ok"
        <5>1. MayAcknowledge(writeProgress, <<"success">>)
          BY <4>1 DEF MayAcknowledge
        <5>2. /\ writeProgress' = Acknowledge(writeProgress, <<"success">>)
              /\ pc' \in {"chunk", "succeeded"}
              /\ run' = [run EXCEPT !.chunk = run.chunk + 1] \/ run' = run
          BY <2>6, <3>2, <4>5, <5>1 DEF Decoded
        <5>3. writeProgress' = Settling("success")
          BY <4>1, <5>2, SettlingOperations DEF ProgressInv
        <5>4. run'.sends = run.sends
          BY <5>2 DEF SessionInv, TypesHold, RunState
        <5>5. Running \notin crossed' => Awaited \in applied
          BY <2>1, <4>2, <4>3, <4>4, <4>5 DEF ProgressInv, RepliesHold
        <5>6. "success" \in KnownOutcomes
          BY DEF KnownOutcomes
        <5>7. /\ pc' \in {"attempt", "chunk", "succeeded"} /\ pc' # "attempt"
              /\ UNCHANGED <<queue, kind>> /\ applied \subseteq applied'
          BY <1>3, <2>2, <5>2
        <5>8. RecordHolds' /\ AttemptsHold'
          BY <2>2, <4>1, <5>3, <5>4, <5>5, <5>6, <5>7, SettlingKeepsRecord DEF ProgressInv
        <5> QED BY <2>4, <5>8 DEF ProgressInv
      <4>6. CASE reply.status # "ok"
        <5>1. /\ pc' = "failed" /\ UNCHANGED <<run, writeProgress>>
              /\ error' = IF reply.status = "rejected" THEN "plcRejected" ELSE "protocol"
          BY <2>6, <3>2, <4>6 DEF Decoded
        <5>2. error' # "invalidInput"
          BY <5>1
        <5>3. RecordHolds'
          BY <1>1, <2>2, <4>1, <5>1, <5>2 DEF ProgressInv, RecordHolds, Writing, Exchanging
        <5>4. AttemptsHold'
          <6>1. Writing' /\ Running' = Running /\ Awaited' = Awaited
            BY <2>2, <3>2, <5>1 DEF Writing, Awaited
          <6>2. Running \notin crossed' /\ error' = "plcRejected" => Awaited \notin Effects
            BY <2>1, <4>4, <5>1 DEF ProgressInv, RepliesHold
          <6>3. /\ run'.sends = Len(writeProgress'.history) + Len(writeProgress'.pending)
                /\ \A id \in KnownIds' : id[1] = Running' =>
                      \/ /\ id[3] \in 1 .. Len(writeProgress'.history)
                         /\ writeProgress'.history[id[3]].location = id[2]
                      \/ writeProgress'.pending # <<>> /\ id = Awaited'
            BY <2>2, <4>1, <5>1, <6>1 DEF ProgressInv, AttemptsHold
          <6>4. Running' \notin crossed' => \A i \in 1 .. Len(writeProgress'.history) :
                   writeProgress'.history[i].outcome = "success" =>
                      <<Running', writeProgress'.history[i].location, i>> \in applied'
            BY <1>3, <2>2, <4>1, <4>4, <5>1 DEF ProgressInv, AttemptsHold
          <6> QED BY <2>3, <6>1, <6>2, <6>3, <6>4 DEF AttemptsHold
        <5> QED BY <2>4, <5>3, <5>4 DEF ProgressInv
      <4> QED BY <4>5, <4>6
    <3> QED BY <3>1, <3>2
  <2> QED BY <1>3, <2>4, <2>5, <2>6
<1> QED BY <1>2, <1>3 DEF Receive

(* What remains of the record when a write returns, and what is reported.  *)
LEMMA WriteReports ==
  ASSUME SessionInv, EffectInv, ProgressInv, Writing, pc \in {"succeeded", "failed"},
         NEW o \in Ops, o = Running,
         LET final == IF pc = "failed" THEN FinalProgress(writeProgress) ELSE writeProgress
             result == IF pc = "failed" THEN error ELSE "ok"
         IN  report' = [report EXCEPT ![Running] = [result |-> result, progress |-> Snapshot(final)]],
         KnownIds' \subseteq KnownIds, Effects' \subseteq Effects, UNCHANGED <<applied, crossed>>
  PROVE  ReportHolds(o)'
<1> DEFINE final == IF pc = "failed" THEN FinalProgress(writeProgress) ELSE writeProgress
           result == IF pc = "failed" THEN error ELSE "ok"
           history == writeProgress.history
           pending == writeProgress.pending
           n == Len(history)
           Latest(outcome) == [location |-> run.chunk, outcome |-> outcome]
           shown == Snapshot(final)
<1>1. /\ history \in Seq(Attempts(KnownOutcomes)) /\ pending \in {<<>>, <<run.chunk>>}
      /\ writeProgress = [history |-> history, pending |-> pending]
      /\ run.chunk \in Nat
  BY KnownIdsTyped DEF ProgressInv, RecordHolds
<1>2. /\ history \in Seq(Attempts(Outcomes)) /\ n \in Nat
      /\ \A i \in 1 .. n : history[i].outcome \notin {"pending", "globalRejected"}
  BY <1>1, HistoryTyped DEF KnownOutcomes
<1>3. pending = <<>> \/ pending = <<run.chunk>>
  BY <1>1
<1>4. pending # <<>> => pc = "failed" /\ error # "invalidInput" /\ error # "ok"
  BY <1>3 DEF ProgressInv, RecordHolds, SessionInv, TypesHold, TypeOK, ErrorKinds
<1>5. pc = "failed" => error # "ok"
  BY DEF SessionInv, TypesHold, TypeOK, ErrorKinds
<1>6. report'[o].progress = shown /\ report'[o].result = result
  BY DEF ProgressInv, ReportsHold
<1>7. ASSUME NEW outcome \in Outcomes
      PROVE  LET more == Append(history, Latest(outcome))
             IN  /\ more \in Seq(Attempts(Outcomes)) /\ Len(more) = n + 1
                 /\ \A i \in 1 .. n : more[i] = history[i]
                 /\ more[n + 1].location = run.chunk /\ more[n + 1].outcome = outcome
  <2>1. Latest(outcome) \in Attempts(Outcomes) /\ Latest(outcome).location = run.chunk
        /\ Latest(outcome).outcome = outcome
    BY <1>1 DEF Attempts
  <2> HIDE DEF Latest, history
  <2>2. LET more == Append(history, Latest(outcome))
        IN  /\ more \in Seq(Attempts(Outcomes)) /\ Len(more) = n + 1
            /\ \A i \in 1 .. n : more[i] = history[i]
            /\ more[n + 1] = Latest(outcome)
    BY <1>2, <2>1, AppendProperties
  <2> QED BY <2>1, <2>2
<1> DEFINE Accounted(attempts) ==
             /\ attempts \in Seq(Attempts(Outcomes))
             /\ \A id \in KnownIds : id[1] = o =>
                   id[3] \in 1 .. Len(attempts) /\ attempts[id[3]].location = id[2]
             /\ o \notin crossed => \A i \in 1 .. Len(attempts) :
                   /\ attempts[i].outcome = "success" => <<o, attempts[i].location, i>> \in applied
                   /\ attempts[i].outcome = "globalRejected" =>
                         <<o, attempts[i].location, i>> \notin Effects
<1>8. pending = <<>> => Accounted(history)
  BY <1>2 DEF ProgressInv, AttemptsHold
<1>9. ASSUME pending = <<run.chunk>>, NEW outcome \in {"pending", "globalRejected"},
             outcome = "globalRejected" => error = "plcRejected"
      PROVE  Accounted(Append(history, Latest(outcome)))
  <2> DEFINE more == Append(history, Latest(outcome))
  <2>1. /\ more \in Seq(Attempts(Outcomes)) /\ Len(more) = n + 1
        /\ \A i \in 1 .. n : more[i] = history[i]
        /\ more[n + 1].location = run.chunk /\ more[n + 1].outcome = outcome
    BY <1>7, <1>9 DEF Outcomes
  <2>2. Awaited = <<o, run.chunk, n + 1>>
    <3>1. Len(pending) = 1
      BY <1>9
    <3> QED BY <3>1 DEF ProgressInv, AttemptsHold, Awaited
  <2>3. pc = "failed"
    BY <1>4, <1>9
  <2> HIDE DEF more
  <2>4. ASSUME NEW id \in KnownIds, id[1] = o
        PROVE  id[3] \in 1 .. n + 1 /\ more[id[3]].location = id[2]
    <3>1. \/ id[3] \in 1 .. n /\ history[id[3]].location = id[2]
          \/ id = Awaited
      BY <2>4 DEF ProgressInv, AttemptsHold
    <3>2. n + 1 \in 1 .. n + 1 /\ \A i \in 1 .. n : i \in 1 .. n + 1
      BY <1>2
    <3>3. CASE id = Awaited
      <4>1. id[2] = run.chunk /\ id[3] = n + 1
        BY <2>2, <3>3
      <4> QED BY <2>1, <3>2, <4>1
    <3> QED BY <2>1, <3>1, <3>2, <3>3
  <2>5. ASSUME o \notin crossed, NEW i \in 1 .. n + 1
        PROVE  /\ more[i].outcome = "success" => <<o, more[i].location, i>> \in applied
               /\ more[i].outcome = "globalRejected" => <<o, more[i].location, i>> \notin Effects
    <3>1. CASE i = n + 1
      <4>1. outcome = "globalRejected" => Awaited \notin Effects
        BY <1>9, <2>3, <2>5 DEF ProgressInv, AttemptsHold
      <4> QED BY <1>9, <2>1, <2>2, <3>1, <4>1
    <3>2. CASE i # n + 1
      <4>1. i \in 1 .. n
        BY <1>2, <3>2
      <4> QED BY <1>2, <2>1, <2>5, <4>1 DEF ProgressInv, AttemptsHold
    <3> QED BY <3>1, <3>2
  <2> QED BY <2>1, <2>4, <2>5 DEF more
<1>10. /\ Accounted(shown.attempts)
       /\ Len(shown.uncertain) <= 1
       /\ shown.uncertain # <<>> => result \notin {"ok", "plcRejected", "invalidInput"}
       /\ result = "ok" => shown.uncertain = <<>> /\ shown.rejected = <<>>
  <2> HIDE DEF Accounted
  <2>1. ASSUME NEW h \in Seq(Attempts(Outcomes)), NEW p \in {<<>>, <<run.chunk>>},
               final = [history |-> h, pending |-> p],
               \A i \in 1 .. Len(h) : h[i].outcome # "pending",
               \A i \in 1 .. Len(h) : h[i].outcome = "globalRejected" => i = Len(h) /\ p = <<>>,
               Accounted(IF p = <<>> THEN h ELSE Append(h, Latest("pending"))),
               p # <<>> => result \notin {"ok", "plcRejected", "invalidInput"},
               result = "ok" => \A i \in 1 .. Len(h) : h[i].outcome # "globalRejected"
        PROVE  /\ Accounted(shown.attempts)
               /\ Len(shown.uncertain) <= 1
               /\ shown.uncertain # <<>> => result \notin {"ok", "plcRejected", "invalidInput"}
               /\ result = "ok" => shown.uncertain = <<>> /\ shown.rejected = <<>>
    <3> DEFINE s == Snapshot([history |-> h, pending |-> p])
    <3>1. /\ s.attempts = (IF p = <<>> THEN h
                           ELSE Append(h, [location |-> run.chunk, outcome |-> "pending"]))
          /\ Len(s.uncertain) <= 1
          /\ s.uncertain # <<>> => p # <<>>
          /\ s.rejected # <<>> => /\ Len(h) \in 1 .. Len(h)
                                  /\ h[Len(h)].outcome = "globalRejected"
      BY <1>1, <2>1, SnapshotLists
    <3>2. shown = s
      BY <2>1
    <3> HIDE DEF s, shown, result, final
    <3> QED BY <2>1, <3>1, <3>2
  <2>2. CASE pending = <<>>
    <3>1. final = [history |-> history, pending |-> <<>>]
      <4>1. GlobalReject(writeProgress) = [history |-> history, pending |-> <<>>]
        <5> DEFINE outcomes == [i \in {1} |-> "globalRejected"]
        <5>1. outcomes[1] \in Outcomes
          BY DEF Outcomes
        <5> HIDE DEF outcomes, history
        <5>2. Settled([history |-> history, pending |-> <<>>], outcomes)
                = [history |-> history, pending |-> <<>>]
          BY <1>1, <1>2, <5>1, SettledAppends
        <5>3. \A x, y : Settled([history |-> history, pending |-> <<>>], x)
                          = Settled([history |-> history, pending |-> <<>>], y)
          BY DEF Settled
        <5>4. writeProgress = [history |-> history, pending |-> <<>>]
          BY <1>1, <2>2
        <5> QED BY <5>2, <5>3, <5>4 DEF GlobalReject, Finish
      <4> QED BY <1>1, <2>2, <4>1 DEF FinalProgress
    <3> HIDE DEF final, shown, history
    <3>2. \A i \in 1 .. Len(history) : history[i].outcome # "pending" /\ history[i].outcome # "globalRejected"
      BY <1>2
    <3> QED BY <1>2, <1>8, <2>1, <2>2, <3>1, <3>2
  <2>3. CASE pending = <<run.chunk>> /\ error # "plcRejected"
    <3>1. final = [history |-> history, pending |-> <<run.chunk>>] /\ pending # <<>>
      BY <1>1, <2>3 DEF FinalProgress
    <3>2. result \notin {"ok", "plcRejected", "invalidInput"} /\ result # "ok"
      BY <1>4, <2>3, <3>1
    <3>3. Accounted(Append(history, Latest("pending")))
      BY <1>9, <2>3
    <3> HIDE DEF final, shown, history, result, Latest
    <3> QED BY <1>2, <2>1, <2>3, <3>1, <3>2, <3>3
  <2>4. CASE pending = <<run.chunk>> /\ error = "plcRejected"
    <3> DEFINE more == Append(history, Latest("globalRejected"))
    <3>1. final = [history |-> more, pending |-> <<>>]
      <4>1. pc = "failed" /\ GlobalReject(writeProgress) = Settling("globalRejected")
        BY <1>4, <2>4, SettlingOperations DEF ProgressInv
      <4> QED BY <2>4, <4>1 DEF FinalProgress, Settling
    <3>2. /\ more \in Seq(Attempts(Outcomes)) /\ Len(more) = n + 1
          /\ \A i \in 1 .. n : more[i] = history[i]
          /\ more[n + 1].outcome = "globalRejected"
      BY <1>7 DEF Outcomes
    <3>3. Accounted(more)
      BY <1>9, <2>4
    <3>4. result = "plcRejected"
      BY <1>4, <2>4
    <3> HIDE DEF more
    <3>5. ASSUME NEW i \in 1 .. Len(more)
          PROVE  more[i].outcome # "pending" /\ (more[i].outcome = "globalRejected" => i = Len(more))
      <4>1. i \in 1 .. n \/ i = n + 1
        BY <1>2, <3>2
      <4> QED BY <1>2, <3>2, <4>1
    <3> HIDE DEF final, shown, history, result
    <3> QED BY <2>1, <3>1, <3>2, <3>3, <3>4, <3>5
  <2> QED BY <1>3, <2>2, <2>3, <2>4
<1> HIDE DEF shown, result
<1> QED BY <1>6, <1>10 DEF ReportHolds

(* A call returns: a write with its report, and nothing is sent by that.   *)
LEMMA ReturnKeepsProgressInv ==
  ASSUME SessionInv, EffectInv, ProgressInv, Succeed \/ Fail \/ Disconnect
  PROVE  ProgressInv'
<1>1. /\ pc \in {"succeeded", "failed", "disconnecting"} /\ pc \notin Exchanging /\ pc # "idle"
      /\ pc' = "idle" /\ phase' = [phase EXCEPT ![Running] = "done"]
      /\ UNCHANGED <<kind, applied, crossed>>
  BY DEF Succeed, Fail, Disconnect, Return, Exchanging
<1>2. \/ UNCHANGED <<toPlc, toClient, stray>>
      \/ DropWire
  BY DEF Succeed, Fail, Disconnect, CloseCurrent
<1>3. Running \in Ops /\ DOMAIN report = Ops
  BY <1>1, WritingCall DEF ProgressInv, ReportsHold
<1>4. KnownIds' \subseteq KnownIds /\ Effects' \subseteq Effects
  <2>1. CASE UNCHANGED <<toPlc, toClient, stray>>
    <3>1. /\ Messages(toPlc)' = Messages(toPlc) /\ Messages(toClient)' = Messages(toClient)
          /\ \A m : Mutates(m)' = Mutates(m)
      BY <1>1, <2>1 DEF Messages, Mutates
    <3> QED BY <1>1, <2>1, <3>1 DEF KnownIds, Effects
  <2>2. CASE DropWire
    BY <1>1, <2>2, DropWireIds DEF EffectInv
  <2> QED BY <1>2, <2>1, <2>2
<1>5. RecordHolds' /\ AttemptsHold'
  BY <1>1 DEF RecordHolds, AttemptsHold, Writing, Exchanging
<1>6. RepliesHold'
  <2>1. CASE UNCHANGED <<toPlc, toClient, stray>>
    <3>1. /\ Messages(toClient)' = Messages(toClient)
          /\ \A r : Mutates(r)' = Mutates(r)
      BY <1>1, <2>1 DEF Messages, Mutates
    <3> QED BY <1>1, <1>4, <2>1, <3>1, RepliesStay DEF ProgressInv
  <2> QED BY <1>2, <2>1, NoReplies
<1>7. /\ DOMAIN report' = Ops /\ \A p \in Ops : p # Running => report'[p] = report[p]
      /\ \A p \in Ops : p # Running => phase'[p] = phase[p]
  <2>1. \E result, progress : Reports(result, progress)
    BY DEF Succeed, Fail, Disconnect
  <2> QED BY <1>1, <1>3, <2>1 DEF Reports
<1>8. ASSUME NEW p \in Ops, p = Running, kind[p] = "write" PROVE ReportHolds(p)'
  <2>1. Writing /\ pc \in {"succeeded", "failed"}
    BY <1>1, <1>8 DEF ProgressInv, RecordHolds, Writing
  <2>2. LET final == IF pc = "failed" THEN FinalProgress(writeProgress) ELSE writeProgress
            result == IF pc = "failed" THEN error ELSE "ok"
        IN  report' = [report EXCEPT ![Running] = [result |-> result, progress |-> Snapshot(final)]]
    BY <1>8, <2>1 DEF Succeed, Fail, Disconnect, Reports
  <2> QED BY <1>1, <1>4, <1>8, <2>1, <2>2, WriteReports
<1>9. ReportsHold'
  <2>1. ASSUME NEW p \in Ops, phase'[p] = "done", kind'[p] = "write" PROVE ReportHolds(p)'
    <3>1. CASE p = Running
      BY <1>1, <1>8, <2>1, <3>1
    <3>2. CASE p # Running
      <4>1. ReportHolds(p) /\ report'[p] = report[p]
        BY <1>1, <1>7, <2>1, <3>2 DEF ProgressInv, ReportsHold
      <4> QED BY <1>1, <1>4, <4>1, ReportStays
    <3> QED BY <3>1, <3>2
  <2> QED BY <1>7, <2>1 DEF ReportsHold
<1> QED BY <1>5, <1>6, <1>9 DEF ProgressInv

(* What the PLC does with a request decides what its reply says.           *)
LEMMA PlcServesKeepsReplies ==
  ASSUME SessionInv, EffectInv, ProgressInv, PlcServes
  PROVE  RepliesHold'
<1> DEFINE request == Head(toPlc)
<1>1. /\ toPlc # <<>> /\ toPlc' = Tail(toPlc) /\ UNCHANGED <<kind, stray>>
      /\ toPlc \in Seq(Message) /\ toClient \in Seq(Reply)
  BY DEF PlcServes, callVars, SessionInv, TypesHold
<1>2. PICK status \in {"ok", "rejected", "malformed", "garbled"}, copies \in 1 .. 2 :
        /\ toClient' = toClient \o [i \in 1 .. copies |->
              [id |-> request.id, reference |-> request.reference, status |-> status]]
        /\ \/ status # "rejected" /\ Mutates(request) /\ applied' = applied \union {request.id}
           \/ (status # "ok" \/ ~Mutates(request)) /\ applied' = applied
  BY DEF PlcServes
<1> DEFINE reply == [id |-> request.id, reference |-> request.reference, status |-> status]
<1>3. reply.id = request.id /\ reply.status = status
  OBVIOUS
<1>4. toClient' = toClient \o [i \in 1 .. copies |-> reply]
  BY <1>2
<1> HIDE DEF reply
<1>5. Messages(toClient)' = Messages(toClient) \union {reply}
  <2>1. Messages(toClient)' = Messages(toClient \o [i \in 1 .. copies |-> reply])
    BY <1>4 DEF Messages
  <2> QED BY <1>1, <2>1, RepliesAdded
<1>6. /\ request \in Messages(toPlc) /\ Messages(toPlc)' \subseteq Messages(toPlc)
      /\ \A m \in Messages(toPlc)' : m.id # request.id
      /\ \A i, j \in 1 .. Len(toPlc') : toPlc'[i].id = toPlc'[j].id => i = j
  <2>1. Messages(Tail(toPlc)) = Messages(toPlc)'
    BY <1>1 DEF Messages
  <2>2. request \in Messages(toPlc) /\ Messages(toPlc)' \subseteq Messages(toPlc)
    BY <1>1, <2>1, WireContents
  <2> DEFINE n == Len(toPlc)
  <2>3. /\ n \in Nat \ {0} /\ Len(toPlc') = n - 1 /\ DOMAIN toPlc' = 1 .. n - 1
        /\ \A i \in 1 .. n - 1 : toPlc'[i] = toPlc[i + 1]
        /\ request = toPlc[1]
    BY <1>1
  <2>4. \A i, j \in 1 .. n : toPlc[i].id = toPlc[j].id => i = j
    BY DEF ProgressInv, RepliesHold
  <2> HIDE DEF n, request
  <2>5. \A i \in 1 .. n - 1 : i + 1 \in 1 .. n /\ i + 1 # 1
    BY <2>3
  <2>6. 1 \in 1 .. n
    BY <2>3
  <2>7. \A i \in 1 .. n - 1 : toPlc'[i].id # request.id
    BY <2>3, <2>4, <2>5, <2>6
  <2>8. \A m \in Messages(toPlc)' : m.id # request.id
    BY <2>3, <2>7 DEF Messages
  <2>9. ASSUME NEW i \in 1 .. n - 1, NEW j \in 1 .. n - 1, toPlc'[i].id = toPlc'[j].id
        PROVE  i = j
    <3>1. i + 1 = j + 1
      BY <2>3, <2>4, <2>5, <2>9
    <3> QED BY <2>3, <3>1
  <2> QED BY <2>2, <2>3, <2>8, <2>9
<1>7. /\ request.id \notin applied /\ \A s \in stray : s.id # request.id
      /\ \A m \in Messages(toPlc) : m.id \notin applied /\ \A s \in stray : s.id # m.id
  BY <1>6 DEF ProgressInv, RepliesHold
<1>8. (\A m : Mutates(m)' = Mutates(m)) /\ Effects' \subseteq Effects
      /\ (Mutates(reply) <=> Mutates(request))
  <2>1. Environment
    BY DEF Environment
  <2> QED BY <1>3, <2>1, EnvironmentSendsNothing DEF Mutates
<1> HIDE DEF request
<1>9. \A m \in Messages(toPlc)' : m.id \notin applied' /\ \A s \in stray' : s.id # m.id
  BY <1>1, <1>2, <1>6, <1>7
<1>10. ASSUME status = "rejected" PROVE request.id \notin Effects'
  <2>1. applied' = applied
    BY <1>2, <1>10
  <2> QED BY <1>1, <1>6, <1>7, <2>1 DEF Effects
<1>11. ASSUME NEW r \in Messages(toClient)'
       PROVE  /\ r.status = "ok" /\ Mutates(r)' => r.id \in applied'
              /\ r.status = "rejected" => r.id \notin Effects'
  <2>1. CASE r \in Messages(toClient)
    BY <1>2, <1>8, <2>1 DEF ProgressInv, RepliesHold
  <2>2. CASE r = reply
    BY <1>2, <1>3, <1>8, <1>10, <2>2
  <2> QED BY <1>5, <2>1, <2>2
<1> QED BY <1>6, <1>9, <1>11 DEF RepliesHold

LEMMA EnvironmentKeepsProgressInv ==
  ASSUME SessionInv, EffectInv, ProgressInv, Environment
  PROVE  ProgressInv'
<1>1. /\ UNCHANGED <<writeProgress, queue, callVars, pc, error, crossed>>
      /\ run'.chunk = run.chunk /\ run'.sends = run.sends /\ run'.attempted = run.attempted
      /\ Running' = Running /\ (\A m : Mutates(m)' = Mutates(m))
      /\ KnownIds' \subseteq KnownIds /\ Effects' \subseteq Effects /\ stray' \subseteq stray
      /\ applied \subseteq applied'
  BY EnvironmentSendsNothing
<1>2. UNCHANGED <<phase, kind, report>> /\ Writing' = Writing
  BY <1>1 DEF callVars, Writing
<1>3. RecordHolds'
  BY <1>1, <1>2 DEF ProgressInv, RecordHolds
<1>4. AttemptsHold'
  BY <1>1, <1>2, AttemptsStay DEF ProgressInv
<1>5. ReportsHold'
  BY <1>1, <1>2, ReportsStay DEF ProgressInv
<1>6. RepliesHold'
  <2>1. CASE DeadlineExpires
    <3>1. UNCHANGED netVars
      BY <2>1 DEF DeadlineExpires
    <3>2. Messages(toClient)' = Messages(toClient)
      BY <3>1 DEF Messages, netVars
    <3> QED BY <1>1, <3>1, <3>2, RepliesStay DEF ProgressInv, netVars
  <2>2. CASE StrayServedOrLost
    <3>1. PICK request \in stray :
            /\ applied' \in {applied, applied \union {request.id}}
            /\ UNCHANGED <<toPlc, toClient>>
      BY <2>2 DEF StrayServedOrLost
    <3>2. Messages(toPlc)' = Messages(toPlc) /\ Messages(toClient)' = Messages(toClient)
      BY <3>1 DEF Messages
    <3>3. \A i, j \in 1 .. Len(toPlc') : toPlc'[i].id = toPlc'[j].id => i = j
      BY <3>1 DEF ProgressInv, RepliesHold
    <3>4. \A m \in Messages(toPlc)' : m.id \notin applied' /\ \A s \in stray' : s.id # m.id
      BY <1>1, <3>1, <3>2 DEF ProgressInv, RepliesHold
    <3>5. \A r \in Messages(toClient)' :
             /\ r.status = "ok" /\ Mutates(r)' => r.id \in applied'
             /\ r.status = "rejected" => r.id \notin Effects'
      BY <1>1, <3>2 DEF ProgressInv, RepliesHold
    <3> QED BY <3>3, <3>4, <3>5 DEF RepliesHold
  <2> QED BY <2>1, <2>2, PlcServesKeepsReplies DEF Environment
<1> QED BY <1>3, <1>4, <1>5, <1>6 DEF ProgressInv

(* Every step preserves what is known of the writes.                       *)
LEMMA NextKeepsProgressInv ==
  SessionInv /\ EffectInv /\ ProgressInv /\ [Next]_vars => ProgressInv'
<1> SUFFICES ASSUME SessionInv, EffectInv, ProgressInv, [Next]_vars PROVE ProgressInv'
  OBVIOUS
<1>1. CASE \E o \in Ops : Caller(o)
  BY <1>1, CallerKeepsProgressInv
<1>2. CASE AttemptExpired \/ ReconnectFails \/ ReceiveFails
  <2>1. pc \in Exchanging /\ \E failure \in ErrorKinds \ {"invalidInput"} :
           Catch(failure) /\ (pc = "receive" => failure # "plcRejected")
    BY <1>2 DEF AttemptExpired, ReconnectFails, ReceiveFails, ConnectFailures, ErrorKinds,
                Exchanging
  <2> QED BY <2>1, CatchKeepsProgressInv
<1>3. CASE Start \/ BeginExchange \/ Reconnect \/ AdoptPduLength \/ Send \/ Receive
  BY <1>3, StartKeepsProgressInv, BeginExchangeKeepsProgressInv, ReconnectKeepsProgressInv,
     AdoptKeepsProgressInv, SendKeepsProgressInv, ReceiveKeepsProgressInv
<1>4. CASE Succeed \/ Fail \/ Disconnect
  BY <1>4, ReturnKeepsProgressInv
<1>5. CASE Environment
  BY <1>5, EnvironmentKeepsProgressInv
<1>6. CASE UNCHANGED vars
  <2>1. UNCHANGED <<writeProgress, queue, kind, phase, report, pc, error, run,
                    toPlc, toClient, stray, applied, crossed>>
    BY <1>6 DEF vars, clientVars, callVars, runVars, netVars
  <2>2. /\ Running' = Running /\ Writing' = Writing
        /\ Messages(toPlc)' = Messages(toPlc) /\ Messages(toClient)' = Messages(toClient)
        /\ \A m : Mutates(m)' = Mutates(m)
    BY <2>1 DEF Running, Writing, Messages, Mutates
  <2>3. KnownIds' = KnownIds /\ Effects' = Effects
    BY <2>1, <2>2 DEF KnownIds, Effects
  <2>4. RecordHolds'
    BY <2>1, <2>2 DEF ProgressInv, RecordHolds
  <2>5. AttemptsHold'
    BY <2>1, <2>2, <2>3, AttemptsStay DEF ProgressInv
  <2>6. RepliesHold' /\ ReportsHold'
    BY <2>1, <2>2, <2>3, RepliesStay, ReportsStay DEF ProgressInv
  <2> QED BY <2>4, <2>5, <2>6 DEF ProgressInv
<1> QED BY <1>1, <1>2, <1>3, <1>4, <1>5, <1>6 DEF Next, Client

(* What a write records of its attempts while it runs, what replies say,   *)
(* and what was reported of the writes that returned.                      *)
THEOREM ProgressInvariant == Spec => [](SessionInv /\ EffectInv /\ ProgressInv)
<1>1. Init => SessionInv /\ EffectInv /\ ProgressInv
  BY SessionInvInit, EffectInvInit, ProgressInvInit
<1>2. SessionInv /\ EffectInv /\ ProgressInv /\ [Next]_vars
         => (SessionInv /\ EffectInv /\ ProgressInv)'
  BY NextKeepsSessionInv, NextKeepsEffectInv, NextKeepsProgressInv
<1> QED BY <1>1, <1>2, PTL DEF Spec

(* At most the last attempt of a write is uncertain, and then the write is *)
(* not reported as done, rejected or never sent.                           *)
THEOREM UncertainWritesAreReported == Spec => []UncertaintyIsReported
<1>1. ProgressInv => UncertaintyIsReported
  BY DEF ProgressInv, ReportsHold, ReportHolds, UncertaintyIsReported
<1> QED BY <1>1, ProgressInvariant, PTL

(* As long as no write was handed the reply to another request, the         *)
(* progress a write reports is true of the PLC, also of what is served     *)
(* after it returned.                                                      *)
THEOREM ReportedProgressIsTrue == Spec => [](NoCrossedReplies => ProgressIsSound)
<1>1. ASSUME SessionInv, EffectInv, ProgressInv, NoCrossedReplies,
             NEW o \in Ops, phase[o] = "done", kind[o] = "write"
      PROVE  LET progress == report[o].progress
                 attempts == progress.attempts
                 IdOf(i)  == <<o, attempts[i].location, i>>
             IN  /\ \A i \in DOMAIN attempts :
                     /\ attempts[i].outcome = "success" => IdOf(i) \in applied
                     /\ attempts[i].outcome = "globalRejected" => IdOf(i) \notin Effects
                 /\ \A id \in Effects : id[1] = o =>
                     id[3] \in DOMAIN attempts /\ IdOf(id[3]) = id
                 /\ report[o].result = "ok" =>
                      progress.uncertain = <<>> /\ progress.rejected = <<>>
  <2> DEFINE attempts == report[o].progress.attempts
  <2>1. o \notin crossed
    BY <1>1 DEF NoCrossedReplies
  <2>2. ReportHolds(o)
    BY <1>1 DEF ProgressInv, ReportsHold
  <2>3. DOMAIN attempts = 1 .. Len(attempts)
    BY <2>2 DEF ReportHolds
  <2>4. \A id \in Effects : id \in KnownIds /\ id = <<id[1], id[2], id[3]>>
    BY <1>1, KnownIdsTyped DEF Ids
  <2>5. ASSUME NEW id \in Effects, id[1] = o
        PROVE  id[3] \in DOMAIN attempts /\ <<o, attempts[id[3]].location, id[3]>> = id
    <3>1. id[3] \in 1 .. Len(attempts) /\ attempts[id[3]].location = id[2]
      BY <2>2, <2>4, <2>5 DEF ReportHolds
    <3> QED BY <2>3, <2>4, <2>5, <3>1
  <2>6. ASSUME NEW i \in DOMAIN attempts
        PROVE  /\ attempts[i].outcome = "success" => <<o, attempts[i].location, i>> \in applied
               /\ attempts[i].outcome = "globalRejected" =>
                     <<o, attempts[i].location, i>> \notin Effects
    BY <2>1, <2>2, <2>3 DEF ReportHolds
  <2> QED BY <2>2, <2>5, <2>6 DEF ReportHolds
<1>2. SessionInv /\ EffectInv /\ ProgressInv => (NoCrossedReplies => ProgressIsSound)
  BY <1>1 DEF ProgressIsSound
<1> QED BY <1>2, ProgressInvariant, PTL

-----------------------------------------------------------------------------
(* 4. Correlation                                                          *)

(* Where a reference stands in the order in which the counter issues them.  *)
Place(r) == IF r >= InitialRequestReference THEN r - InitialRequestReference
            ELSE r + ReferenceModulus - InitialRequestReference

(* A reference tells a request from every other one it could be taken for  *)
(* if either every request takes its reference when its turn comes, as     *)
(* reads and writes do: then the counter may go round any number of times. *)
(* Or, with controls, which take theirs before they wait, and raw requests, *)
(* which bring their own, the counter has not come as far as the raw       *)
(* reference when every call has taken all it may.                         *)
OneByOne == Kinds \cap {"control", "raw"} = {} /\ ReferenceModulus > 1

FewReferences ==
    IsFiniteSet(Ops) /\ MaxChunks > 0 /\ MaxChunks * Cardinality(Ops) <= Place(RawReference)

ReferencesTell == OneByOne \/ FewReferences

Wire == Messages(toPlc) \union Messages(toClient)

(* What carries the reference of the running exchange is what it waits for. *)
OwnHolds ==
    /\ NoCrossedReplies /\ \A o \in crossed : o \in Ops /\ phase[o] # "new"
    /\ pc \in Exchanging => kind[Running] # "disconnect"
    /\ pc \in Exchanging =>
          \A m \in Wire :
             /\ m.reference = run.reference /\ kind[Running] # "raw" =>
                   pc = "receive" /\ m.id = Awaited
             /\ pc = "receive" /\ m.id = Awaited => m.reference = run.reference

(* The replies to the running exchange come after all others.              *)
InOrder ==
    \A i, j \in 1 .. Len(toClient) :
        i < j /\ toClient[i].reference = run.reference => toClient[j].reference = run.reference

(* No exchange is under way and the connection is kept.                    *)
BetweenExchanges ==
    \/ pc \in {"idle", "chunk", "succeeded"}
    \/ pc = "failed" /\ error \in {"invalidInput", "plcRejected"}

(* One by one: between exchanges an open connection carries repetitions of *)
(* the last reply at most, and the counter is one past their reference.    *)
InTurn ==
    /\ \A o \in Ops : kind[o] \notin {"control", "raw"}
    /\ BetweenExchanges => \A m \in Wire : NextReference(m.reference) = nextReference
    /\ pc \in Exchanging =>
          /\ NextReference(run.reference) = nextReference
          /\ \A m \in Wire : m.reference # run.reference => NextReference(m.reference) = run.reference
    /\ pc = "receive" => InOrder
    /\ pc = "chunk" => run.planned <= pduLength

(* The calls that take no more references, and what the running one took.   *)
Spent == {o \in Ops : phase[o] = "done" \/ kind[o] = "control"}

Taken ==
    IF pc \in {"idle", "disconnecting"} \/ kind[Running] = "control" THEN 0
    ELSE IF pc = "chunk" THEN run.chunk - 1 ELSE run.chunk

Controls == {o \in Ops : kind[o] = "control"}

(* Few references: every reference issued is behind the counter and held   *)
(* by one exchange or one control, and none of them is the raw one.        *)
Distinct ==
    /\ \A o \in Ops : phase[o] = "new" => kind[o] = "none"
    /\ pc \notin {"idle", "disconnecting"} => run.chunks <= MaxChunks
    /\ Place(nextReference) <= MaxChunks * Cardinality(Spent) + Taken
    /\ \A o \in Ops : kind[o] = "raw" => reference[o] = RawReference
    /\ \A o \in Controls : Place(reference[o]) < Place(nextReference)
    /\ \A o, p \in Controls : reference[o] = reference[p] => o = p
    /\ \A m \in Wire :
          /\ kind[m.id[1]] = "raw" => m.reference = RawReference
          /\ kind[m.id[1]] # "raw" => Place(m.reference) < Place(nextReference)
          /\ \A o \in Controls : m.reference = reference[o] => m.id[1] = o
    /\ pc \in Exchanging =>
          /\ kind[Running] \in {"raw", "control"} => run.reference = reference[Running]
          /\ Chunked(kind[Running]) =>
                /\ Place(run.reference) < Place(nextReference)
                /\ \A o \in Controls : reference[o] # run.reference

CorrelationInv == OwnHolds /\ (OneByOne => InTurn) /\ (FewReferences => Distinct)

-----------------------------------------------------------------------------
(* The counter steps through all references and then starts again.          *)
LEMMA NextReferenceIs ==
  ASSUME NEW r \in References
  PROVE  /\ NextReference(r) \in References
         /\ NextReference(r) = IF r = ReferenceModulus - 1 THEN 0 ELSE r + 1
<1>1. r \in Nat /\ r < ReferenceModulus /\ ReferenceModulus \in Nat \ {0}
  BY ReferenceModulusAssumption DEF References
<1>2. CASE r = ReferenceModulus - 1
  <2>1. r + 1 = ReferenceModulus
    BY <1>1, <1>2
  <2>2. ReferenceModulus % ReferenceModulus = 0
    BY <1>1
  <2> QED BY <1>1, <1>2, <2>1, <2>2 DEF NextReference, References
<1>3. CASE r # ReferenceModulus - 1
  <2>1. r + 1 \in 0 .. ReferenceModulus - 1
    BY <1>1, <1>3
  <2>2. (r + 1) % ReferenceModulus = r + 1
    BY <1>1, <2>1
  <2> QED BY <1>3, <2>1, <2>2 DEF NextReference, References
<1> QED BY <1>2, <1>3

LEMMA NextReferenceDiffers ==
  ASSUME NEW r \in References, NEW s \in References
  PROVE  /\ ReferenceModulus > 1 => NextReference(r) # r
         /\ NextReference(r) = NextReference(s) => r = s
<1>1. r \in Nat /\ s \in Nat /\ r < ReferenceModulus /\ s < ReferenceModulus
      /\ ReferenceModulus \in Nat \ {0}
  BY ReferenceModulusAssumption DEF References
<1> QED BY <1>1, NextReferenceIs

(* Places are numbered from the first reference on.                        *)
LEMMA Places ==
  ASSUME NEW r \in References, NEW s \in References
  PROVE  /\ Place(r) \in Nat /\ Place(r) < ReferenceModulus
         /\ Place(r) = Place(s) => r = s
         /\ Place(InitialRequestReference) = 0
         /\ Place(r) < Place(s) => Place(NextReference(r)) = Place(r) + 1
<1>1. r \in Nat /\ s \in Nat /\ r < ReferenceModulus /\ s < ReferenceModulus
      /\ ReferenceModulus \in Nat \ {0}
      /\ InitialRequestReference \in Nat /\ InitialRequestReference < ReferenceModulus
  BY ReferenceModulusAssumption, SessionAssumption DEF References
<1>2. /\ Place(r) \in Nat /\ Place(r) < ReferenceModulus
      /\ Place(r) = Place(s) => r = s
      /\ Place(InitialRequestReference) = 0
  BY <1>1 DEF Place
<1>3. ASSUME Place(r) < Place(s) PROVE Place(NextReference(r)) = Place(r) + 1
  <2>1. CASE r = ReferenceModulus - 1
    <3>1. NextReference(r) = 0
      BY <2>1, NextReferenceIs
    <3>2. InitialRequestReference # 0
      BY <1>1, <1>3, <2>1 DEF Place
    <3> QED BY <1>1, <2>1, <3>1, <3>2 DEF Place
  <2>2. CASE r # ReferenceModulus - 1
    <3>1. NextReference(r) = r + 1
      BY <2>2, NextReferenceIs
    <3>2. r + 1 # InitialRequestReference
      BY <1>1, <1>3 DEF Place
    <3> QED BY <1>1, <2>2, <3>1, <3>2 DEF Place
  <2> QED BY <2>1, <2>2
<1> QED BY <1>2, <1>3

(* There is room for the references of another call.                       *)
LEMMA RoomForOneMore ==
  ASSUME FewReferences, NEW calls \in SUBSET Ops
  PROVE  /\ IsFiniteSet(calls) /\ Cardinality(calls) \in Nat
         /\ MaxChunks * Cardinality(calls) \in Nat
         /\ MaxChunks * Cardinality(calls) <= Place(RawReference)
         /\ \A o \in Ops \ calls :
              /\ MaxChunks * Cardinality(calls \union {o}) = MaxChunks * Cardinality(calls) + MaxChunks
              /\ MaxChunks * Cardinality(calls) + MaxChunks <= Place(RawReference)
<1> DEFINE fits(S) == MaxChunks * Cardinality(S) <= Place(RawReference)
<1>1. MaxChunks \in Nat \ {0} /\ IsFiniteSet(Ops) /\ Cardinality(Ops) \in Nat
      /\ MaxChunks * Cardinality(Ops) <= Place(RawReference) /\ Place(RawReference) \in Nat
  <2>1. RawReference \in References
    BY SessionAssumption
  <2> QED BY <2>1, Places, SessionAssumption, FS_CardinalityType DEF FewReferences
<1>2. ASSUME NEW S \in SUBSET Ops
      PROVE  IsFiniteSet(S) /\ Cardinality(S) \in Nat /\ fits(S)
             /\ MaxChunks * Cardinality(S) \in Nat
  <2>1. IsFiniteSet(S) /\ Cardinality(S) \in Nat /\ Cardinality(S) <= Cardinality(Ops)
    BY <1>1, FS_Subset, FS_CardinalityType
  <2>2. \A a, b, n \in Nat : a <= b => n * a <= n * b /\ n * a \in Nat /\ n * b \in Nat
    OBVIOUS
  <2>3. MaxChunks * Cardinality(S) <= MaxChunks * Cardinality(Ops)
        /\ MaxChunks * Cardinality(S) \in Nat /\ MaxChunks * Cardinality(Ops) \in Nat
    BY <1>1, <2>1, <2>2
  <2> QED BY <1>1, <2>1, <2>3
<1>3. ASSUME NEW o \in Ops \ calls
      PROVE  /\ MaxChunks * Cardinality(calls \union {o}) = MaxChunks * Cardinality(calls) + MaxChunks
             /\ MaxChunks * Cardinality(calls) + MaxChunks <= Place(RawReference)
  <2>1. calls \union {o} \in SUBSET Ops
    OBVIOUS
  <2>2. Cardinality(calls \union {o}) = Cardinality(calls) + 1 /\ Cardinality(calls) \in Nat
    BY <1>2, FS_AddElement
  <2>3. \A n, a \in Nat : n * (a + 1) = n * a + n
    OBVIOUS
  <2>4. MaxChunks * (Cardinality(calls) + 1) = MaxChunks * Cardinality(calls) + MaxChunks
    BY <1>1, <2>2, <2>3
  <2>5. fits(calls \union {o})
    BY <1>2, <2>1
  <2> QED BY <2>2, <2>4, <2>5
<1> QED BY <1>2, <1>3

-----------------------------------------------------------------------------

LEMMA CorrelationInvInit == Init => CorrelationInv
<1> SUFFICES ASSUME Init PROVE CorrelationInv
  OBVIOUS
<1>1. Wire = {}
  BY DEF Init, Wire, Messages
<1>2. OwnHolds
  BY <1>1 DEF Init, OwnHolds, NoCrossedReplies, Exchanging
<1>3. InTurn
  BY <1>1 DEF Init, InTurn, Exchanging
<1>4. ASSUME FewReferences PROVE Distinct
  <2>1. Spent = {} /\ Controls = {}
    BY DEF Init, Spent, Controls
  <2>2. Place(nextReference) = 0
    BY Places, SessionAssumption DEF Init
  <2>3. MaxChunks * Cardinality(Spent) \in Nat
    BY <1>4, <2>1, RoomForOneMore
  <2>4. Taken = 0
    BY DEF Init, Taken
  <2>5. Place(nextReference) <= MaxChunks * Cardinality(Spent) + Taken
    BY <2>2, <2>3, <2>4
  <2> QED BY <1>1, <2>1, <2>5 DEF Init, Distinct, Exchanging
<1> QED BY <1>2, <1>3, <1>4 DEF CorrelationInv

(* A step in which nobody takes a reference or accepts a reply.            *)
LEMMA QuietKeepsCorrelationInv ==
  ASSUME SessionInv, EffectInv, CorrelationInv,
         UNCHANGED <<queue, callVars, nextReference, crossed>>,
         run'.chunk = run.chunk, run'.chunks = run.chunks, run'.planned = run.planned,
         run'.reference = run.reference, run'.sends = run.sends,
         \A m \in Wire' : \E n \in Wire : n.id = m.id /\ n.reference = m.reference,
         \/ pc' = pc /\ error' = error
         \/ /\ pc \in Exchanging /\ pc' \in Exchanging \union {"failed"}
            /\ pc' \in {"receive", "failed"} \/ pc = "receive" => Wire' = {},
         pc' = "chunk" => pduLength' = pduLength,
         OneByOne /\ pc' = "receive" => InOrder'
  PROVE  CorrelationInv'
<1>1. Running' = Running /\ Awaited' = Awaited
  BY DEF Running, Awaited
<1>2. kind' = kind /\ phase' = phase /\ reference' = reference
  BY DEF callVars
<1>3. OwnHolds'
  <2>1. NoCrossedReplies' /\ \A o \in crossed' : o \in Ops /\ phase'[o] # "new"
    BY <1>2 DEF CorrelationInv, OwnHolds, NoCrossedReplies
  <2>2. ASSUME pc' \in Exchanging, NEW m \in Wire'
        PROVE  /\ m.reference = run'.reference /\ kind'[Running'] # "raw" =>
                     pc' = "receive" /\ m.id = Awaited'
               /\ pc' = "receive" /\ m.id = Awaited' => m.reference = run'.reference
    <3>1. PICK n \in Wire : n.id = m.id /\ n.reference = m.reference
      BY <2>2
    <3>2. pc \in Exchanging /\ (pc' = "receive" <=> pc = "receive")
      BY <2>2 DEF Exchanging
    <3> QED BY <1>1, <1>2, <3>1, <3>2 DEF CorrelationInv, OwnHolds
  <2>3. pc' \in Exchanging => kind'[Running'] # "disconnect"
    <3>1. pc' \in Exchanging => pc \in Exchanging
      BY DEF Exchanging
    <3> QED BY <1>1, <1>2, <3>1 DEF CorrelationInv, OwnHolds
  <2> QED BY <2>1, <2>2, <2>3 DEF OwnHolds
<1>4. ASSUME OneByOne PROVE InTurn'
  <2>1. InTurn
    BY <1>4 DEF CorrelationInv
  <2>2. ASSUME BetweenExchanges', NEW m \in Wire' PROVE NextReference(m.reference) = nextReference'
    <3>1. PICK n \in Wire : n.reference = m.reference
      BY <2>2
    <3>2. BetweenExchanges
      BY <2>2 DEF BetweenExchanges, Exchanging
    <3> QED BY <2>1, <3>1, <3>2 DEF InTurn
  <2>3. ASSUME pc' \in Exchanging
        PROVE  /\ NextReference(run'.reference) = nextReference'
               /\ \A m \in Wire' : m.reference # run'.reference
                                     => NextReference(m.reference) = run'.reference
    <3>1. pc \in Exchanging
      BY <2>3 DEF Exchanging
    <3> QED BY <2>1, <3>1 DEF InTurn
  <2>4. pc' = "chunk" => run'.planned <= pduLength'
    BY <2>1 DEF InTurn, Exchanging
  <2> QED BY <1>2, <1>4, <2>1, <2>2, <2>3, <2>4 DEF InTurn
<1>5. ASSUME FewReferences PROVE Distinct'
  <2>1. Distinct
    BY <1>5 DEF CorrelationInv
  <2>2. Spent' = Spent /\ Controls' = Controls
    BY <1>2 DEF Spent, Controls
  <2>3. Taken' = Taken
    BY <1>1, <1>2 DEF Taken, Exchanging
  <2>4. pc' \notin {"idle", "disconnecting"} => pc \notin {"idle", "disconnecting"}
    BY DEF Exchanging
  <2>5. pc' \in Exchanging => pc \in Exchanging
    BY DEF Exchanging
  <2>6. \A m \in Wire' :
          /\ kind[m.id[1]] = "raw" => m.reference = RawReference
          /\ kind[m.id[1]] # "raw" => Place(m.reference) < Place(nextReference)
          /\ \A o \in Controls : m.reference = reference[o] => m.id[1] = o
    BY <2>1 DEF Distinct
  <2> QED BY <1>1, <1>2, <2>1, <2>2, <2>3, <2>4, <2>5, <2>6 DEF Distinct
<1>6. OneByOne' = OneByOne /\ FewReferences' = FewReferences
  BY DEF OneByOne, FewReferences, Place
<1> QED BY <1>3, <1>4, <1>5, <1>6 DEF CorrelationInv

(* A connection that is given up takes its requests and replies with it.   *)
LEMMA DropWireEmpties ==
  ASSUME DropWire
  PROVE  Wire' = {} /\ toClient' = <<>> /\ InOrder'
<1>1. toPlc' = <<>> /\ toClient' = <<>>
  BY DEF DropWire
<1> QED BY <1>1 DEF Wire, Messages, InOrder

LEMMA CatchKeepsCorrelationInv ==
  ASSUME SessionInv, EffectInv, CorrelationInv, pc \in Exchanging,
         NEW failure \in ErrorKinds, Catch(failure)
  PROVE  CorrelationInv'
<1>1. DropWire /\ UNCHANGED <<pduLength, queue, callVars, nextReference, crossed>>
  BY DEF Catch, CloseCurrent
<1>2. \/ pc' = "failed" /\ run' = run
      \/ /\ pc' = "attempt"
         /\ \E budget : run' = [run EXCEPT !.retries = budget, !.reconnectFirst = TRUE,
                                           !.attempted = FALSE]
  BY DEF Catch
<1>3. /\ run'.chunk = run.chunk /\ run'.chunks = run.chunks /\ run'.planned = run.planned
      /\ run'.reference = run.reference /\ run'.sends = run.sends
  BY <1>2 DEF SessionInv, TypesHold, RunState
<1>4. Wire' = {} /\ InOrder'
  BY <1>1, DropWireEmpties
<1>5. pc' \in Exchanging \union {"failed"}
  BY <1>2 DEF Exchanging
<1> QED BY <1>1, <1>3, <1>4, <1>5, QuietKeepsCorrelationInv

LEMMA ReconnectKeepsCorrelationInv ==
  ASSUME SessionInv, EffectInv, CorrelationInv, Reconnect \/ AdoptPduLength
  PROVE  CorrelationInv'
<1>1. CASE \E failure \in ErrorKinds : Catch(failure) /\ pc \in Exchanging
  BY <1>1, CatchKeepsCorrelationInv
<1>2. CASE /\ pc = "attempt" /\ pc' = "adopt" /\ DropWire
           /\ UNCHANGED <<pduLength, nextReference, queue, callVars, error, run, crossed>>
  <2>1. Wire' = {} /\ InOrder'
    BY <1>2, DropWireEmpties
  <2> QED BY <1>2, <2>1, QuietKeepsCorrelationInv DEF Exchanging
<1>3. CASE /\ pc = "adopt" /\ pc' = "send"
           /\ UNCHANGED <<nextReference, queue, callVars, error, run, netVars>>
  <2>1. Wire' = Wire
    BY <1>3 DEF Wire, Messages, netVars
  <2> QED BY <1>3, <2>1, QuietKeepsCorrelationInv DEF Exchanging, netVars
<1>4. {"protocol", "lifecycle"} \subseteq ErrorKinds
  BY DEF ErrorKinds
<1>5. AdoptPduLength => /\ pc = "adopt" /\ pc' = "send"
                        /\ UNCHANGED <<nextReference, queue, callVars, error, run, netVars>>
  BY DEF AdoptPduLength
<1>6. Reconnect => \/ \E failure \in ErrorKinds : Catch(failure) /\ pc \in Exchanging
                   \/ /\ pc = "attempt" /\ pc' = "adopt" /\ DropWire
                      /\ UNCHANGED <<pduLength, nextReference, queue, callVars, error, run, crossed>>
  BY <1>4 DEF Reconnect, Exchanging
<1> QED BY <1>1, <1>2, <1>3, <1>5, <1>6

(* Callers take references of their own, from the counter only as controls. *)
LEMMA CallerKeepsCorrelationInv ==
  ASSUME SessionInv, EffectInv, CorrelationInv, NEW o \in Ops, Caller(o)
  PROVE  CorrelationInv'
<1>1. /\ phase[o] \in {"new", "prepared"}
      /\ UNCHANGED <<connection, pc, run, toPlc, toClient, crossed>>
      /\ \A p \in Ops : p # o => phase'[p] = phase[p] /\ kind'[p] = kind[p]
      /\ pc # "idle" => Running' = Running /\ Running \in Ops /\ Running # o
      /\ \A id \in KnownIds : id[1] \in Ops /\ id[1] # o
  BY CallerSendsNothing
<1>2. Wire' = Wire /\ \A m \in Wire : m.id[1] \in Ops /\ m.id[1] # o
  BY <1>1 DEF Wire, Messages, KnownIds
<1>3. UNCHANGED <<pduLength, error>>
  BY DEF Caller, CallGated, PrepareControl, PrepareRaw, EnterGate, clientVars, runVars
<1>4. /\ phase \in [Ops -> {"new", "prepared", "queued", "done"}] /\ nextReference \in References
      /\ kind \in [Ops -> OpKinds \union {"none"}] /\ reference \in [Ops -> References]
  BY DEF SessionInv, TypesHold, TypeOK
<1>5. phase'[o] # "new" /\ \A p \in Ops : p # o => reference'[p] = reference[p]
  BY <1>4 DEF Caller, CallGated, PrepareControl, PrepareRaw, EnterGate
<1>6. OwnHolds'
  <2>1. \A p \in crossed' : p \in Ops /\ phase'[p] # "new" /\ kind'[p] = "raw"
    <3>1. \A p \in crossed : p \in Ops /\ phase[p] # "new" /\ kind[p] = "raw"
      BY DEF CorrelationInv, OwnHolds, NoCrossedReplies
    <3>2. phase[o] # "new" => kind'[o] = kind[o]
      BY DEF Caller, CallGated, PrepareControl, PrepareRaw, EnterGate
    <3> QED BY <1>1, <1>5, <3>1, <3>2
  <2>2. pc \in Exchanging => /\ Running' = Running /\ Awaited' = Awaited
                             /\ kind'[Running] = kind[Running]
    BY <1>1 DEF Exchanging, Awaited
  <2> QED BY <1>1, <1>2, <2>1, <2>2 DEF CorrelationInv, OwnHolds, NoCrossedReplies
<1>7. ASSUME OneByOne PROVE InTurn'
  <2>1. InTurn /\ ~PrepareControl(o) /\ ~PrepareRaw(o)
    BY <1>7 DEF CorrelationInv, OneByOne, PrepareControl, PrepareRaw
  <2>2. nextReference' = nextReference /\ kind'[o] \notin {"control", "raw"}
    BY <1>4, <2>1 DEF Caller, CallGated, EnterGate, InTurn
  <2> QED BY <1>1, <1>2, <1>3, <2>1, <2>2 DEF InTurn, BetweenExchanges, InOrder
<1>8. ASSUME FewReferences PROVE Distinct'
  <2>1. Distinct
    BY <1>8 DEF CorrelationInv
  <2>2. Taken' = Taken
    BY <1>1 DEF Taken
  <2>3. pc \in Exchanging => Running' = Running /\ Running \in Ops /\ kind'[Running] = kind[Running]
                             /\ Running # o
    BY <1>1 DEF Exchanging
  <2>4. CASE PrepareControl(o)
    <3>1. /\ phase[o] = "new" /\ kind' = [kind EXCEPT ![o] = "control"]
          /\ reference' = [reference EXCEPT ![o] = nextReference]
          /\ nextReference' = NextReference(nextReference)
          /\ phase' = [phase EXCEPT ![o] = "prepared"]
      BY <2>4 DEF PrepareControl
    <3>2. Controls' = Controls \union {o} /\ Spent' = Spent \union {o} /\ o \notin Spent
          /\ o \notin Controls
      BY <1>4, <2>1, <3>1 DEF Controls, Spent, Distinct
    <3>3. /\ MaxChunks * Cardinality(Spent) \in Nat
          /\ MaxChunks * Cardinality(Spent') = MaxChunks * Cardinality(Spent) + MaxChunks
          /\ MaxChunks * Cardinality(Spent') <= Place(RawReference)
          /\ MaxChunks \in Nat \ {0}
      <4>1. Spent \in SUBSET Ops /\ o \in Ops \ Spent
        BY <3>2 DEF Spent
      <4> HIDE DEF Spent
      <4> QED BY <1>8, <3>2, <4>1, RoomForOneMore, SessionAssumption DEF FewReferences
    <3>4. Taken \in Nat /\ (Taken > 0 => Running \in Ops \ Spent /\ Running # o)
          /\ Taken <= MaxChunks
      <4>1. Taken > 0 => pc \notin {"idle", "disconnecting"} /\ kind[Running] # "control"
        BY DEF Taken
      <4>2. pc \notin {"idle", "disconnecting"} =>
              run.chunk \in Nat \ {0} /\ run.chunk <= run.chunks /\ run.chunks \in Nat
        BY SessionAssumption DEF SessionInv, RunHolds, TypesHold, RunState
      <4>3. run.chunks <= MaxChunks \/ pc \in {"idle", "disconnecting"}
        BY <2>1 DEF Distinct
      <4>4. Taken \in Nat /\ Taken <= MaxChunks
        BY <3>3, <4>2, <4>3 DEF Taken
      <4>5. pc # "idle" => phase[Running] = "queued" /\ Running \in Ops
        BY WritingCall
      <4> QED BY <1>1, <4>1, <4>4, <4>5 DEF Spent
    <3>5. Place(nextReference) < Place(RawReference)
      <4>1. CASE Taken = 0
        <5>1. Place(nextReference) <= MaxChunks * Cardinality(Spent)
          BY <2>1, <3>3, <4>1 DEF Distinct
        <5>2. Place(nextReference) \in Nat /\ Place(RawReference) \in Nat
          BY <1>4, Places, SessionAssumption
        <5> QED BY <3>3, <5>1, <5>2
      <4>2. CASE Taken > 0
        <5> DEFINE both == Spent \union {o}
        <5>1. both \in SUBSET Ops /\ Running \in Ops \ both
          BY <3>4, <4>2 DEF Spent
        <5>2. MaxChunks * Cardinality(both) + MaxChunks <= Place(RawReference)
          BY <1>8, <5>1, RoomForOneMore
        <5>3. both = Spent'
          BY <3>2
        <5>4. Place(nextReference) <= MaxChunks * Cardinality(Spent) + Taken
          BY <2>1 DEF Distinct
        <5>5. Place(nextReference) \in Nat /\ Place(RawReference) \in Nat
          BY <1>4, Places, SessionAssumption
        <5> QED BY <3>3, <3>4, <5>2, <5>3, <5>4, <5>5
      <4> QED BY <3>4, <4>1, <4>2
    <3>6. Place(nextReference') = Place(nextReference) + 1 /\ Place(nextReference) \in Nat
      BY <1>4, <3>1, <3>5, Places, SessionAssumption
    <3>7. Place(nextReference') <= MaxChunks * Cardinality(Spent') + Taken'
      <4>1. Place(nextReference) <= MaxChunks * Cardinality(Spent) + Taken
        BY <2>1 DEF Distinct
      <4> QED BY <2>2, <3>3, <3>4, <3>6, <4>1
    <3>8. /\ reference'[o] = nextReference /\ kind'[o] = "control"
          /\ \A p \in Ops : p # o => kind'[p] = kind[p] /\ reference'[p] = reference[p]
      BY <1>4, <3>1
    <3>9. \A p \in Controls' : Place(reference'[p]) < Place(nextReference')
      <4>1. \A p \in Controls : Place(reference[p]) \in Nat /\ Place(reference[p]) < Place(nextReference)
        BY <1>4, <2>1, Places DEF Distinct, Controls
      <4> QED BY <3>2, <3>6, <3>8, <4>1 DEF Controls
    <3>10. \A p, q \in Controls' : reference'[p] = reference'[q] => p = q
      <4>1. \A p \in Controls : reference[p] # nextReference
        <5>1. \A p \in Controls : Place(reference[p]) < Place(nextReference)
          BY <2>1 DEF Distinct
        <5> QED BY <3>6, <5>1
      <4> QED BY <2>1, <3>2, <3>8, <4>1 DEF Distinct, Controls
    <3>11. ASSUME NEW m \in Wire
           PROVE  /\ kind'[m.id[1]] = "raw" => m.reference = RawReference
                  /\ kind'[m.id[1]] # "raw" => Place(m.reference) < Place(nextReference')
                  /\ \A p \in Controls' : m.reference = reference'[p] => m.id[1] = p
      <4>1. kind'[m.id[1]] = kind[m.id[1]] /\ m.reference \in References
        BY <1>1, <1>2, KnownIdsTyped DEF Wire, Message, Reply
      <4>2. m.reference # nextReference
        <5>1. m.reference = RawReference \/ Place(m.reference) < Place(nextReference)
          BY <2>1 DEF Distinct
        <5>2. Place(nextReference) < Place(RawReference) /\ Place(nextReference) \in Nat
              /\ Place(RawReference) \in Nat
          BY <3>5, <3>6, Places, SessionAssumption
        <5> QED BY <5>1, <5>2
      <4>3. Place(m.reference) \in Nat
        BY <4>1, Places
      <4>4. \A p \in Controls' : m.reference = reference'[p] => m.id[1] = p
        BY <2>1, <3>2, <3>8, <4>2 DEF Distinct, Controls
      <4> QED BY <2>1, <3>6, <4>1, <4>3, <4>4 DEF Distinct
    <3>12. pc \in Exchanging =>
              /\ kind[Running] \in {"raw", "control"} => run.reference = reference'[Running]
              /\ Chunked(kind[Running]) =>
                    /\ Place(run.reference) < Place(nextReference')
                    /\ \A p \in Controls' : reference'[p] # run.reference
      <4>1. ASSUME pc \in Exchanging, Chunked(kind[Running])
            PROVE  /\ Place(run.reference) < Place(nextReference')
                   /\ \A p \in Controls' : reference'[p] # run.reference
        <5>1. Place(run.reference) < Place(nextReference)
              /\ \A p \in Controls : reference[p] # run.reference
          BY <2>1, <4>1 DEF Distinct
        <5>2. Place(run.reference) \in Nat
          BY Places DEF SessionInv, TypesHold, TypeOK
        <5>3. nextReference # run.reference
          BY <3>6, <5>1
        <5> QED BY <3>2, <3>6, <3>8, <5>1, <5>2, <5>3 DEF Controls
      <4> QED BY <2>1, <2>3, <3>8, <4>1 DEF Distinct
    <3>13. /\ \A p \in Ops : phase'[p] = "new" => kind'[p] = "none"
           /\ \A p \in Ops : kind'[p] = "raw" => reference'[p] = RawReference
      BY <1>1, <1>5, <2>1, <3>8 DEF Distinct
    <3> QED BY <1>1, <1>2, <2>1, <2>3, <3>7, <3>9, <3>10, <3>11, <3>12, <3>13 DEF Distinct
  <2>5. CASE CallGated(o) \/ PrepareRaw(o) \/ EnterGate(o)
    <3>1. /\ nextReference' = nextReference
          /\ kind'[o] = kind[o] \/ (kind'[o] # "control" /\ phase[o] = "new")
          /\ kind'[o] = "raw" => reference'[o] = RawReference
      BY <1>4, <2>1, <2>5 DEF CallGated, PrepareRaw, EnterGate, Distinct
    <3>2. Controls' = Controls /\ Spent' \in {Spent, Spent \union {o}}
          /\ \A p \in Controls : reference'[p] = reference[p]
      <4>1. kind'[o] = "control" <=> kind[o] = "control"
        BY <2>1, <3>1 DEF Distinct
      <4>2. reference'[o] = reference[o] \/ kind[o] # "control"
        BY <1>4, <2>1, <2>5 DEF CallGated, PrepareRaw, EnterGate, Distinct
      <4> QED BY <1>1, <1>5, <4>1, <4>2 DEF Controls, Spent
    <3>3. MaxChunks * Cardinality(Spent') >= MaxChunks * Cardinality(Spent)
          /\ MaxChunks * Cardinality(Spent) \in Nat /\ MaxChunks * Cardinality(Spent') \in Nat
      <4>1. Spent \in SUBSET Ops /\ Spent' \in SUBSET Ops
        BY <3>2 DEF Spent
      <4>2. CASE o \in Spent
        <5>1. Spent' = Spent
          BY <3>2, <4>2
        <5>2. MaxChunks * Cardinality(Spent) \in Nat
          BY <1>8, <4>1, RoomForOneMore
        <5> QED BY <5>1, <5>2
      <4>3. CASE o \notin Spent
        <5> DEFINE more == Spent \union {o}
        <5>1. MaxChunks * Cardinality(more) = MaxChunks * Cardinality(Spent) + MaxChunks
              /\ MaxChunks * Cardinality(Spent) \in Nat /\ MaxChunks \in Nat
          BY <1>8, <4>1, <4>3, RoomForOneMore, SessionAssumption
        <5>2. Spent' = Spent \/ Spent' = more
          BY <3>2
        <5> HIDE DEF more
        <5> QED BY <5>1, <5>2
      <4> QED BY <4>2, <4>3
    <3>4. Place(nextReference') <= MaxChunks * Cardinality(Spent') + Taken'
      <4>1. Place(nextReference) <= MaxChunks * Cardinality(Spent) + Taken
        BY <2>1 DEF Distinct
      <4>2. Taken \in Int /\ Place(nextReference) \in Nat
        <5>1. run.chunk \in Nat
          BY KnownIdsTyped
        <5> QED BY <1>4, <5>1, Places DEF Taken
      <4> QED BY <2>2, <3>1, <3>3, <4>1, <4>2
    <3>5. \A m \in Wire : kind'[m.id[1]] = kind[m.id[1]]
      BY <1>1, <1>2
    <3>6. \A p \in Ops : phase'[p] = "new" => kind'[p] = "none"
      BY <1>1, <1>5, <2>1 DEF Distinct
    <3>7. \A p \in Ops : kind'[p] = "raw" => reference'[p] = RawReference
      BY <1>1, <1>5, <2>1, <3>1 DEF Distinct
    <3> QED BY <1>1, <1>2, <1>5, <2>1, <2>3, <3>1, <3>2, <3>4, <3>5, <3>6, <3>7 DEF Distinct
  <2> QED BY <2>4, <2>5 DEF Caller
<1>9. OneByOne' = OneByOne /\ FewReferences' = FewReferences
  BY DEF OneByOne, FewReferences, Place
<1> QED BY <1>6, <1>7, <1>8, <1>9 DEF CorrelationInv

(* The references taken so far leave room for those of the running call.    *)
LEMMA RoomInHand ==
  ASSUME SessionInv, FewReferences, Distinct
  PROVE  /\ Taken \in Nat /\ Taken <= MaxChunks
         /\ MaxChunks * Cardinality(Spent) \in Nat
         /\ Place(nextReference) \in Nat /\ Place(RawReference) \in Nat
         /\ Place(nextReference) <= Place(RawReference)
         /\ pc \notin {"idle", "disconnecting"} /\ kind[Running] # "control" =>
               /\ Running \in Ops \ Spent
               /\ MaxChunks * Cardinality(Spent) + MaxChunks <= Place(RawReference)
<1>1. MaxChunks \in Nat \ {0}
  BY SessionAssumption DEF FewReferences
<1>2. pc \notin {"idle", "disconnecting"} =>
        run.chunk \in Nat \ {0} /\ run.chunk <= run.chunks /\ run.chunks \in Nat
  BY SessionAssumption DEF SessionInv, RunHolds, TypesHold, RunState
<1>3. Taken \in Nat /\ Taken <= MaxChunks
  BY <1>1, <1>2 DEF Taken, Distinct
<1>4. Place(nextReference) \in Nat /\ Place(RawReference) \in Nat
  BY Places, SessionAssumption DEF SessionInv, TypesHold, TypeOK
<1>5. Spent \in SUBSET Ops
  BY DEF Spent
<1>6. pc # "idle" => Running \in Ops /\ phase[Running] = "queued"
  BY WritingCall
<1>7. pc \notin {"idle", "disconnecting"} /\ kind[Running] # "control" => Running \in Ops \ Spent
  BY <1>6 DEF Spent
<1>8. Taken > 0 => pc \notin {"idle", "disconnecting"} /\ kind[Running] # "control"
  BY DEF Taken
<1>9. Place(nextReference) <= MaxChunks * Cardinality(Spent) + Taken
  BY DEF Distinct
<1> HIDE DEF Taken, Spent
<1>10. /\ MaxChunks * Cardinality(Spent) \in Nat
       /\ MaxChunks * Cardinality(Spent) <= Place(RawReference)
       /\ Running \in Ops \ Spent => MaxChunks * Cardinality(Spent) + MaxChunks <= Place(RawReference)
  BY <1>5, RoomForOneMore
<1> QED BY <1>1, <1>3, <1>4, <1>7, <1>8, <1>9, <1>10

LEMMA StartKeepsCorrelationInv ==
  ASSUME SessionInv, EffectInv, CorrelationInv, Start
  PROVE  CorrelationInv'
<1>1. /\ pc = "idle" /\ queue # <<>> /\ UNCHANGED <<pduLength, nextReference, callVars, netVars>>
      /\ UNCHANGED queue
      /\ pc' = IF kind[Running] = "disconnect" THEN "disconnecting" ELSE "chunk"
  BY DEF Start, Gate!Start
<1>2. PICK n \in 1 .. (IF Chunked(kind[Running]) THEN MaxChunks ELSE 1) :
          run' = [NoRun EXCEPT !.chunk = 1, !.chunks = n,
                               !.planned = IF Chunked(kind[Running]) THEN pduLength
                                           ELSE size[Running]]
  BY DEF Start
<1>3. /\ run'.chunk = 1 /\ run'.chunks = n
      /\ run'.planned = IF Chunked(kind[Running]) THEN pduLength ELSE size[Running]
  BY <1>2 DEF NoRun
<1>4. Wire' = Wire /\ Running' = Running /\ UNCHANGED <<phase, kind, reference, crossed>>
  BY <1>1 DEF Wire, Messages, Running, netVars, callVars
<1>5. Running \in Ops /\ kind[Running] \in OpKinds
  BY <1>1, RunningCall DEF SessionInv, PlansHold, TypesHold
<1>6. pc' \notin Exchanging /\ pc' # "receive" /\ pc' # "idle"
  BY <1>1 DEF Exchanging
<1>7. OwnHolds'
  BY <1>4, <1>6 DEF CorrelationInv, OwnHolds, NoCrossedReplies
<1>8. ASSUME OneByOne PROVE InTurn'
  <2>1. InTurn /\ BetweenExchanges
    BY <1>1, <1>8 DEF CorrelationInv, BetweenExchanges
  <2>2. pc' = "chunk" => run'.planned <= pduLength'
    <3>1. pduLength \in Nat
      BY SessionAssumption DEF SessionInv, TypesHold, TypeOK
    <3>2. pc' = "chunk" => Chunked(kind[Running])
      BY <1>1, <1>5, <2>1 DEF InTurn, Chunked, OpKinds
    <3> QED BY <1>1, <1>3, <3>1, <3>2
  <2> QED BY <1>1, <1>4, <1>6, <2>1, <2>2 DEF InTurn
<1>9. ASSUME FewReferences PROVE Distinct'
  <2>1. Distinct /\ Taken = 0
    BY <1>1, <1>9 DEF CorrelationInv, Taken
  <2>2. Spent' = Spent /\ Controls' = Controls /\ Taken' = 0
    BY <1>1, <1>3, <1>4 DEF Spent, Controls, Taken
  <2>3. run'.chunks <= MaxChunks
    <3>1. MaxChunks \in Nat \ {0}
      BY <1>9, SessionAssumption DEF FewReferences
    <3> QED BY <1>2, <1>3, <3>1
  <2> QED BY <1>1, <1>4, <1>6, <2>1, <2>2, <2>3 DEF Distinct
<1>10. OneByOne' = OneByOne /\ FewReferences' = FewReferences
  BY DEF OneByOne, FewReferences, Place
<1> QED BY <1>7, <1>8, <1>9, <1>10 DEF CorrelationInv

(* The reference of a new exchange is on no wire.                          *)
LEMMA BeginExchangeKeepsCorrelationInv ==
  ASSUME ReferencesTell, SessionInv, EffectInv, CorrelationInv, BeginExchange
  PROVE  CorrelationInv'
<1>1. /\ pc = "chunk" /\ pc' \in {"attempt", "failed"} /\ pc # "idle"
      /\ UNCHANGED <<clientVars, queue, callVars, netVars>>
      /\ pc' = "failed" /\ error' = "invalidInput" =>
            ~(Chunked(kind[Running]) => run.planned <= pduLength)
  BY DEF BeginExchange, Raise
<1>2. /\ run'.chunk = run.chunk /\ run'.chunks = run.chunks
      /\ run'.reference = IF Chunked(kind[Running]) THEN nextReference ELSE reference[Running]
      /\ nextReference' = IF Chunked(kind[Running]) THEN NextReference(nextReference) ELSE nextReference
  BY DEF BeginExchange, SessionInv, TypesHold, RunState
<1>3. Wire' = Wire /\ Running' = Running /\ UNCHANGED <<phase, kind, reference, crossed, pduLength>>
  BY <1>1 DEF Wire, Messages, Running, netVars, callVars, clientVars
<1>4. Running \in Ops /\ kind[Running] \in OpKinds /\ phase[Running] = "queued"
      /\ reference[Running] \in References /\ nextReference \in References
  BY <1>1, WritingCall DEF SessionInv, PlansHold, TypesHold, TypeOK
<1>5. pc' = "failed" => error' \in {"invalidInput", "timeout", "disconnected"}
  BY DEF BeginExchange, Raise
<1>6. \A m \in Wire : m.reference \in References /\ m.id \in KnownIds
  BY KnownIdsTyped DEF Wire, Message, Reply, KnownIds
<1>7. ASSUME OneByOne
      PROVE  /\ Chunked(kind[Running]) /\ NextReference(nextReference) = nextReference'
             /\ run'.reference = nextReference
             /\ \A m \in Wire : m.reference # nextReference /\ NextReference(m.reference) = nextReference
             /\ ~(pc' = "failed" /\ error' = "invalidInput")
  <2>1. InTurn /\ BetweenExchanges
    BY <1>1, <1>7 DEF CorrelationInv, BetweenExchanges
  <2>2. Chunked(kind[Running])
    <3>1. kind[Running] # "disconnect"
      BY <1>1 DEF SessionInv, PlansHold, Chunked
    <3> QED BY <1>4, <2>1, <3>1 DEF InTurn, OpKinds, Chunked
  <2>3. \A m \in Wire : NextReference(m.reference) = nextReference
    BY <2>1 DEF InTurn
  <2>4. \A m \in Wire : m.reference # nextReference
    BY <1>4, <1>7, <2>3, NextReferenceDiffers DEF OneByOne
  <2>5. ~(pc' = "failed" /\ error' = "invalidInput")
    BY <1>1, <2>1, <2>2 DEF InTurn
  <2> QED BY <1>2, <2>2, <2>3, <2>4, <2>5
<1>8. ASSUME FewReferences, kind[Running] # "raw", NEW m \in Wire
      PROVE  m.reference # run'.reference
  <2>1. Distinct
    BY <1>8 DEF CorrelationInv
  <2>2. CASE Chunked(kind[Running])
    <3>1. kind[Running] # "control"
      BY <2>2 DEF Chunked
    <3>2. Place(nextReference) < Place(RawReference)
      <4>1. Taken = run.chunk - 1
        BY <1>1, <3>1 DEF Taken
      <4>2. run.chunk \in Nat /\ run.chunks \in Nat /\ run.chunk <= run.chunks /\ run.chunks <= MaxChunks
        BY <1>1, <2>1 DEF SessionInv, RunHolds, TypesHold, RunState, Distinct
      <4>3. Place(nextReference) <= MaxChunks * Cardinality(Spent) + Taken
        BY <2>1 DEF Distinct
      <4> QED BY <1>1, <1>8, <2>1, <3>1, <4>1, <4>2, <4>3, RoomInHand, SessionAssumption
    <3>3. m.reference = RawReference \/ Place(m.reference) < Place(nextReference)
      BY <2>1 DEF Distinct
    <3>4. Place(nextReference) \in Nat /\ Place(RawReference) \in Nat
      BY <1>8, <2>1, RoomInHand
    <3> QED BY <1>2, <2>2, <3>2, <3>3, <3>4
  <2>3. CASE ~Chunked(kind[Running])
    <3>1. run'.reference = reference[Running] /\ Running \in Controls /\ run.chunk = 1
      <4>1. kind[Running] = "control"
        BY <1>1, <1>8, <2>3 DEF SessionInv, PlansHold
      <4>2. run.chunks = 1 /\ run.chunk \in 1 .. MaxChunks + 1 /\ run.chunk <= run.chunks
        BY <1>1, <2>3 DEF SessionInv, PlansHold, RunHolds
      <4>3. run.chunk = 1
        BY <4>2, SessionAssumption
      <4> QED BY <1>2, <1>4, <2>3, <4>1, <4>3 DEF Controls
    <3>2. m.id[1] = Running => m.id[2] < run.chunk
      BY <1>1, <1>4, <1>6 DEF EffectInv, IdsHold
    <3>3. m.id[2] \in 1 .. MaxChunks + 1
      BY <1>6, KnownIdsTyped DEF Ids
    <3>4. m.id[1] # Running
      BY <3>1, <3>2, <3>3, SessionAssumption
    <3> QED BY <2>1, <3>1, <3>4 DEF Distinct
  <2> QED BY <2>2, <2>3
<1>9. OwnHolds'
  <2>1. \A m \in Wire : kind[Running] # "raw" => m.reference # run'.reference
    BY <1>7, <1>8 DEF ReferencesTell
  <2>2. kind[Running] # "disconnect"
    BY <1>1 DEF SessionInv, PlansHold, Chunked
  <2> QED BY <1>1, <1>3, <2>1, <2>2 DEF CorrelationInv, OwnHolds, NoCrossedReplies
<1>10. ASSUME OneByOne PROVE InTurn'
  <2>1. InTurn
    BY <1>10 DEF CorrelationInv
  <2>2. ~BetweenExchanges'
    BY <1>1, <1>5, <1>7, <1>10 DEF BetweenExchanges
  <2> QED BY <1>1, <1>3, <1>7, <1>10, <2>1, <2>2 DEF InTurn
<1>11. ASSUME FewReferences PROVE Distinct'
  <2>1. Distinct
    BY <1>11 DEF CorrelationInv
  <2>2. Spent' = Spent /\ Controls' = Controls
    BY <1>3 DEF Spent, Controls
  <2>3. run.chunk \in Nat \ {0} /\ run.chunks \in Nat /\ run.chunk <= run.chunks /\ run.chunks <= MaxChunks
    BY <1>1, <2>1, SessionAssumption DEF SessionInv, RunHolds, TypesHold, RunState, Distinct
  <2>4. Taken = (IF kind[Running] = "control" THEN 0 ELSE run.chunk - 1)
        /\ Taken' = (IF kind[Running] = "control" THEN 0 ELSE run.chunk)
    BY <1>1, <1>2, <1>3 DEF Taken
  <2>5. Chunked(kind[Running]) => Place(nextReference) < Place(RawReference)
    <3>1. Chunked(kind[Running]) => kind[Running] # "control"
      BY DEF Chunked
    <3>2. Place(nextReference) <= MaxChunks * Cardinality(Spent) + Taken
      BY <2>1 DEF Distinct
    <3> QED BY <1>1, <1>11, <2>1, <2>3, <2>4, <3>1, <3>2, RoomInHand, SessionAssumption
  <2>6. Place(nextReference') = IF Chunked(kind[Running]) THEN Place(nextReference) + 1
                                ELSE Place(nextReference)
    BY <1>2, <1>4, <2>5, Places, SessionAssumption
  <2>7. Place(nextReference) \in Nat /\ MaxChunks * Cardinality(Spent) \in Nat
        /\ Place(nextReference) <= MaxChunks * Cardinality(Spent) + Taken
    BY <1>11, <2>1, RoomInHand DEF Distinct
  <2>8. Place(nextReference') <= MaxChunks * Cardinality(Spent') + Taken'
    <3>1. Chunked(kind[Running]) => kind[Running] # "control"
      BY DEF Chunked
    <3> QED BY <2>2, <2>3, <2>4, <2>6, <2>7, <3>1
  <2>9. \A r \in References : Place(r) < Place(nextReference) => Place(r) < Place(nextReference')
    <3>1. \A r \in References : Place(r) \in Nat
      BY Places
    <3> QED BY <2>6, <2>7, <3>1
  <2>10. \A o \in Controls : reference[o] \in References /\ Place(reference[o]) < Place(nextReference)
    BY <2>1 DEF Distinct, Controls, SessionInv, TypesHold
  <2>11. \A m \in Wire : kind[m.id[1]] # "raw" => Place(m.reference) < Place(nextReference')
    BY <1>6, <2>1, <2>9 DEF Distinct
  <2>12. Chunked(kind[Running]) => /\ Place(run'.reference) < Place(nextReference')
                                   /\ \A o \in Controls : reference[o] # run'.reference
    BY <1>2, <2>6, <2>7, <2>10
  <2>13. kind[Running] \in {"raw", "control"} => run'.reference = reference[Running]
    BY <1>2 DEF Chunked
  <2> QED BY <1>1, <1>2, <1>3, <2>1, <2>2, <2>8, <2>9, <2>10, <2>11, <2>12, <2>13 DEF Distinct
<1>12. OneByOne' = OneByOne /\ FewReferences' = FewReferences
  BY DEF OneByOne, FewReferences, Place
<1> QED BY <1>9, <1>10, <1>11, <1>12 DEF CorrelationInv

(* The request that is sent is the first to carry its reference.           *)
LEMMA SendKeepsCorrelationInv ==
  ASSUME SessionInv, EffectInv, CorrelationInv, Send
  PROVE  CorrelationInv'
<1>1. pc \in Exchanging \ {"receive"} /\ pc \in Exchanging /\ pc # "receive" /\ pc # "idle"
      /\ pc # "disconnecting" /\ pc # "chunk"
  BY DEF Send, Exchanging
<1>2. CASE \E failure \in ErrorKinds : Catch(failure)
  BY <1>1, <1>2, CatchKeepsCorrelationInv
<1>3. CASE pc' = "receive" /\ UNCHANGED <<pduLength, nextReference, error>>
  <2>1. /\ run' = [run EXCEPT !.sends = run.sends + 1, !.attempted = TRUE,
                              !.allowance = MaxStaleResponses]
        /\ UNCHANGED <<queue, callVars, toClient, crossed>>
        /\ phase[Running] = "queued" /\ Running' = Running
        /\ SentRequest \in Message
    BY <1>3, SendAdds
  <2>2. /\ SentRequest.id = SentId /\ SentId[1] = Running /\ SentId \notin KnownIds
        /\ Messages(toPlc)' = Messages(toPlc) \union {SentRequest}
        /\ Messages(toClient)' = Messages(toClient)
        /\ run'.chunk = run.chunk /\ run'.sends = run.sends + 1
    BY <1>3, SendAdds
  <2>3. /\ Wire' = Wire \union {SentRequest} /\ SentRequest.reference = run.reference
        /\ Awaited' = SentId
    BY <2>1, <2>2 DEF Wire, SentRequest, SentId, Awaited
  <2>4. /\ run'.reference = run.reference /\ run'.chunks = run.chunks /\ run'.planned = run.planned
        /\ run.reference \in References
    BY <2>1 DEF SessionInv, TypesHold, RunState
  <2>5. UNCHANGED <<phase, kind, reference>>
    BY <2>1 DEF callVars
  <2>6. \A m \in Wire : m.id # SentId
    BY <2>2 DEF Wire, KnownIds
  <2>7. OwnHolds'
    <3>1. \A m \in Wire : kind[Running] # "raw" => m.reference # run.reference
      BY <1>1 DEF CorrelationInv, OwnHolds
    <3>2. kind[Running] # "disconnect"
      BY <1>1 DEF CorrelationInv, OwnHolds
    <3> QED BY <1>3, <2>1, <2>2, <2>3, <2>4, <2>5, <2>6, <3>1, <3>2
            DEF CorrelationInv, OwnHolds, NoCrossedReplies
  <2>8. Running \in Ops /\ kind[Running] \in OpKinds
    BY <1>1, <2>1, WritingCall DEF SessionInv, PlansHold, TypesHold
  <2>9. ASSUME OneByOne PROVE InTurn'
    <3>1. InTurn /\ kind[Running] # "raw"
      BY <1>3, <2>8, <2>9 DEF CorrelationInv, InTurn
    <3>2. \A m \in Wire : m.reference # run.reference
      BY <1>1, <3>1 DEF CorrelationInv, OwnHolds
    <3>3. \A i \in 1 .. Len(toClient) : toClient[i] \in Wire
      BY DEF Wire, Messages, SessionInv, TypesHold
    <3>4. InOrder'
      BY <2>1, <2>4, <3>2, <3>3 DEF InOrder
    <3>5. ~BetweenExchanges'
      BY <1>3 DEF BetweenExchanges
    <3>6. \A m \in Wire' : m.reference # run'.reference => NextReference(m.reference) = run'.reference
      BY <1>1, <2>3, <2>4, <3>1 DEF InTurn
    <3>7. NextReference(run'.reference) = nextReference'
      BY <1>1, <1>3, <2>4, <3>1 DEF InTurn
    <3> QED BY <1>3, <2>5, <3>1, <3>4, <3>5, <3>6, <3>7 DEF InTurn
  <2>10. ASSUME FewReferences PROVE Distinct'
    <3>1. Distinct
      BY <2>10 DEF CorrelationInv
    <3>2. Spent' = Spent /\ Controls' = Controls /\ Taken' = Taken
      BY <1>1, <1>3, <2>1, <2>2, <2>5 DEF Spent, Controls, Taken
    <3>3. Place(nextReference) <= Place(RawReference) /\ Place(nextReference) \in Nat
          /\ Place(RawReference) \in Nat
      BY <2>10, <3>1, RoomInHand
    <3>4. Chunked(kind[Running]) \/ kind[Running] = "control" \/ kind[Running] = "raw"
      <4>1. kind[Running] # "disconnect"
        BY <1>1 DEF CorrelationInv, OwnHolds
      <4> QED BY <2>8, <4>1 DEF OpKinds, Chunked
    <3>5. /\ kind[Running] = "raw" => run.reference = RawReference
          /\ kind[Running] # "raw" => Place(run.reference) < Place(nextReference)
          /\ \A o \in Controls : run.reference = reference[o] => Running = o
      <4>1. CASE Chunked(kind[Running])
        BY <1>1, <3>1, <4>1 DEF Distinct, Chunked
      <4>2. CASE kind[Running] = "control"
        <5>1. Running \in Controls /\ run.reference = reference[Running]
          BY <1>1, <2>8, <3>1, <4>2 DEF Distinct, Controls
        <5> QED BY <3>1, <4>2, <5>1 DEF Distinct
      <4>3. CASE kind[Running] = "raw"
        <5>1. run.reference = RawReference
          BY <1>1, <2>8, <3>1, <4>3 DEF Distinct
        <5>2. \A o \in Controls : Place(reference[o]) < Place(nextReference)
          BY <3>1 DEF Distinct
        <5>3. \A o \in Controls : reference[o] # RawReference
          BY <3>3, <5>2
        <5> QED BY <4>3, <5>1, <5>3
      <4> QED BY <3>4, <4>1, <4>2, <4>3
    <3>6. \A m \in Wire' :
          /\ kind[m.id[1]] = "raw" => m.reference = RawReference
          /\ kind[m.id[1]] # "raw" => Place(m.reference) < Place(nextReference)
          /\ \A o \in Controls : m.reference = reference[o] => m.id[1] = o
      <4>1. SentRequest.id[1] = Running
        BY <2>2
      <4> QED BY <2>3, <3>1, <3>5, <4>1 DEF Distinct
    <3>7. pc' \in Exchanging => pc \in Exchanging
      BY <1>1
    <3> QED BY <1>1, <1>3, <2>1, <2>4, <2>5, <3>1, <3>2, <3>6, <3>7 DEF Distinct
  <2>11. OneByOne' = OneByOne /\ FewReferences' = FewReferences
    BY DEF OneByOne, FewReferences, Place
  <2> QED BY <2>7, <2>9, <2>10, <2>11 DEF CorrelationInv
<1>4. {"disconnected", "protocol"} \subseteq ErrorKinds
  BY DEF ErrorKinds
<1>5. (\E failure \in ErrorKinds : Catch(failure))
        \/ (pc' = "receive" /\ UNCHANGED <<pduLength, nextReference, error>>)
  BY <1>4 DEF Send
<1> QED BY <1>2, <1>3, <1>5

(* The reply that is delivered is the one that is waited for.              *)
LEMMA ReceiveKeepsCorrelationInv ==
  ASSUME SessionInv, EffectInv, CorrelationInv, Receive
  PROVE  CorrelationInv'
<1> DEFINE reply == Head(toClient)
<1>1. pc = "receive" /\ pc \in Exchanging /\ toClient # <<>> /\ pc # "idle"
  BY DEF Receive, Exchanging
<1>2. CASE Catch("protocol")
  BY <1>1, <1>2, CatchKeepsCorrelationInv DEF ErrorKinds
<1>3. /\ reply \in Messages(toClient) /\ reply \in Wire /\ toClient \in Seq(Reply)
      /\ Messages(Tail(toClient)) \subseteq Messages(toClient)
      /\ reply = toClient[1] /\ Len(toClient) \in Nat \ {0} /\ Len(Tail(toClient)) = Len(toClient) - 1
      /\ \A i \in 1 .. Len(toClient) - 1 : Tail(toClient)[i] = toClient[i + 1]
      /\ \A i \in 1 .. Len(toClient) : toClient[i] \in Messages(toClient)
  <2>1. toClient \in Seq(Reply)
    BY DEF SessionInv, TypesHold
  <2>2. reply \in Messages(toClient) /\ Messages(Tail(toClient)) \subseteq Messages(toClient)
    BY <1>1, <2>1, WireContents
  <2>3. /\ reply = toClient[1] /\ Len(toClient) \in Nat \ {0} /\ Len(Tail(toClient)) = Len(toClient) - 1
        /\ \A i \in 1 .. Len(toClient) - 1 : Tail(toClient)[i] = toClient[i + 1]
    BY <1>1, <2>1
  <2>4. \A i \in 1 .. Len(toClient) : toClient[i] \in Messages(toClient)
    BY <2>1 DEF Messages
  <2> QED BY <2>1, <2>2, <2>3, <2>4 DEF Wire
<1>4. CASE /\ toClient' = Tail(toClient)
           /\ UNCHANGED <<nextReference, pduLength, queue, callVars, toPlc, crossed, pc, error>>
           /\ run' = [run EXCEPT !.allowance = run.allowance - 1]
  <2>1. /\ run'.chunk = run.chunk /\ run'.chunks = run.chunks /\ run'.planned = run.planned
        /\ run'.reference = run.reference /\ run'.sends = run.sends
    BY <1>4 DEF SessionInv, TypesHold, RunState
  <2>2. Wire' \subseteq Wire
    BY <1>3, <1>4 DEF Wire, Messages
  <2>3. OneByOne => InOrder'
    <3>1. OneByOne => InOrder
      BY <1>1 DEF CorrelationInv, InTurn
    <3> QED BY <1>3, <1>4, <2>1, <3>1 DEF InOrder
  <2> QED BY <1>4, <2>1, <2>2, <2>3, QuietKeepsCorrelationInv
<1>5. CASE /\ toClient' = Tail(toClient) /\ reply.reference = run.reference
           /\ UNCHANGED <<nextReference, pduLength, queue, callVars, toPlc>>
           /\ crossed' = IF reply.id = Awaited THEN crossed ELSE crossed \union {Running}
           /\ \/ pc' = "chunk" /\ run' = [run EXCEPT !.chunk = run.chunk + 1]
              \/ pc' \in {"succeeded", "failed"} /\ run' = run
  <2>1. /\ run'.chunks = run.chunks /\ run'.planned = run.planned /\ run'.reference = run.reference
        /\ run'.chunk = IF pc' = "chunk" THEN run.chunk + 1 ELSE run.chunk
        /\ run.chunk \in Nat
    BY <1>5 DEF SessionInv, TypesHold, RunState
  <2>2. Wire' \subseteq Wire /\ Running' = Running /\ UNCHANGED <<phase, kind, reference>>
    BY <1>3, <1>5 DEF Wire, Messages, Running, callVars
  <2>3. Running \in Ops /\ phase[Running] = "queued"
    BY <1>1, WritingCall
  <2>4. pc' \notin Exchanging /\ pc' \notin {"idle", "disconnecting"}
    BY <1>5 DEF Exchanging
  <2>5. kind[Running] # "raw" => reply.id = Awaited
    BY <1>1, <1>3, <1>5 DEF CorrelationInv, OwnHolds
  <2>6. OwnHolds'
    BY <1>5, <2>2, <2>3, <2>4, <2>5 DEF CorrelationInv, OwnHolds, NoCrossedReplies
  <2>7. ASSUME OneByOne PROVE InTurn'
    <3>1. InTurn /\ kind[Running] # "raw" /\ InOrder
      BY <1>1, <2>3, <2>7 DEF CorrelationInv, InTurn
    <3>2. \A i \in 1 .. Len(toClient) : toClient[i].reference = run.reference
      <4>1. \A i \in 1 .. Len(toClient) : i = 1 \/ 1 < i
        BY <1>3
      <4>2. 1 \in 1 .. Len(toClient)
        BY <1>3
      <4> QED BY <1>3, <1>5, <3>1, <4>1, <4>2 DEF InOrder
    <3>3. toPlc = <<>>
      <4>1. crossed = {}
        BY <3>1 DEF CorrelationInv, OwnHolds, NoCrossedReplies, InTurn
      <4> QED BY <1>1, <1>3, <2>5, <3>1, <4>1 DEF EffectInv, WireHolds
    <3>4. \A m \in Wire' : m.reference = run.reference
      <4>1. \A m \in Messages(toClient) : \E i \in 1 .. Len(toClient) : m = toClient[i]
        BY <1>3 DEF Messages
      <4>2. Wire' \subseteq Messages(toClient)
        <5>1. Wire' = Messages(<<>>) \union Messages(Tail(toClient))
          BY <1>5, <3>3 DEF Wire, Messages
        <5> QED BY <1>3, <5>1, WireContents
      <4> QED BY <3>2, <4>1, <4>2
    <3>5. NextReference(run.reference) = nextReference
      BY <1>1, <3>1 DEF InTurn
    <3>6. run.planned <= pduLength
      BY <1>1 DEF SessionInv, PlansHold
    <3> QED BY <1>5, <2>1, <2>2, <2>4, <3>1, <3>4, <3>5, <3>6 DEF InTurn, Exchanging
  <2>8. ASSUME FewReferences PROVE Distinct'
    <3>1. Distinct
      BY <2>8 DEF CorrelationInv
    <3>2. Spent' = Spent /\ Controls' = Controls
      BY <2>2 DEF Spent, Controls
    <3>3. Taken' = Taken
      BY <1>1, <2>1, <2>2, <2>4 DEF Taken
    <3> QED BY <1>1, <1>5, <2>1, <2>2, <2>4, <3>1, <3>2, <3>3 DEF Distinct
  <2>9. OneByOne' = OneByOne /\ FewReferences' = FewReferences
    BY DEF OneByOne, FewReferences, Place
  <2> QED BY <2>6, <2>7, <2>8, <2>9 DEF CorrelationInv
<1>6. \A status : Decoded(status) =>
         \/ pc' = "chunk" /\ run' = [run EXCEPT !.chunk = run.chunk + 1]
         \/ pc' \in {"succeeded", "failed"} /\ run' = run
  BY DEF Decoded
<1>7. CorrelationStep(run.reference, run.allowance, reply.reference) = "deliver"
        => reply.reference = run.reference
  BY DEF CorrelationStep
<1>8. Catch("protocol")
      \/ /\ toClient' = Tail(toClient)
         /\ UNCHANGED <<nextReference, pduLength, queue, callVars, toPlc>>
         /\ \/ /\ run' = [run EXCEPT !.allowance = run.allowance - 1]
               /\ UNCHANGED <<crossed, pc, error>>
            \/ /\ CorrelationStep(run.reference, run.allowance, reply.reference) = "deliver"
               /\ crossed' = IF reply.id = Awaited THEN crossed ELSE crossed \union {Running}
               /\ Decoded(reply.status)
  BY DEF Receive
<1> HIDE DEF reply
<1> QED BY <1>2, <1>4, <1>5, <1>6, <1>7, <1>8

(* A call that returns has taken all its references.                       *)
LEMMA ReturnKeepsCorrelationInv ==
  ASSUME SessionInv, EffectInv, CorrelationInv, Succeed \/ Fail \/ Disconnect
  PROVE  CorrelationInv'
<1>1. /\ pc \in {"succeeded", "failed", "disconnecting"} /\ pc' = "idle" /\ error' = "none"
      /\ run' = NoRun /\ phase' = [phase EXCEPT ![Running] = "done"]
      /\ UNCHANGED <<pduLength, nextReference, kind, reference, crossed>>
  BY DEF Succeed, Fail, Disconnect, Return
<1>2. Running \in Ops /\ phase[Running] = "queued" /\ phase'[Running] = "done"
      /\ \A o \in Ops : o # Running => phase'[o] = phase[o]
  BY <1>1, WritingCall DEF SessionInv, TypesHold, TypeOK
<1>3. \/ Wire' = {}
      \/ /\ Wire' = Wire /\ pc # "disconnecting"
         /\ pc = "failed" => kind[Running] = "raw" \/ error \in {"invalidInput", "plcRejected"}
  <2>1. (Disconnect \/ (Fail /\ CloseCurrent)) => Wire' = {}
    BY DropWireEmpties DEF Disconnect, CloseCurrent
  <2>2. UNCHANGED <<toPlc, toClient>> => Wire' = Wire
    BY DEF Wire, Messages
  <2> QED BY <2>1, <2>2 DEF Succeed, Fail
<1>4. OwnHolds'
  <2>1. \A o \in crossed' : o \in Ops /\ phase'[o] # "new"
    BY <1>1, <1>2 DEF CorrelationInv, OwnHolds
  <2> QED BY <1>1, <2>1 DEF CorrelationInv, OwnHolds, NoCrossedReplies, Exchanging
<1>5. ASSUME OneByOne PROVE InTurn'
  <2>1. InTurn /\ kind[Running] # "raw"
    BY <1>2, <1>5 DEF CorrelationInv, InTurn
  <2>2. Wire' = {} \/ BetweenExchanges
    BY <1>1, <1>3, <2>1 DEF BetweenExchanges
  <2> QED BY <1>1, <1>3, <2>1, <2>2 DEF InTurn, Exchanging
<1>6. ASSUME FewReferences PROVE Distinct'
  <2>1. Distinct
    BY <1>6 DEF CorrelationInv
  <2>2. Spent' = Spent \union {Running} /\ Controls' = Controls /\ Taken' = 0
    BY <1>1, <1>2 DEF Spent, Controls, Taken
  <2>3. Place(nextReference) <= MaxChunks * Cardinality(Spent')
    <3>1. Place(nextReference) <= MaxChunks * Cardinality(Spent) + Taken
          /\ Place(nextReference) \in Nat /\ Taken \in Nat /\ Taken <= MaxChunks
          /\ MaxChunks * Cardinality(Spent) \in Nat
      BY <1>6, <2>1, RoomInHand DEF Distinct
    <3>2. CASE Running \in Spent
      <4>1. Spent' = Spent
        BY <2>2, <3>2
      <4>2. Taken = 0
        BY <1>2, <3>2 DEF Spent, Taken
      <4> QED BY <3>1, <4>1, <4>2
    <3>3. CASE Running \notin Spent
      <4>1. Spent \in SUBSET Ops /\ Running \in Ops \ Spent
        BY <1>2, <3>3 DEF Spent
      <4>2. MaxChunks * Cardinality(Spent \union {Running}) = MaxChunks * Cardinality(Spent) + MaxChunks
        BY <1>6, <4>1, RoomForOneMore
      <4>3. MaxChunks \in Nat
        BY SessionAssumption
      <4> QED BY <2>2, <3>1, <4>2, <4>3
    <3> QED BY <3>2, <3>3
  <2>4. /\ \A o \in Ops : phase'[o] = "new" => kind[o] = "none"
        /\ \A m \in Wire' : m \in Wire
    BY <1>2, <1>3, <2>1 DEF Distinct
  <2>5. Place(nextReference') <= MaxChunks * Cardinality(Spent') + Taken'
    <3>1. MaxChunks * Cardinality(Spent') \in Nat
      <4>1. Spent' \in SUBSET Ops
        BY DEF Spent
      <4> QED BY <1>6, <4>1, RoomForOneMore
    <3> QED BY <1>1, <2>2, <2>3, <3>1
  <2> QED BY <1>1, <2>1, <2>2, <2>4, <2>5 DEF Distinct, Exchanging
<1>7. OneByOne' = OneByOne /\ FewReferences' = FewReferences
  BY DEF OneByOne, FewReferences, Place
<1> QED BY <1>4, <1>5, <1>6, <1>7 DEF CorrelationInv

(* A reply carries the reference of its request, and comes after those the *)
(* PLC sent before.                                                        *)
LEMMA EnvironmentKeepsCorrelationInv ==
  ASSUME SessionInv, EffectInv, CorrelationInv, Environment
  PROVE  CorrelationInv'
<1>1. UNCHANGED <<pduLength, nextReference, queue, callVars, pc, error, crossed>>
  BY DEF Environment, DeadlineExpires, PlcServes, StrayServedOrLost, clientVars, runVars, netVars
<1>2. /\ run'.chunk = run.chunk /\ run'.chunks = run.chunks /\ run'.planned = run.planned
      /\ run'.reference = run.reference /\ run'.sends = run.sends
  BY DEF Environment, DeadlineExpires, PlcServes, StrayServedOrLost, runVars, SessionInv,
         TypesHold, RunState
<1>3. CASE UNCHANGED <<toPlc, toClient>>
  <2>1. Wire' = Wire
    BY <1>3 DEF Wire, Messages
  <2>2. OneByOne /\ pc = "receive" => InOrder'
    <3>1. OneByOne /\ pc = "receive" => InOrder
      BY DEF CorrelationInv, InTurn
    <3> QED BY <1>2, <1>3, <3>1 DEF InOrder
  <2> QED BY <1>1, <1>2, <2>1, <2>2, QuietKeepsCorrelationInv
<1>4. CASE PlcServes
  <2> DEFINE request == Head(toPlc)
  <2>1. PICK status \in {"ok", "rejected", "malformed", "garbled"}, copies \in 1 .. 2 :
          toClient' = toClient \o [i \in 1 .. copies |->
              [id |-> request.id, reference |-> request.reference, status |-> status]]
    BY <1>4 DEF PlcServes
  <2>2. toPlc # <<>> /\ toPlc' = Tail(toPlc)
    BY <1>4 DEF PlcServes
  <2>3. toPlc \in Seq(Message) /\ toClient \in Seq(Reply)
    BY DEF SessionInv, TypesHold
  <2>4. request \in Messages(toPlc) /\ Messages(Tail(toPlc)) \subseteq Messages(toPlc)
    BY <2>2, <2>3, WireContents
  <2> DEFINE reply == [id |-> request.id, reference |-> request.reference, status |-> status]
             answers == [i \in 1 .. copies |-> reply]
  <2>5. reply.id = request.id /\ reply.reference = request.reference
    OBVIOUS
  <2> HIDE DEF reply, request
  <2>6. toClient' = toClient \o answers
    BY <2>1 DEF reply, answers
  <2>7. Messages(toClient') = Messages(toClient) \union {reply}
    BY <2>3, <2>6, RepliesAdded DEF answers
  <2>8. Wire' = Messages(Tail(toPlc)) \union (Messages(toClient) \union {reply})
    BY <2>2, <2>7 DEF Wire, Messages
  <2>9. \A m \in Wire' : \E n \in Wire : n.id = m.id /\ n.reference = m.reference
    <3>1. request \in Wire /\ Messages(Tail(toPlc)) \subseteq Wire /\ Messages(toClient) \subseteq Wire
      BY <2>4 DEF Wire
    <3> QED BY <2>5, <2>8, <3>1
  <2>10. ASSUME OneByOne, pc = "receive" PROVE InOrder'
    <3>1. InTurn /\ InOrder
      BY <2>10 DEF CorrelationInv, InTurn
    <3>2. crossed = {}
      BY <3>1 DEF CorrelationInv, OwnHolds, NoCrossedReplies, InTurn
    <3>3. request.id = Awaited
      BY <2>2, <2>10, <3>2 DEF EffectInv, WireHolds, request
    <3>4. reply.reference = run.reference
      <4>1. request \in Wire /\ pc \in Exchanging
        BY <2>4, <2>10 DEF Wire, Exchanging
      <4> QED BY <2>5, <2>10, <3>3, <4>1 DEF CorrelationInv, OwnHolds
    <3>5. /\ answers \in Seq({reply}) /\ Len(answers) = copies
          /\ \A i \in 1 .. copies : answers[i] = reply
      OBVIOUS
    <3> HIDE DEF answers
    <3>6. /\ Len(toClient) \in Nat /\ Len(toClient') = Len(toClient) + copies
          /\ \A i \in 1 .. Len(toClient) : toClient'[i] = toClient[i]
          /\ \A i \in 1 .. Len(toClient') : i > Len(toClient) => toClient'[i] = reply
      <4>1. /\ Len(toClient) \in Nat /\ Len(toClient') = Len(toClient) + copies
            /\ \A i \in 1 .. Len(toClient) : toClient'[i] = toClient[i]
        BY <2>3, <2>6, <3>5
      <4>2. ASSUME NEW i \in 1 .. Len(toClient'), i > Len(toClient) PROVE toClient'[i] = reply
        <5>1. toClient'[i] = answers[i - Len(toClient)]
          BY <2>3, <2>6, <3>5, <4>1, <4>2
        <5>2. i - Len(toClient) \in 1 .. copies
          BY <4>1, <4>2
        <5> QED BY <3>5, <5>1, <5>2
      <4> QED BY <4>1, <4>2
    <3>7. ASSUME NEW i \in 1 .. Len(toClient'), NEW j \in 1 .. Len(toClient'),
                 i < j, toClient'[i].reference = run.reference
          PROVE  toClient'[j].reference = run.reference
      <4>1. CASE j > Len(toClient)
        BY <3>4, <3>6, <4>1
      <4>2. CASE j <= Len(toClient)
        <5>1. i \in 1 .. Len(toClient) /\ j \in 1 .. Len(toClient)
          BY <3>6, <3>7, <4>2
        <5> QED BY <3>1, <3>6, <3>7, <5>1 DEF InOrder
      <4> QED BY <3>6, <4>1, <4>2
    <3> QED BY <1>2, <3>7 DEF InOrder
  <2> QED BY <1>1, <1>2, <2>9, <2>10, QuietKeepsCorrelationInv
<1>5. DeadlineExpires \/ StrayServedOrLost => UNCHANGED <<toPlc, toClient>>
  BY DEF DeadlineExpires, StrayServedOrLost, netVars
<1> QED BY <1>3, <1>4, <1>5 DEF Environment

LEMMA NextKeepsCorrelationInv ==
  ASSUME ReferencesTell, SessionInv, EffectInv, CorrelationInv, [Next]_vars
  PROVE  CorrelationInv'
<1>1. CASE \E o \in Ops : Caller(o)
  BY <1>1, CallerKeepsCorrelationInv
<1>2. CASE Start \/ BeginExchange \/ Send \/ Receive \/ Reconnect \/ AdoptPduLength
  BY <1>2, StartKeepsCorrelationInv, BeginExchangeKeepsCorrelationInv, SendKeepsCorrelationInv,
     ReceiveKeepsCorrelationInv, ReconnectKeepsCorrelationInv
<1>3. CASE AttemptExpired \/ ReconnectFails \/ ReceiveFails
  <2>1. pc \in Exchanging /\ \E failure \in ErrorKinds : Catch(failure)
    BY <1>3 DEF AttemptExpired, ReconnectFails, ReceiveFails, ConnectFailures, ErrorKinds, Exchanging
  <2> QED BY <2>1, CatchKeepsCorrelationInv
<1>4. CASE Succeed \/ Fail \/ Disconnect
  BY <1>4, ReturnKeepsCorrelationInv
<1>5. CASE Environment
  BY <1>5, EnvironmentKeepsCorrelationInv
<1>6. CASE UNCHANGED vars
  <2>1. /\ UNCHANGED <<queue, callVars, nextReference, crossed, run, pc, error, toPlc, toClient>>
        /\ pduLength' = pduLength
    BY <1>6 DEF vars, clientVars, callVars, runVars, netVars
  <2>2. Wire' = Wire
    BY <2>1 DEF Wire, Messages
  <2>3. OneByOne /\ pc' = "receive" => InOrder'
    BY <2>1 DEF CorrelationInv, InTurn, InOrder
  <2> QED BY <2>1, <2>2, <2>3, QuietKeepsCorrelationInv
<1> QED BY <1>1, <1>2, <1>3, <1>4, <1>5, <1>6 DEF Next, Client

(* At every wait, what carries the reference of the running exchange is    *)
(* what it waits for: the exchange takes its reference when nothing on the *)
(* connection carries it, and replies come in the order of the requests.   *)
THEOREM CorrelationInvariant ==
  ASSUME ReferencesTell
  PROVE  Spec => [](SessionInv /\ EffectInv /\ CorrelationInv)
<1>1. Init => SessionInv /\ EffectInv /\ CorrelationInv
  BY SessionInvInit, EffectInvInit, CorrelationInvInit
<1>2. SessionInv /\ EffectInv /\ CorrelationInv /\ [Next]_vars
         => (SessionInv /\ EffectInv /\ CorrelationInv)'
  BY ReferencesTell, NextKeepsSessionInv, NextKeepsEffectInv, NextKeepsCorrelationInv
<1> QED BY <1>1, <1>2, PTL DEF Spec

(* No read or write takes the reply to another request for its own: not a  *)
(* repeated reply, not one to an earlier attempt, and not when the counter *)
(* of references comes round, however often it does.                       *)
THEOREM RepliesAreNotCrossed ==
  ASSUME ReferencesTell
  PROVE  Spec => []NoCrossedReplies
<1>1. CorrelationInv => NoCrossedReplies
  BY DEF CorrelationInv, OwnHolds
<1> QED BY ReferencesTell, <1>1, CorrelationInvariant, PTL

(* So what a failed write reports is true.                                 *)
THEOREM ReportsOfWritesAreTrue ==
  ASSUME ReferencesTell
  PROVE  Spec => []ProgressIsSound
<1> QED BY ReferencesTell, RepliesAreNotCrossed, ReportedProgressIsTrue, PTL
-----------------------------------------------------------------------------
(* 5. The gate                                                             *)

(* What a step of the session can be to the gate.                          *)
GateStutters == UNCHANGED queue /\ (pc' = "idle" <=> pc = "idle")
GateStep     == (\E c \in Ops : Gate!Enter(c)) \/ Gate!Start \/ Gate!Leave \/ GateStutters

(* While an operation runs, giving up a session is no concern of the gate. *)
LEMMA CatchPassesGate ==
  ASSUME NEW failure, Catch(failure)
  PROVE  queue' = queue /\ pc' # "idle"
  BY Zenon DEF Catch

LEMMA CallsPassGate ==
  ASSUME NEW o \in Ops, Caller(o)
  PROVE  GateStep
<1>1. CASE CallGated(o)
  <2>1. Gate!Enter(o)
    BY <1>1 DEF CallGated
  <2> QED BY <2>1 DEF GateStep
<1>2. CASE PrepareControl(o)
  BY <1>2 DEF PrepareControl, GateStep, GateStutters, runVars
<1>3. CASE PrepareRaw(o)
  BY <1>3 DEF PrepareRaw, GateStep, GateStutters, runVars
<1>4. CASE EnterGate(o)
  <2>1. Gate!Enter(o)
    BY <1>4 DEF EnterGate
  <2> QED BY <2>1 DEF GateStep
<1> QED BY <1>1, <1>2, <1>3, <1>4 DEF Caller

LEMMA ClientPassesGate == Client => GateStep
<1> SUFFICES ASSUME Client PROVE GateStep
  OBVIOUS
<1>1. CASE Start
  BY <1>1 DEF Start, GateStep
<1>2. ASSUME queue' = queue, pc # "idle", pc' # "idle"
      PROVE  GateStep
  BY <1>2 DEF GateStep, GateStutters
<1>3. CASE BeginExchange
  BY <1>2, <1>3, Zenon DEF BeginExchange, Raise
<1>4. CASE AttemptExpired
  BY <1>2, <1>4, CatchPassesGate, Zenon DEF AttemptExpired, Raise
<1>5. CASE Reconnect
  BY <1>2, <1>5, CatchPassesGate, Zenon DEF Reconnect
<1>6. CASE ReconnectFails
  BY <1>2, <1>6, CatchPassesGate, Zenon DEF ReconnectFails
<1>7. CASE AdoptPduLength
  BY <1>2, <1>7, Zenon DEF AdoptPduLength
<1>8. CASE Send
  BY <1>2, <1>8, CatchPassesGate, Zenon DEF Send
<1>9. CASE Receive
  BY <1>2, <1>9, CatchPassesGate, Zenon DEF Receive, Decoded
<1>10. CASE ReceiveFails
  BY <1>2, <1>10, CatchPassesGate, Zenon DEF ReceiveFails
<1>11. ASSUME Return PROVE GateStep
  BY <1>11 DEF Return, GateStep
<1>12. CASE Succeed \/ Fail \/ Disconnect
  BY <1>11, <1>12 DEF Succeed, Fail, Disconnect
<1> QED BY <1>1, <1>3, <1>4, <1>5, <1>6, <1>7, <1>8, <1>9, <1>10, <1>12 DEF Client

LEMMA EnvironmentPassesGate == Environment => GateStep
  BY DEF Environment, DeadlineExpires, PlcServes, StrayServedOrLost, GateStep, GateStutters, runVars

(* The calls of a client use the gate as SerialQueue offers it: every step *)
(* of a session admits a call, starts the oldest one, ends the one that    *)
(* runs, or is none of the gate's business.  With GateIsAQueue, which says *)
(* that tickets and promises implement SerialQueue, the session may take   *)
(* for its own what serialized runs in its turn.                           *)
THEOREM SessionUsesTheGate == Spec => Gate!Init /\ [][Gate!Next]_(Gate!vars)
<1>1. Init => Gate!Init
  BY Zenon DEF Init, Gate!Init
<1>2. [Next]_vars => [Gate!Next]_(Gate!vars)
  <2> SUFFICES ASSUME [Next]_vars PROVE [Gate!Next]_(Gate!vars)
    OBVIOUS
  <2>1. GateStep
    <3>1. CASE UNCHANGED vars
      BY <3>1 DEF vars, runVars, GateStep, GateStutters
    <3>2. CASE Next
      BY <3>2, CallsPassGate, ClientPassesGate, EnvironmentPassesGate DEF Next
    <3> QED BY <3>1, <3>2
  <2>2. ASSUME GateStutters PROVE UNCHANGED (Gate!vars)
    <3>1. (pc # "idle")' = (pc # "idle")
      BY <2>2, Zenon DEF GateStutters
    <3> QED BY <2>2, <3>1, Zenon DEF GateStutters, Gate!vars
  <2> QED BY <2>1, <2>2, Zenon DEF GateStep, Gate!Next
<1> QED BY <1>1, <1>2, PTL DEF Spec
=============================================================================
