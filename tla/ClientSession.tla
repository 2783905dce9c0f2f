--------------------------- MODULE ClientSession ---------------------------
(***************************************************************************)
(* One client, its session with a PLC and the calls that share it:         *)
(* admission through the serialization gate (SerialQueue), the exchange of *)
(* a request for its reply, the skipping of stale replies, the closing of  *)
(* the session on failure, reconnection and retries, chunked reads and     *)
(* writes with the record of write progress, and disconnect.  The network  *)
(* and the PLC are the environment.                                        *)
(*                                                                         *)
(* A step of the running operation reaches from one wait (for a reply, a   *)
(* connection, the gate) to the next.  Only the running operation writes   *)
(* the connection, the lifecycle state and the write progress, so what it  *)
(* does between two waits is one action; what other threads do without the *)
(* gate (taking a reference, checking the size of a raw request) is        *)
(* interleaved.                                                            *)
(***************************************************************************)
EXTENDS SessionPolicies, WriteProgress, FiniteSets

CONSTANTS
    Ops,                \* the calls made on the client, each by some thread
    Kinds,              \* the kinds of operation that are called
    PduLengths,         \* the PDU lengths a PLC may negotiate
    MaxChunks,          \* bound on the requests of one read or write
    MaxDuplicates,      \* bound on the replies the PLC sends a second time
    ReconnectRetries,   \* ClientConfig.reconnectRetries
    AllowMutatingRetries,        \* ClientConfig.allowPotentiallyMutatingRetries
    MaxStaleResponses,           \* ClientConfig.maxStaleResponses
    InitialRequestReference,     \* ClientConfig.initialRequestReference
    RawReference        \* the PDU reference callers embed in raw requests

OpKinds == {"read", "write", "control", "raw", "disconnect"}

ASSUME SessionAssumption ==
    /\ Kinds \subseteq OpKinds
    /\ PduLengths \subseteq Nat \ {0}
    /\ {MaxChunks, MaxDuplicates, ReconnectRetries, MaxStaleResponses} \subseteq Nat
    /\ AllowMutatingRetries \in BOOLEAN
    /\ {InitialRequestReference, RawReference} \subseteq References

VARIABLES
    \* the fields of Client
    connection,      \* PDU length of the open connection, or NoConnection
    lifecycle,       \* Client.state
    pduLength,       \* Client.currentPduLength
    nextReference,
    writeProgress,
    queue,           \* the calls admitted by the gate, oldest first
    \* the calls
    phase, kind, reference, size, report,
    \* the running operation
    pc, error, run,
    \* the network and the PLC
    toPlc,           \* requests on the open connection, in order
    toClient,        \* replies on the open connection, in order
    stray,           \* requests in flight on connections the client has shut
    applied,         \* the requests whose effect took place in the PLC
    duplicates,
    crossed          \* calls that were handed the reply to another request

clientVars == <<connection, lifecycle, pduLength, writeProgress>>
callVars   == <<phase, kind, reference, size, report>>
runVars    == <<pc, error, run>>
netVars    == <<toPlc, toClient, stray, applied, duplicates, crossed>>
vars == <<clientVars, nextReference, queue, callVars, runVars, netVars>>

NoConnection == 0

(* What the code keeps in local variables of the running operation.        *)
NoRun == [chunk |-> 0, chunks |-> 0, planned |-> 0, reference |-> 0, retries |-> 0,
          reconnectFirst |-> FALSE, attempted |-> FALSE, allowance |-> 0,
          expired |-> FALSE, sends |-> 0]

NoReport == [result |-> "none", progress |-> Snapshot(NoProgress)]

Gate == INSTANCE SerialQueue WITH Callers <- Ops, running <- (pc # "idle")

Running == Head(queue)

Chunked(k)     == k \in {"read", "write"}
Safety(k)      == IF k = "read" THEN "readOnly" ELSE "potentiallyMutating"
HasDeadline(k) == Chunked(k)      \* the transfer receive budget

(* Identifies the request last sent by the running operation.              *)
Awaited == <<Running, run.chunk, run.sends>>

Init ==
    /\ connection \in PduLengths
    /\ lifecycle = "connected"
    /\ pduLength = connection
    /\ nextReference = InitialRequestReference
    /\ writeProgress = NoProgress
    /\ queue = <<>>
    /\ phase = [o \in Ops |-> "new"]
    /\ kind = [o \in Ops |-> "none"]
    /\ reference = [o \in Ops |-> 0]
    /\ size = [o \in Ops |-> 0]
    /\ report = [o \in Ops |-> NoReport]
    /\ pc = "idle" /\ error = "none" /\ run = NoRun
    /\ toPlc = <<>> /\ toClient = <<>> /\ stray = {} /\ applied = {}
    /\ duplicates = 0
    /\ crossed = {}

-----------------------------------------------------------------------------
(* Calls, up to their admission                                            *)

(* Reads, writes and disconnect do everything inside the gate.             *)
CallGated(o) ==
    /\ phase[o] = "new"
    /\ \E k \in Kinds \ {"control", "raw"} : kind' = [kind EXCEPT ![o] = k]
    /\ phase' = [phase EXCEPT ![o] = "queued"]
    /\ UNCHANGED <<clientVars, nextReference, reference, size, report, runVars, netVars>>
    /\ Gate!Enter(o)

(* plcControl takes its reference and encodes its request before the gate. *)
PrepareControl(o) ==
    /\ phase[o] = "new" /\ "control" \in Kinds
    /\ kind' = [kind EXCEPT ![o] = "control"]
    /\ reference' = [reference EXCEPT ![o] = nextReference]
    /\ nextReference' = NextReference(nextReference)
    /\ size' = [size EXCEPT ![o] = 1]
    /\ phase' = [phase EXCEPT ![o] = "prepared"]
    /\ UNCHANGED <<clientVars, queue, report, runVars, netVars>>

(* rawExchange compares the request with the PDU length before the gate.   *)
PrepareRaw(o) ==
    /\ phase[o] = "new" /\ "raw" \in Kinds
    /\ kind' = [kind EXCEPT ![o] = "raw"]
    /\ reference' = [reference EXCEPT ![o] = RawReference]
    /\ \E s \in PduLengths :
        /\ size' = [size EXCEPT ![o] = s]
        /\ IF s > pduLength
           THEN /\ phase' = [phase EXCEPT ![o] = "done"]
                /\ report' = [report EXCEPT ![o].result = "invalidInput"]
           ELSE /\ phase' = [phase EXCEPT ![o] = "prepared"]
                /\ UNCHANGED report
    /\ UNCHANGED <<clientVars, nextReference, queue, runVars, netVars>>

EnterGate(o) ==
    /\ phase[o] = "prepared"
    /\ phase' = [phase EXCEPT ![o] = "queued"]
    /\ UNCHANGED <<clientVars, nextReference, kind, reference, size, report, runVars, netVars>>
    /\ Gate!Enter(o)

-----------------------------------------------------------------------------
(* Closing the session, and what the code does when an exchange fails      *)

Messages(wire) == {wire[i] : i \in DOMAIN wire}

Mutates(message) == Safety(kind[message.id[1]]) = "potentiallyMutating"

(* The connection is given up; what was sent on it may still be served.    *)
DropWire ==
    /\ toPlc' = <<>> /\ toClient' = <<>>
    /\ stray' = stray \union {m \in Messages(toPlc) : Mutates(m)}

(* Faulty: the transport is closed and the lifecycle is not told.          *)
CloseWithoutEvent ==
    /\ connection' = NoConnection
    /\ UNCHANGED lifecycle
    /\ DropWire

(* One action for two writes: between them only the holder of the gate     *)
(* looks at the connection, and whoever asks isConnected from outside sees *)
(* the lifecycle alone, so that no state in between can be told apart.     *)
CloseCurrent ==
    /\ connection' = NoConnection
    /\ lifecycle' = Transition(lifecycle, "transportClosed")
    /\ DropWire

(* The catch of exchangeWithRetries: close, then either give up with the   *)
(* error or go around once more, reconnecting first.  The replay of a write *)
(* that was attempted is recorded as such.                                 *)
Catch(failure) ==
    LET closed == Transition(lifecycle, "transportClosed") = "closed"
        budget == RetryBudgetAfter(run.retries, closed, failure,
                                   Safety(kind[Running]), AllowMutatingRetries)
    IN  /\ CloseCurrent
        /\ \/ /\ budget = NoRetry
              /\ pc' = "failed" /\ error' = failure
              /\ UNCHANGED <<run, writeProgress>>
           \/ /\ budget # NoRetry
              /\ pc' = "attempt"
              /\ run' = [run EXCEPT !.retries = budget, !.reconnectFirst = TRUE,
                                    !.attempted = FALSE]
              /\ writeProgress' = IF run.attempted /\ kind[Running] = "write"
                                  THEN Replay(writeProgress) ELSE writeProgress
              /\ UNCHANGED error
        /\ UNCHANGED <<pduLength, nextReference, queue, callVars, applied, duplicates, crossed>>

Raise(failure) ==
    /\ pc' = "failed" /\ error' = failure
    /\ UNCHANGED <<clientVars, queue, callVars, netVars>>

-----------------------------------------------------------------------------
(* The running operation                                                   *)

(* The gate lets the oldest call run.  A read or a write is planned for the *)
(* PDU length of this moment; a write starts a new progress record.        *)
Start ==
    /\ pc = "idle" /\ queue # <<>>
    /\ pc' = IF kind[Running] = "disconnect" THEN "disconnecting" ELSE "chunk"
    /\ \E n \in 1 .. (IF Chunked(kind[Running]) THEN MaxChunks ELSE 1) :
          run' = [NoRun EXCEPT !.chunk = 1, !.chunks = n,
                               !.planned = IF Chunked(kind[Running]) THEN pduLength
                                           ELSE size[Running]]
    /\ writeProgress' = IF kind[Running] = "write" THEN NoProgress ELSE writeProgress
    /\ Gate!Start
    /\ UNCHANGED <<connection, lifecycle, pduLength, nextReference, callVars, error, netVars>>

(* The first request of an operation may be retried, later ones may not:   *)
(* a caller must not find a completed part silently repeated.              *)
RetriesForEvery(chunk) == ReconnectRetries   \* faulty
RetriesFor(chunk) == IF chunk = 1 THEN ReconnectRetries ELSE 0

(* isConnected, asked before the first attempt of every exchange.          *)
AnySession == TRUE                           \* faulty
LiveSession == lifecycle = "connected"

(* Each request of a read or a write takes its own reference and is checked *)
(* against the current PDU length; a session that is down is not           *)
(* reconnected on behalf of a new request.                                 *)
BeginExchange ==
    LET k == kind[Running]
        fits == Chunked(k) => run.planned <= pduLength
        live == ~(k = "write" /\ run.expired)
    IN  /\ pc = "chunk"
        /\ nextReference' = IF Chunked(k) THEN NextReference(nextReference) ELSE nextReference
        /\ run' = [run EXCEPT
                     !.reference = IF Chunked(k) THEN nextReference ELSE reference[Running],
                     !.retries = RetriesFor(run.chunk),
                     !.reconnectFirst = FALSE, !.attempted = FALSE]
        /\ \/ ~fits /\ Raise("invalidInput")
           \/ fits /\ ~live /\ Raise("timeout")
           \/ fits /\ live /\ ~LiveSession /\ Raise("disconnected")
           \/ /\ fits /\ live /\ LiveSession
              /\ pc' = "attempt"
              /\ UNCHANGED <<clientVars, queue, callVars, error, netVars>>

(* checkReceiveDeadline before a connection is made and before a request is *)
(* sent: no time is left in the transfer budget.                           *)
AttemptExpired ==
    /\ pc \in {"attempt", "send"} /\ run.expired
    /\ Catch("timeout")

ConnectFailures == {"timeout", "disconnected", "transport", "protocol", "plcRejected"}

ReconnectFails ==
    /\ pc = "attempt" /\ run.reconnectFirst /\ ~run.expired
    /\ \E failure \in ConnectFailures : Catch(failure)

ShrinksUnnoticed(negotiated) == FALSE        \* faulty
Shrinks(negotiated) == negotiated < pduLength

(* A session whose PDU length shrank is dropped again.                     *)
Reconnect ==
    /\ pc = "attempt" /\ run.reconnectFirst /\ ~run.expired
    /\ \E negotiated \in PduLengths :
        LET next == Transition(Transition(lifecycle, "transportClosed"), "reconnected")
        IN  \/ Shrinks(negotiated) /\ Catch("protocol")
            \/ ~Shrinks(negotiated) /\ next = Illegal /\ Catch("lifecycle")
            \/ /\ ~Shrinks(negotiated) /\ next # Illegal
               /\ connection' = negotiated /\ lifecycle' = next
               /\ DropWire
               /\ pc' = "adopt"
               /\ UNCHANGED <<pduLength, writeProgress, nextReference, queue, callVars,
                              error, run, applied, duplicates, crossed>>

(* The last statement of reconnect, after the session became visible.      *)
AdoptPduLength ==
    /\ pc = "adopt"
    /\ pduLength' = connection
    /\ pc' = "send"
    /\ UNCHANGED <<connection, lifecycle, writeProgress, nextReference, queue, callVars,
                   error, run, netVars>>

(* A write is recorded as attempted before its request is sent.  A failing *)
(* send is this step followed by a failing receive: in both cases the PLC  *)
(* may or may not get the request.                                         *)
Send ==
    LET writing == kind[Running] = "write"
        recordable == writing => MaySend(writeProgress, <<run.chunk>>)
        id == <<Running, run.chunk, run.sends + 1>>
    IN  /\ pc = "send" \/ (pc = "attempt" /\ ~run.reconnectFirst)
        /\ ~run.expired
        /\ \/ connection = NoConnection /\ Catch("disconnected")
           \/ connection # NoConnection /\ ~recordable /\ Catch("protocol")
           \/ /\ connection # NoConnection /\ recordable
              /\ writeProgress' = IF writing THEN Sent(writeProgress, <<run.chunk>>)
                                  ELSE writeProgress
              /\ toPlc' = Append(toPlc, [id |-> id, reference |-> run.reference,
                                         size |-> run.planned])
              /\ run' = [run EXCEPT !.sends = @ + 1, !.attempted = TRUE,
                                    !.allowance = MaxStaleResponses]
              /\ pc' = "receive"
              /\ UNCHANGED <<connection, lifecycle, pduLength, nextReference, queue, callVars,
                             error, toClient, stray, applied, duplicates, crossed>>

(* Faulty: a receive that times out leaves the connection to the next call. *)
TimeoutKeepsSession ==
    pc = "receive" /\ Raise("timeout") /\ UNCHANGED <<run, nextReference>>

(* Faulty: only a read or a write, with its transfer deadline, stops waiting. *)
NoOperationTimeout ==
    pc = "receive" /\ run.expired /\ Catch("timeout")

(* Nothing usable arrives: the deadline passes, also when the reply is just *)
(* late, or the connection is lost.                                        *)
ReceiveFails ==
    /\ pc = "receive"
    /\ \E failure \in {"timeout", "disconnected", "transport"} : Catch(failure)

(* What the service decoder makes of the reply it is given, and where the  *)
(* operation goes from there.  Raw exchanges do not decode.                *)
Decoded(status) ==
    LET k == kind[Running]
        accepted == /\ status = "ok" \/ k = "raw"
                    /\ k = "write" => MayAcknowledge(writeProgress, <<"success">>)
    IN  \/ /\ accepted
           /\ writeProgress' = IF k = "write" THEN Acknowledge(writeProgress, <<"success">>)
                               ELSE writeProgress
           /\ IF run.chunk < run.chunks
              THEN pc' = "chunk" /\ run' = [run EXCEPT !.chunk = @ + 1]
              ELSE pc' = "succeeded" /\ UNCHANGED run
           /\ UNCHANGED error
        \/ /\ ~accepted
           /\ pc' = "failed"
           /\ error' = IF status = "rejected" THEN "plcRejected" ELSE "protocol"
           /\ UNCHANGED <<run, writeProgress>>

(* One turn of the receive loop: the reply is delivered, skipped as stale,  *)
(* or one stale reply too many; a PDU without a reference is an error.     *)
Receive ==
    /\ pc = "receive" /\ toClient # <<>> /\ ~run.expired
    /\ LET reply == Head(toClient)
           verdict == CorrelationStep(run.reference, run.allowance, reply.reference)
       IN  \/ /\ reply.status = "garbled" \/ verdict = "tooManyStale"
              /\ Catch("protocol")
           \/ /\ reply.status # "garbled" /\ verdict # "tooManyStale"
              /\ toClient' = Tail(toClient)
              /\ \/ /\ verdict = "skipStale"
                    /\ run' = [run EXCEPT !.allowance = @ - 1]
                    /\ UNCHANGED <<crossed, writeProgress, pc, error>>
                 \/ /\ verdict = "deliver"
                    /\ Decoded(reply.status)
                    /\ crossed' = IF reply.id = Awaited THEN crossed
                                  ELSE crossed \union {Running}
              /\ UNCHANGED <<connection, lifecycle, pduLength, nextReference, queue, callVars,
                             toPlc, stray, applied, duplicates>>

(* The operation returns to its caller and the gate opens to the next.     *)
Return ==
    /\ pc' = "idle" /\ error' = "none" /\ run' = NoRun
    /\ phase' = [phase EXCEPT ![Running] = "done"]
    /\ Gate!Leave
    /\ UNCHANGED <<pduLength, nextReference, kind, reference, size, applied, duplicates, crossed>>

Reports(result, progress) ==
    IF kind[Running] = "write"
    THEN /\ report' = [report EXCEPT ![Running] = [result |-> result, progress |-> Snapshot(progress)]]
         /\ writeProgress' = NoProgress
    ELSE /\ report' = [report EXCEPT ![Running].result = result]
         /\ UNCHANGED writeProgress

Succeed ==
    /\ pc = "succeeded"
    /\ Reports("ok", writeProgress)
    /\ Return
    /\ UNCHANGED <<connection, lifecycle, toPlc, toClient, stray>>

(* A rejection that came as an answer settles the outstanding attempt.     *)
RejectionForgotten(progress) == progress     \* faulty
FinalProgress(progress) ==
    IF error = "plcRejected" THEN GlobalReject(progress) ELSE progress

(* The catch around the whole operation.  A complete answer of the PLC, a   *)
(* rejection, leaves the session usable; anything else closes it.  A raw    *)
(* exchange has no catch of its own.                                       *)
Fail ==
    LET keepsSession == kind[Running] = "raw" \/ error \in {"invalidInput", "plcRejected"}
    IN  /\ pc = "failed"
        /\ IF keepsSession
           THEN UNCHANGED <<connection, lifecycle, toPlc, toClient, stray>>
           ELSE CloseCurrent
        /\ Reports(error, FinalProgress(writeProgress))
        /\ Return

Disconnect ==
    /\ pc = "disconnecting"
    /\ connection' = NoConnection
    /\ lifecycle' = Transition(Transition(lifecycle, "transportClosed"), "disconnect")
    /\ DropWire
    /\ Reports("ok", writeProgress)
    /\ Return

(* The transfer budget of a read or a write runs out, in any wait.         *)
DeadlineExpires ==
    /\ pc \in {"chunk", "attempt", "adopt", "send", "receive"}
    /\ HasDeadline(kind[Running]) /\ ~run.expired
    /\ run' = [run EXCEPT !.expired = TRUE]
    /\ UNCHANGED <<clientVars, nextReference, queue, callVars, pc, error, netVars>>

-----------------------------------------------------------------------------
(* The network and the PLC, as the client code has to expect them          *)

(* A request on the open connection is served in its turn.  A mutation that *)
(* is accepted takes effect and one that is rejected does not; behind an    *)
(* undecodable reply there may be either.  A reply may be sent twice.      *)
PlcServes ==
    LET request == Head(toPlc)
    IN  /\ toPlc # <<>>
        /\ toPlc' = Tail(toPlc)
        /\ \E status \in {"ok", "rejected", "malformed", "garbled"}, copies \in 1 .. 2 :
            LET reply == [id |-> request.id, reference |-> request.reference, status |-> status]
            IN  /\ duplicates + copies - 1 <= MaxDuplicates
                /\ duplicates' = duplicates + copies - 1
                /\ toClient' = toClient \o [i \in 1 .. copies |-> reply]
                /\ \/ /\ status # "rejected" /\ Mutates(request)
                      /\ applied' = applied \union {request.id}
                   \/ /\ status # "ok" \/ ~Mutates(request)
                      /\ UNCHANGED applied
    /\ UNCHANGED <<clientVars, nextReference, queue, callVars, runVars, stray, crossed>>

(* A request that was in flight when the client shut its connection is     *)
(* served late, perhaps after the next session began, or lost.             *)
StrayServedOrLost ==
    \E request \in stray :
        /\ stray' = stray \ {request}
        /\ applied' \in {applied, applied \union {request.id}}
        /\ UNCHANGED <<clientVars, nextReference, queue, callVars, runVars,
                       toPlc, toClient, duplicates, crossed>>

-----------------------------------------------------------------------------

Caller(o) == CallGated(o) \/ PrepareControl(o) \/ PrepareRaw(o) \/ EnterGate(o)

Client ==
    \/ Start \/ BeginExchange \/ AttemptExpired \/ Reconnect \/ ReconnectFails
    \/ AdoptPduLength \/ Send \/ Receive \/ ReceiveFails
    \/ Succeed \/ Fail \/ Disconnect

Environment == DeadlineExpires \/ PlcServes \/ StrayServedOrLost

Next == (\E o \in Ops : Caller(o)) \/ Client \/ Environment

Spec == Init /\ [][Next]_vars

(* The client's own steps are taken: Lean runs its tasks, a connection     *)
(* attempt and a receive end at their deadlines.  A call that took a       *)
(* reference goes on to the gate.  Nothing is asked of the PLC, the network *)
(* or the transfer deadline.                                               *)
FairSpec == Spec /\ WF_vars(Client) /\ \A o \in Ops : WF_vars(EnterGate(o))

-----------------------------------------------------------------------------
(* Properties                                                              *)

Pcs == {"idle", "chunk", "attempt", "adopt", "send", "receive",
        "succeeded", "failed", "disconnecting"}

(* Requests: of a call, a chunk, and the number of sends of the call so far. *)
Ids == Ops \X (1 .. MaxChunks + 1) \X (1 .. MaxChunks + 1 + ReconnectRetries)

TypeOK ==
    /\ connection \in PduLengths \union {NoConnection}
    /\ lifecycle \in LifecycleStates
    /\ pduLength \in PduLengths
    /\ nextReference \in References
    /\ phase \in [Ops -> {"new", "prepared", "queued", "done"}]
    /\ pc \in Pcs
    /\ error \in ErrorKinds \union {"none"}
    /\ run.reference \in References
    /\ run.retries \in 0 .. ReconnectRetries
    /\ run.allowance \in 0 .. MaxStaleResponses
    /\ {m.id : m \in Messages(toPlc) \union stray} \subseteq Ids
    /\ applied \subseteq Ids

(* The lifecycle state says whether there is a connection, although the two *)
(* are separate references updated at different places, and the PDU length *)
(* requests are planned for never exceeds what the session negotiated.     *)
SessionAgrees ==
    /\ TypeOK
    /\ connection # NoConnection <=> lifecycle = "connected"
    /\ connection # NoConnection => pduLength <= connection

(* Between operations an open connection carries no request that is still  *)
(* to be answered: whatever ended the last operation, its reply cannot      *)
(* arrive in the middle of the next one.  (A caller that reuses the        *)
(* reference of an earlier raw request can be handed a repeated reply.)    *)
NoUnansweredRequest ==
    pc = "idle" /\ connection # NoConnection /\ crossed = {} => toPlc = <<>>

(* No reply is taken for the answer to another request: not a reply that   *)
(* was sent twice, not one to an earlier attempt, not across a reconnection *)
(* and not when the reference counter wraps.  Raw exchanges are excepted:  *)
(* their references are the caller's.  So is a counter that goes all the   *)
(* way round while a reply waits: fewer references than there are in all.  *)
NoCrossedReplies == \A o \in crossed : kind[o] = "raw"

(* The mutations that took effect or still may.                            *)
Effects == applied \union {m.id : m \in {r \in Messages(toPlc) \union stray : Mutates(r)}}

EffectsOf(o, chunk) == {id \in Effects : id[1] = o /\ id[2] = chunk}

(* Without the caller's explicit consent no mutating request can take      *)
(* effect twice, whatever is lost and whatever is retried; with it, only   *)
(* the first request of an operation is repeated, at most as often as      *)
(* configured.                                                             *)
BoundedEffects ==
    \A o \in Ops, chunk \in 1 .. MaxChunks :
        Cardinality(EffectsOf(o, chunk)) <=
            IF AllowMutatingRetries /\ chunk = 1 THEN 1 + ReconnectRetries ELSE 1

(* Without that consent mutations also reach the PLC in the order in which *)
(* the client sent them: while one is still in flight on a connection that *)
(* was given up, no later one is sent that it could overtake.  (A raw      *)
(* caller that took a repeated reply for its own leaves a request behind.) *)
NoOvertaking ==
    ~AllowMutatingRetries /\ crossed = {} /\ stray # {} =>
        \A m \in Messages(toPlc) : ~Mutates(m)

(* The progress a write returns is true of the PLC: an acknowledged attempt *)
(* took effect, a rejected one did not and never will, and no attempt that *)
(* may have an effect is missing, even one that is served after the write  *)
(* returned.  A completed write has every chunk acknowledged.              *)
ProgressIsSound ==
    \A o \in Ops : phase[o] = "done" /\ kind[o] = "write" =>
        LET progress == report[o].progress
            attempts == progress.attempts
            IdOf(i)  == <<o, attempts[i].location, i>>
        IN  /\ \A i \in DOMAIN attempts :
                /\ attempts[i].outcome = "success" => IdOf(i) \in applied
                /\ attempts[i].outcome = "globalRejected" => IdOf(i) \notin Effects
            /\ \A id \in Effects : id[1] = o =>
                id[3] \in DOMAIN attempts /\ IdOf(id[3]) = id
            /\ report[o].result = "ok" => progress.uncertain = <<>> /\ progress.rejected = <<>>

(* A write whose outcome is uncertain was not reported as a rejection, and  *)
(* at most the last attempt is uncertain.                                  *)
UncertaintyIsReported ==
    \A o \in Ops : phase[o] = "done" /\ kind[o] = "write" =>
        LET progress == report[o].progress
        IN  /\ Len(progress.uncertain) <= 1
            /\ progress.uncertain # <<>> => report[o].result \notin {"ok", "plcRejected", "invalidInput"}

(* A request fits into the PDU the open session negotiated, although raw   *)
(* requests were checked before they entered the gate and chunks were      *)
(* planned before a reconnection.                                          *)
RequestsFit ==
    \A m \in Messages(toPlc) : m.size <= connection

(* Every call that is admitted returns, whatever the PLC and the network   *)
(* do or fail to do.                                                       *)
EveryCallReturns == \A o \in Ops : phase[o] = "queued" ~> phase[o] = "done"
=============================================================================
