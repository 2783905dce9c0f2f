-------------------------- MODULE ConnectionSetup --------------------------
(***************************************************************************)
(* How a session is set up: the host name is resolved, its addresses are   *)
(* tried one after the other (TCP connection, COTP connection request and  *)
(* confirmation), S7 communication is negotiated on the first that works,  *)
(* and everything happens under one deadline.  ClientSession's Reconnect   *)
(* and ReconnectFails, and its Init, are the two outcomes.                 *)
(*                                                                         *)
(* The operating system completes a TCP connection, or has it refused, at  *)
(* any time after it was asked for, also when nobody waits any longer.     *)
(***************************************************************************)
EXTENDS SessionPolicies, Deadlines, SequencesExt

CONSTANTS
    Addresses,
    Resolutions,         \* what name resolution may return
    ParameterLists,      \* TPDU size parameters of a connection confirmation
    RequestedExponent,   \* ClientConfig.tpduSizeExponent
    OfferedLengths,      \* the PDU lengths a PLC may answer with
    ConnectTimeout,      \* ClientConfig.connectTimeoutMs, or NoDeadline
    OperationTimeout,    \* ClientConfig.operationTimeoutMs, or NoDeadline
    MaxTime              \* bound on the clock

ASSUME SetupAssumption ==
    /\ Resolutions \subseteq Seq(Addresses)
    /\ ParameterLists \subseteq Seq(Nat)
    /\ OfferedLengths \subseteq Nat
    /\ {RequestedExponent, MaxTime} \subseteq Nat
    /\ {ConnectTimeout, OperationTimeout} \subseteq Deadline

VARIABLES
    pc, error, now, deadline,
    candidates,     \* addresses still to be tried; the head is being tried
    established,    \* connectAddress's note that its TCP connection is up
    confirmation,   \* TPDU size parameters the peer confirmed with
    exponent,       \* negotiated TPDU size, as a power of two
    pduLength,      \* negotiated PDU length, or 0
    \* the operating system and the peers
    tcp,            \* what became of the TCP connection to an address
    tries,          \* how often an address was tried
    requested,      \* addresses that were sent a connection request
    answered        \* addresses that sent a confirmation, a right or a wrong one

localVars == <<established, confirmation, exponent, pduLength>>
worldVars == <<tcp, tries, requested, answered>>
vars == <<pc, error, now, deadline, candidates, localVars, worldVars>>

Current == Head(candidates)

Init ==
    /\ pc = "begin" /\ error = "none" /\ now = 0
    /\ deadline = DeadlineAfter(now, ConnectTimeout)
    /\ candidates = <<>>
    /\ established = FALSE /\ confirmation = <<>> /\ exponent = 0 /\ pduLength = 0
    /\ tcp = [a \in Addresses |-> "none"]
    /\ tries = [a \in Addresses |-> 0]
    /\ requested = {} /\ answered = {}

-----------------------------------------------------------------------------
(* Negotiation                                                             *)

ValidExponent(e) == e \in 7 .. 13

LastParameter(parameters) == Last(parameters)

(* A confirmation without the parameter keeps the requested size.  0 stands *)
(* for a parameter value that is not one byte long.                        *)
AcceptableSize(parameters) ==
    /\ ValidExponent(RequestedExponent)
    /\ parameters # <<>> => /\ ValidExponent(LastParameter(parameters))
                            /\ LastParameter(parameters) <= RequestedExponent

NegotiatedExponent(parameters) ==
    IF parameters = <<>> THEN RequestedExponent ELSE LastParameter(parameters)

MinimumPduLength == 240
DataHeaderSize   == 3

PayloadOnly(length) == length >= MinimumPduLength /\ length <= 2 ^ exponent     \* faulty
AcceptableLength(length) ==
    /\ length >= MinimumPduLength
    /\ ValidExponent(exponent)
    /\ DataHeaderSize + length <= 2 ^ exponent

-----------------------------------------------------------------------------
(* Failure                                                                 *)

FailConnect(kind) ==
    /\ pc' = "failed" /\ error' = kind
    /\ UNCHANGED <<now, deadline, candidates, localVars, worldVars>>

ForgetsEstablished == tcp                                        \* faulty
ShutIfEstablished ==
    IF established THEN [tcp EXCEPT ![Current] = "shut"] ELSE tcp

FreshDeadline == DeadlineAfter(now, ConnectTimeout)              \* faulty
DeadlineOfNextCandidate == deadline

AlwaysFallsBack(kind) == Len(candidates) > 1                     \* faulty
FallsBack(kind) == Len(candidates) > 1 /\ IsRetryable(kind)

(* The catch of connectAddress, then that of connectAddresses.             *)
AttemptFails(kind) ==
    /\ tcp' = ShutIfEstablished
    /\ error' = kind
    /\ \/ /\ FallsBack(kind)
          /\ candidates' = Tail(candidates)
          /\ pc' = "candidate" /\ established' = FALSE
          /\ deadline' = DeadlineOfNextCandidate
       \/ /\ ~FallsBack(kind)
          /\ pc' = "failed"
          /\ UNCHANGED <<candidates, established, deadline>>
    /\ UNCHANGED <<now, confirmation, exponent, pduLength, tries, requested>>

ShutCurrent == [tcp EXCEPT ![Current] = "shut"]

(* The catch of connectSession: no other address is tried.                 *)
SetupFails(kind) ==
    /\ tcp' = ShutCurrent
    /\ pc' = "failed" /\ error' = kind
    /\ UNCHANGED <<now, deadline, candidates, localVars, tries, requested, answered>>

LossKinds == {"disconnected", "transport"}

-----------------------------------------------------------------------------
(* The stages                                                              *)

(* Rack and slot are validated before anything is sent.                    *)
Begin ==
    /\ pc = "begin"
    /\ \/ FailConnect("invalidInput")
       \/ pc' = "resolve" /\ UNCHANGED <<error, now, deadline, candidates, localVars, worldVars>>

(* Each address once, in the order in which it was first resolved: one list. *)
UniqueAddresses(addresses) ==
    LET Precedes(a, b) ==
          \E k \in DOMAIN addresses : addresses[k] = a /\ \A l \in 1 .. k : addresses[l] # b
    IN  {selected \in UNION {[1 .. n -> Addresses] : n \in 1 .. Len(addresses)} :
            /\ Range(selected) = Range(addresses)
            /\ \A i, j \in DOMAIN selected : i < j => Precedes(selected[i], selected[j])}

(* A literal address resolves to itself.                                   *)
Resolve ==
    /\ pc = "resolve" /\ ~Expired(deadline, now)
    /\ \E addresses \in Resolutions :
        \/ addresses = <<>> /\ FailConnect("transport")
        \/ /\ addresses # <<>>
           /\ candidates' \in UniqueAddresses(addresses)
           /\ pc' = "candidate"
           /\ UNCHANGED <<error, now, deadline, localVars, worldVars>>

OpenSocket ==
    /\ pc = "candidate" /\ ~Expired(deadline, now)
    /\ tcp' = [tcp EXCEPT ![Current] = "connecting"]
    /\ tries' = [tries EXCEPT ![Current] = @ + 1]
    /\ pc' = "connect"
    /\ UNCHANGED <<error, now, deadline, candidates, localVars, requested, answered>>

(* The wait for the TCP connection returns.  That its completion was seen  *)
(* in time is checked after it completed.                                  *)
TcpReturns ==
    /\ pc = "connect"
    /\ \/ /\ tcp[Current] = "up" /\ ~Expired(deadline, now)
          /\ established' = TRUE
          /\ pc' = "request"
          /\ UNCHANGED <<error, now, deadline, candidates, confirmation, exponent, pduLength,
                         worldVars>>
       \/ /\ tcp[Current] = "refused"
          /\ AttemptFails("transport")
          /\ UNCHANGED answered

SendRequest ==
    /\ pc = "request" /\ ~Expired(deadline, now)
    /\ requested' = requested \union {Current}
    /\ pc' = "confirm"
    /\ UNCHANGED <<error, now, deadline, candidates, localVars, tcp, tries, answered>>

(* The confirmation may be malformed, belong to another request, select    *)
(* another class or an unacceptable TPDU size.                             *)
ReceiveConfirm ==
    /\ pc = "confirm" /\ ~Expired(deadline, now)
    /\ answered' = answered \union {Current}
    /\ \/ AttemptFails("protocol")
       \/ \E parameters \in ParameterLists :
            \/ ~AcceptableSize(parameters) /\ AttemptFails("protocol")
            \/ /\ AcceptableSize(parameters)
               /\ confirmation' = parameters
               /\ exponent' = NegotiatedExponent(parameters)
               /\ pc' = "setup"
               /\ UNCHANGED <<error, now, deadline, candidates, established, pduLength,
                              tcp, tries, requested>>

(* The setup request and its reply also have the budget of an operation.   *)
SendSetup ==
    /\ pc = "setup" /\ ~Expired(deadline, now)
    /\ deadline' = EarlierDeadline(deadline, DeadlineAfter(now, OperationTimeout))
    /\ pc' = "reply"
    /\ UNCHANGED <<error, now, candidates, localVars, worldVars>>

ReceiveSetup ==
    /\ pc = "reply" /\ ~Expired(deadline, now)
    /\ \/ \E kind \in {"protocol", "plcRejected"} : SetupFails(kind)
       \/ \E length \in OfferedLengths :
            \/ ~AcceptableLength(length) /\ SetupFails("protocol")
            \/ /\ AcceptableLength(length)
               /\ pduLength' = length
               /\ pc' = "connected"
               /\ UNCHANGED <<error, now, deadline, candidates, established, confirmation,
                              exponent, worldVars>>

(* A stage fails in itself, or by its deadline.                            *)
StageFails ==
    \E kind \in LossKinds :
        \/ pc = "resolve" /\ FailConnect("transport")
        \/ pc \in {"request", "confirm"} /\ AttemptFails(kind) /\ UNCHANGED answered
        \/ pc \in {"setup", "reply"} /\ SetupFails(kind)

(* Faulty: the wait for a TCP connection is left to the operating system.  *)
UnboundedTcpWait ==
    Expired(deadline, now) /\ pc = "candidate" /\ AttemptFails("timeout") /\ UNCHANGED answered

TimesOut ==
    /\ Expired(deadline, now)
    /\ \/ pc = "resolve" /\ FailConnect("timeout")
       \/ /\ pc \in {"candidate", "connect", "request", "confirm"}
          /\ AttemptFails("timeout") /\ UNCHANGED answered
       \/ pc \in {"setup", "reply"} /\ SetupFails("timeout")

(* The operating system finishes a TCP handshake.                          *)
TcpCompletes(a) ==
    /\ tcp[a] = "connecting"
    /\ \E outcome \in {"up", "refused"} : tcp' = [tcp EXCEPT ![a] = outcome]
    /\ UNCHANGED <<pc, error, now, deadline, candidates, localVars, tries, requested, answered>>

Tick ==
    /\ pc \notin {"connected", "failed"} /\ now < MaxTime
    /\ now' = now + 1
    /\ UNCHANGED <<pc, error, deadline, candidates, localVars, worldVars>>

Client ==
    \/ Begin \/ Resolve \/ OpenSocket \/ TcpReturns \/ SendRequest \/ ReceiveConfirm
    \/ SendSetup \/ ReceiveSetup \/ StageFails \/ TimesOut

Next == Client \/ Tick \/ \E a \in Addresses : TcpCompletes(a)

Spec == Init /\ [][Next]_vars

(* Time passes, timers fire and the client takes its own steps.  Nothing   *)
(* is asked of the resolver, the operating system or a peer.               *)
FairSpec ==
    /\ Spec
    /\ WF_vars(Tick) /\ WF_vars(TimesOut)
    /\ WF_vars(Begin) /\ WF_vars(OpenSocket) /\ WF_vars(SendRequest) /\ WF_vars(SendSetup)

-----------------------------------------------------------------------------
(* Properties                                                              *)

TypeOK ==
    /\ pc \in {"begin", "resolve", "candidate", "connect", "request", "confirm",
               "setup", "reply", "connected", "failed"}
    /\ error \in ErrorKinds \union {"none"}
    /\ now \in 0 .. MaxTime /\ deadline \in Deadline
    /\ candidates \in Seq(Addresses)
    /\ established \in BOOLEAN /\ confirmation \in Seq(Nat)
    /\ exponent \in 0 .. 13 /\ pduLength \in OfferedLengths \union {0}
    /\ tcp \in [Addresses -> {"none", "connecting", "up", "refused", "shut"}]
    /\ tries \in [Addresses -> Nat]
    /\ requested \subseteq Addresses /\ answered \subseteq Addresses

(* A PLC has few connections to give.  Whatever stage fails, no connection *)
(* on which the client spoke is left open: only the one being set up, or   *)
(* the one that is returned.                                               *)
NothingLeftOpen ==
    /\ TypeOK
    /\ \A a \in requested : tcp[a] = "up" => pc # "failed" /\ a = Current

(* The session that is returned can carry its PDUs: the longest one fits   *)
(* into one TPDU of the size on which the peer had the last word.          *)
NegotiationHolds ==
    pc = "connected" =>
        /\ DataHeaderSize + pduLength <= 2 ^ exponent
        /\ pduLength >= 240
        /\ exponent <= RequestedExponent
        /\ confirmation # <<>> => exponent = confirmation[Len(confirmation)]

(* A peer that answered at all, rightly or wrongly, is the last one tried: *)
(* other addresses are for peers that cannot be reached.                   *)
AnsweringPeerIsLast == \A a \in answered : a = Current

(* Trying an address, sending a request, returning a session.              *)
Works ==
    \/ tries' # tries
    \/ requested' # requested
    \/ pc' \in {"reply", "connected"} /\ pc' # pc

(* Resolution, all candidates, confirmation and setup share one budget:    *)
(* once it is spent no address is tried, nothing is sent and no session    *)
(* is returned.                                                            *)
OneBudget == [][Works => ~Expired(ConnectTimeout, now)]_vars

(* The attempt ends, whatever resolver, network and peers do.              *)
ConnectEnds == <>(pc \in {"connected", "failed"})

(* "A failed TCP connect has no established write side to shut down": an    *)
(* attempt that ends in its connect stage, and so without a shutdown, has  *)
(* no established connection.                                              *)
FailedConnectIsNotUp ==
    [][pc = "connect" /\ pc' \in {"candidate", "failed"} => tcp[Current] # "up"]_vars
=============================================================================
