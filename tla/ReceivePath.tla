---------------------------- MODULE ReceivePath ----------------------------
(***************************************************************************)
(* How the client receives the reply to one request from a TCP stream: the *)
(* bytes of TPKT frames, in pieces of any size; COTP data TPDUs, joined to *)
(* a TSDU up to a limit of bytes and of segments; and the exchange, which  *)
(* skips replies with another PDU reference, all under one deadline.       *)
(*                                                                         *)
(* A payload is a short sequence whose first element stands for the S7     *)
(* header and is the PDU reference it carries; sizes of headers are the    *)
(* real ones.  ClientSession's Receive and ReceiveFails are the two ways   *)
(* in which this module ends or skips.                                     *)
(***************************************************************************)
EXTENDS SessionPolicies, Deadlines, SequencesExt

CONSTANTS
    Streams,             \* what a peer may send: sequences of frames
    Awaited,             \* the PDU reference of the request
    MaxPduLength,        \* negotiated: the most a TSDU may hold
    MaxSegments,         \* the most frames a TSDU may take
    MaxStaleResponses,   \* ClientConfig.maxStaleResponses
    OperationTimeout,    \* ClientConfig.operationTimeoutMs, or NoDeadline
    TransferDeadline,    \* deadline of the whole transfer, or NoDeadline
    MaxTime              \* bound on the clock

FrameFaults == {"none", "header", "tpdu"}

ASSUME ReceiveAssumption ==
    /\ Streams \subseteq Seq([fault : FrameFaults, final : BOOLEAN, payload : Seq(References)])
    /\ {MaxStaleResponses, MaxTime, MaxPduLength} \subseteq Nat
    /\ MaxSegments \in Nat \ {0}
    /\ {OperationTimeout, TransferDeadline} \subseteq Deadline
    /\ Awaited \in References

VARIABLES
    stream,      \* everything the peer sends while this exchange lasts
    taken,       \* bytes of it the client has taken from its socket
    now,
    pc, error,
    wanted,      \* bytes of the part that is being received, header or body
    have,        \* how many of them are here
    frame,       \* the frame whose header was read last
    frames,      \* how many headers were read
    data,        \* payload of the TSDU so far, in the end the reply
    segments,    \* frames of the TSDU so far
    allowance,   \* stale replies that may still be skipped
    deadline

partVars == <<wanted, have, frame, frames>>
tsduVars == <<data, segments, allowance, deadline>>
vars == <<stream, taken, now, pc, error, partVars, tsduVars>>

HeaderSize     == 4     \* TPKT.headerSize
DataHeaderSize == 3     \* COTP class 0 DT header

BodySize(f)  == DataHeaderSize + Len(f.payload)
FrameSize(f) == HeaderSize + BodySize(f)

(* Where the i-th frame of the stream ends.                                *)
End(i) ==
    LET end[j \in 0 .. Len(stream)] == IF j = 0 THEN 0 ELSE end[j - 1] + FrameSize(stream[j])
    IN  end[i]

Waiting == pc \in {"header", "body"}

AnyFrame == UNION {Range(frames_) : frames_ \in Streams}

NoFrame == [fault |-> "none", final |-> FALSE, payload |-> <<>>]

Init ==
    /\ stream \in Streams
    /\ taken = 0 /\ now = 0
    /\ pc = "header" /\ error = "none"
    /\ wanted = HeaderSize /\ have = 0 /\ frame = NoFrame /\ frames = 0
    /\ data = <<>> /\ segments = 0
    /\ allowance = MaxStaleResponses
    /\ deadline = EarlierDeadline(DeadlineAfter(now, OperationTimeout), TransferDeadline)

-----------------------------------------------------------------------------

Fail(kind) ==
    /\ pc' = "failed" /\ error' = kind
    /\ UNCHANGED <<partVars, tsduVars>>

AwaitHeader ==
    /\ pc' = "header" /\ wanted' = HeaderSize /\ have' = 0
    /\ UNCHANGED <<error, frame, frames>>

RefreshedDeadline == DeadlineAfter(now, OperationTimeout)      \* faulty
DeadlineOfNextTsdu == deadline

(* The exchange looks at the reference of a complete TSDU; one too short to *)
(* have a reference is malformed.                                          *)
Verdict(tsdu) ==
    IF tsdu = <<>> THEN "malformed" ELSE CorrelationStep(Awaited, allowance, Head(tsdu))

TsduReceived(tsdu) ==
    \/ /\ Verdict(tsdu) \in {"malformed", "tooManyStale"}
       /\ Fail("protocol")
    \/ /\ Verdict(tsdu) = "skipStale"
       /\ allowance' = allowance - 1
       /\ data' = <<>> /\ segments' = 0
       /\ deadline' = DeadlineOfNextTsdu
       /\ AwaitHeader
    \/ /\ Verdict(tsdu) = "deliver"
       /\ pc' = "delivered" /\ data' = tsdu
       /\ UNCHANGED <<error, partVars, segments, allowance, deadline>>

OneMoreSegment == segments + 1 > MaxSegments                   \* faulty
NoSegmentLeft == segments + 1 >= MaxSegments

Joined == data \o frame.payload

(* A frame is here: it extends the TSDU or completes it.                   *)
BodyReceived ==
    \/ /\ frame.fault = "tpdu" \/ Len(Joined) > MaxPduLength \/ (~frame.final /\ NoSegmentLeft)
       /\ Fail("protocol")
    \/ /\ frame.fault # "tpdu" /\ Len(Joined) <= MaxPduLength /\ ~frame.final /\ ~NoSegmentLeft
       /\ data' = Joined /\ segments' = segments + 1
       /\ AwaitHeader
       /\ UNCHANGED <<allowance, deadline>>
    \/ /\ frame.fault # "tpdu" /\ Len(Joined) <= MaxPduLength /\ frame.final
       /\ TsduReceived(Joined)

ExclusiveBudget == MaxPduLength - Len(data) + DataHeaderSize - 1   \* faulty
BodyLimit == MaxPduLength - Len(data) + DataHeaderSize

(* The four bytes before position offset were read as a header.  Bytes from *)
(* the middle of a frame could read as any.                                *)
HeadersBefore(offset) ==
    LET starts == {i \in DOMAIN stream : End(i - 1) = offset - HeaderSize}
    IN  IF starts = {} THEN AnyFrame ELSE {stream[i] : i \in starts}

(* A body that exceeds what is left of the budget is never received.       *)
HeaderReceived(offset) ==
    \E f \in HeadersBefore(offset) :
        \/ /\ f.fault = "header" \/ BodySize(f) > BodyLimit
           /\ Fail("protocol")
        \/ /\ f.fault # "header" /\ BodySize(f) <= BodyLimit
           /\ frame' = f /\ frames' = frames + 1
           /\ pc' = "body" /\ wanted' = BodySize(f) /\ have' = 0
           /\ UNCHANGED <<error, tsduVars>>

AsksForWholePart == wanted                                     \* faulty
Missing == wanted - have

(* The socket returns some of the bytes that are missing.                  *)
Arrive ==
    /\ Waiting /\ ~Expired(deadline, now)
    /\ \E n \in 1 .. Missing :
        /\ taken + n <= End(Len(stream))
        /\ taken' = taken + n
        /\ \/ /\ have + n < wanted
              /\ have' = have + n
              /\ UNCHANGED <<pc, error, wanted, frame, frames, tsduVars>>
           \/ /\ have + n >= wanted
              /\ \/ pc = "header" /\ HeaderReceived(taken + n)
                 \/ pc = "body" /\ BodyReceived
    /\ UNCHANGED <<stream, now>>

ChecksBetweenFrames ==                                         \* faulty
    /\ pc = "header" /\ have = 0 /\ Expired(deadline, now)
    /\ Fail("timeout")
    /\ UNCHANGED <<stream, taken, now>>

(* The timer wins, or the deadline is found to have passed before the wait  *)
(* or after the bytes came.                                                *)
TimesOut ==
    /\ Waiting /\ Expired(deadline, now)
    /\ Fail("timeout")
    /\ UNCHANGED <<stream, taken, now>>

(* End of stream, or an error of the socket.                               *)
ConnectionLost ==
    /\ Waiting
    /\ \E kind \in {"disconnected", "transport"} : Fail(kind)
    /\ UNCHANGED <<stream, taken, now>>

Tick ==
    /\ Waiting /\ now < MaxTime
    /\ now' = now + 1
    /\ UNCHANGED <<stream, taken, pc, error, partVars, tsduVars>>

Next == Arrive \/ TimesOut \/ ConnectionLost \/ Tick

Spec == Init /\ [][Next]_vars

(* Time passes, and a wait ends when its timer does.  The peer need not    *)
(* send anything.                                                          *)
FairSpec == Spec /\ WF_vars(Tick) /\ WF_vars(TimesOut)

-----------------------------------------------------------------------------
(* Properties                                                              *)

TypeOK ==
    /\ taken \in Nat /\ now \in 0 .. MaxTime
    /\ pc \in {"header", "body", "delivered", "failed"}
    /\ error \in ErrorKinds \union {"none"}
    /\ wanted \in Nat \ {0} /\ have \in 0 .. wanted - 1
    /\ frame \in AnyFrame \union {NoFrame}
    /\ frames \in Nat
    /\ data \in Seq(References)
    /\ segments \in 0 .. MaxSegments - 1
    /\ allowance \in 0 .. MaxStaleResponses
    /\ deadline \in Deadline

(* However the stream was cut into pieces, a header is read where a frame  *)
(* begins: a delivered reply leaves the next reply whole on the stream.    *)
Aligned ==
    /\ TypeOK
    /\ pc = "delivered" \/ (pc = "header" /\ have = 0) => \E i \in 0 .. Len(stream) : taken = End(i)

(* The client never undertakes to hold more than one PDU, counting what    *)
(* the previous segments brought and the body it is about to receive; and  *)
(* however late its deadline, the frames it reads for one exchange are     *)
(* bounded: not even empty segments and stale replies keep it going.       *)
WorkBounded ==
    /\ Len(data) + (IF pc = "body" THEN wanted - DataHeaderSize ELSE 0) <= MaxPduLength
    /\ frames <= (MaxStaleResponses + 1) * MaxSegments

(* The reference definition of what an exchange has to return.  The last   *)
(* frames of the TSDUs are the final ones.                                 *)
Finals == {i \in DOMAIN stream : stream[i].final}

FirstOf(last) == 1 + Max({0} \union {i \in Finals : i < last})

TsduOf(last) ==
    FlattenSeq([i \in 1 .. last - FirstOf(last) + 1 |-> stream[FirstOf(last) + i - 1].payload])

WellFormed(last) ==
    /\ \A i \in FirstOf(last) .. last : stream[i].fault = "none"
    /\ last - FirstOf(last) < MaxSegments
    /\ Len(TsduOf(last)) \in 1 .. MaxPduLength

Answers(last) ==
    /\ WellFormed(last) /\ Head(TsduOf(last)) = Awaited
    /\ \A i \in Finals : i < last => WellFormed(i) /\ Head(TsduOf(i)) # Awaited
    /\ Cardinality({i \in Finals : i < last}) <= MaxStaleResponses

(* The reply returned is the first one with the right reference, complete  *)
(* and unmixed, whatever the pieces in which bytes came and the frames     *)
(* that carried it; and the peer is accused of a protocol error only when  *)
(* the stream holds no acceptable answer: a reply of exactly the negotiated *)
(* length, in exactly the permitted segments, after exactly the permitted  *)
(* stale ones, is one.                                                     *)
DeliversTheAnswer ==
    /\ pc = "delivered" => \E last \in Finals : Answers(last) /\ data = TsduOf(last)
    /\ error = "protocol" => \A last \in Finals : ~Answers(last)

(* One deadline covers all fragments and stale replies: nothing is accepted *)
(* once the time of the exchange or of the transfer, from its start, is up. *)
NothingAfterDeadline ==
    [][taken' # taken => ~Expired(OperationTimeout, now) /\ ~Expired(TransferDeadline, now)]_vars

(* The exchange ends, also when the peer says nothing or falls silent in   *)
(* the middle of a frame.                                                  *)
ExchangeEnds == <>~Waiting
=============================================================================
