------------------------- MODULE ReceivePathProofs -------------------------
(***************************************************************************)
(* Proofs, for any stream of frames cut into any pieces and any limits,    *)
(* that what the client holds and does for one exchange is bounded, that   *)
(* nothing is taken from the socket once the exchange is out of time, that *)
(* the client never loses its place in the stream, and that what it        *)
(* delivers is the first acceptable reply and, when it accuses the peer,   *)
(* there is none.                                                          *)
(***************************************************************************)
EXTENDS ReceivePath, DataInduction, FiniteSetTheorems, TLAPS

(* Frames of one TSDU.                                                     *)
M == MaxSegments

(* Stale replies that were skipped so far.                                 *)
Skipped == MaxStaleResponses - allowance

(* A TSDU never outgrows the PDU, and its frames are counted by segments   *)
(* and skipped replies.                                                    *)
PathInv ==
    /\ TypeOK
    /\ stream \in Streams
    /\ deadline = EarlierDeadline(DeadlineAfter(0, OperationTimeout), TransferDeadline)
    /\ Len(data) <= MaxPduLength
    /\ pc = "body" => wanted = BodySize(frame) /\ BodySize(frame) <= BodyLimit
    /\ pc = "header" => frames <= Skipped * M + segments
    /\ pc = "body"   => frames <= Skipped * M + segments + 1
    /\ frames <= (MaxStaleResponses + 1) * M

(* Frames of the streams, and those that a header may have been read as.   *)
LEMMA FramesTyped ==
  ASSUME stream \in Streams
  PROVE  /\ \A f \in AnyFrame \union {NoFrame} :
               f.payload \in Seq(References) /\ Len(f.payload) \in Nat
         /\ \A offset : HeadersBefore(offset) \subseteq AnyFrame
<1>1. stream \in Seq([fault : FrameFaults, final : BOOLEAN, payload : Seq(References)])
  BY ReceiveAssumption
<1>2. ASSUME NEW s \in Streams, NEW f \in Range(s)
      PROVE  f.payload \in Seq(References)
  <2> DEFINE R == [fault : FrameFaults, final : BOOLEAN, payload : Seq(References)]
  <2>1. s \in Seq(R)
    BY ReceiveAssumption
  <2>2. PICK i \in DOMAIN s : f = s[i]
    BY DEF Range
  <2>3. f \in R
    <3> HIDE DEF R
    <3> QED BY <2>1, <2>2
  <2> QED BY <2>3
<1>3. \A f \in AnyFrame : f.payload \in Seq(References)
  BY <1>2 DEF AnyFrame
<1>4. NoFrame.payload \in Seq(References)
  BY DEF NoFrame
<1>5. \A i \in DOMAIN stream : stream[i] \in AnyFrame
  BY DEF AnyFrame, Range
<1>6. ASSUME NEW offset PROVE HeadersBefore(offset) \subseteq AnyFrame
  BY <1>5 DEF HeadersBefore
<1>7. \A f \in AnyFrame \union {NoFrame} : f.payload \in Seq(References)
  BY <1>3, <1>4
<1> QED BY <1>6, <1>7

(* One more skipped reply pays for the segments of one more TSDU.          *)
LEMMA OneMoreReply ==
  ASSUME NEW spent \in Nat, NEW limit \in Nat, spent <= limit
  PROVE  /\ spent * M \in Nat /\ (spent + 1) * M = spent * M + M
         /\ (spent + 1) * M <= (limit + 1) * M
<1>1. M \in Nat
  BY ReceiveAssumption DEF M
<1>2. spent * M \in Nat /\ (spent + 1) * M = spent * M + M
  BY <1>1
<1>3. PICK d \in Nat : limit + 1 = spent + 1 + d
  <2>1. limit - spent \in Nat /\ limit + 1 = spent + 1 + (limit - spent)
    OBVIOUS
  <2> QED BY <2>1
<1>4. (spent + 1 + d) * M = (spent + 1) * M + d * M /\ d * M \in Nat /\ (spent + 1) * M \in Nat
  BY <1>1
<1> QED BY <1>2, <1>3, <1>4

(* The exchange begins with an empty TSDU and all its allowance.           *)
LEMMA PathInvInit == Init => PathInv
<1> SUFFICES ASSUME Init PROVE PathInv
  OBVIOUS
<1> USE ReceiveAssumption DEF Init
<1>1. deadline = EarlierDeadline(DeadlineAfter(0, OperationTimeout), TransferDeadline)
      /\ deadline \in Deadline
  BY DEF EarlierDeadline, DeadlineAfter, Deadline, NoDeadline
<1>2. TypeOK
  BY <1>1 DEF TypeOK, HeaderSize
<1>3. Skipped = 0 /\ 0 * M = 0 /\ 0 <= (MaxStaleResponses + 1) * M
  <2>1. 0 \in Nat /\ MaxStaleResponses \in Nat /\ M \in Nat
    BY DEF M
  <2>2. Skipped = 0 /\ 0 * M = 0
    BY <2>1 DEF Skipped
  <2>3. (0 + 1) * M <= (MaxStaleResponses + 1) * M /\ (0 + 1) * M = 0 * M + M
    BY <2>1, OneMoreReply
  <2>4. (MaxStaleResponses + 1) * M \in Nat
    BY <2>1
  <2> QED BY <2>1, <2>2, <2>3, <2>4
<1> QED BY <1>1, <1>2, <1>3 DEF PathInv

(* Giving up leaves what is held and counted as it is.                     *)
LEMMA FailKeepsPathInv ==
  ASSUME PathInv, NEW cause \in {"protocol", "timeout", "disconnected", "transport"}, Fail(cause),
         taken' \in Nat, UNCHANGED <<stream, now>>
  PROVE  PathInv'
<1>1. pc' = "failed" /\ error' = cause /\ UNCHANGED <<partVars, tsduVars>>
  BY DEF Fail
<1>2. TypeOK'
  BY <1>1 DEF PathInv, TypeOK, ErrorKinds, partVars, tsduVars, AnyFrame
<1>3. Skipped' = Skipped
  BY <1>1 DEF Skipped, tsduVars
<1> QED BY <1>1, <1>2, <1>3 DEF PathInv, partVars, tsduVars

(* A body fits what is left of the PDU, or is not received at all.         *)
LEMMA HeaderKeepsPathInv ==
  ASSUME PathInv, pc = "header", NEW offset, HeaderReceived(offset),
         taken' \in Nat, UNCHANGED <<stream, now>>
  PROVE  PathInv'
<1>1. CASE Fail("protocol")
  BY <1>1, FailKeepsPathInv
<1>2. CASE \E f \in HeadersBefore(offset) :
              /\ BodySize(f) <= BodyLimit
              /\ frame' = f /\ frames' = frames + 1
              /\ pc' = "body" /\ wanted' = BodySize(f) /\ have' = 0
              /\ UNCHANGED <<error, tsduVars>>
  <2>1. PICK f \in AnyFrame :
              /\ BodySize(f) <= BodyLimit
              /\ frame' = f /\ frames' = frames + 1
              /\ pc' = "body" /\ wanted' = BodySize(f) /\ have' = 0
              /\ UNCHANGED <<error, tsduVars>>
    BY <1>2, FramesTyped DEF PathInv
  <2>2. Len(f.payload) \in Nat
    BY FramesTyped DEF PathInv
  <2>3. BodySize(f) \in Nat \ {0}
    BY <2>2 DEF BodySize, DataHeaderSize
  <2>4. TypeOK'
    BY <2>1, <2>3 DEF PathInv, TypeOK, tsduVars, AnyFrame
  <2>5. Skipped' = Skipped /\ BodyLimit' = BodyLimit /\ BodySize(frame)' = BodySize(f)
    BY <2>1 DEF Skipped, BodyLimit, BodySize, tsduVars
  <2>6. /\ frames + 1 <= Skipped * M + segments + 1
        /\ frames + 1 <= (MaxStaleResponses + 1) * M
    <3>1. /\ frames \in Nat /\ segments \in Nat /\ segments + 1 <= M /\ M \in Nat
          /\ Skipped \in Nat /\ MaxStaleResponses \in Nat /\ Skipped <= MaxStaleResponses
          /\ frames <= Skipped * M + segments
      BY ReceiveAssumption DEF PathInv, TypeOK, Skipped, M
    <3>2. /\ Skipped * M \in Nat /\ (Skipped + 1) * M = Skipped * M + M
          /\ (Skipped + 1) * M <= (MaxStaleResponses + 1) * M
      BY <3>1, OneMoreReply
    <3>3. (MaxStaleResponses + 1) * M \in Nat
      BY <3>1
    <3> QED BY <3>1, <3>2, <3>3
  <2> QED BY <2>1, <2>4, <2>5, <2>6 DEF PathInv, tsduVars
<1> QED BY <1>1, <1>2 DEF HeaderReceived

(* A frame extends the TSDU or completes it within the limits.             *)
LEMMA BodyKeepsPathInv ==
  ASSUME PathInv, pc = "body", BodyReceived, taken' \in Nat, UNCHANGED <<stream, now>>
  PROVE  PathInv'
<1> USE ReceiveAssumption
<1>1. CASE Fail("protocol")
  BY <1>1, FailKeepsPathInv
<1>2. /\ Joined \in Seq(References) /\ Len(Joined) \in Nat
  <2>1. data \in Seq(References) /\ frame.payload \in Seq(References)
    BY FramesTyped DEF PathInv, TypeOK
  <2> QED BY <2>1 DEF Joined
<1>3. /\ frames \in Nat /\ segments \in Nat /\ segments + 1 <= M /\ M \in Nat
      /\ Skipped \in Nat /\ MaxStaleResponses \in Nat /\ Skipped <= MaxStaleResponses
      /\ frames <= Skipped * M + segments + 1 /\ Skipped * M \in Nat
      /\ frames <= (MaxStaleResponses + 1) * M
      /\ (Skipped + 1) * M = Skipped * M + M
  <2>1. /\ frames \in Nat /\ segments \in Nat /\ segments + 1 <= M /\ M \in Nat
        /\ Skipped \in Nat /\ MaxStaleResponses \in Nat /\ Skipped <= MaxStaleResponses
        /\ frames <= Skipped * M + segments + 1
        /\ frames <= (MaxStaleResponses + 1) * M
    BY SMTT(30) DEF PathInv, TypeOK, Skipped, M
  <2> QED BY <2>1, OneMoreReply
<1>4. CASE /\ Len(Joined) <= MaxPduLength /\ ~NoSegmentLeft
           /\ data' = Joined /\ segments' = segments + 1
           /\ AwaitHeader /\ UNCHANGED <<allowance, deadline>>
  <2>1. segments + 1 \in 0 .. M - 1
    BY <1>3, <1>4 DEF NoSegmentLeft, M
  <2>2. TypeOK' /\ pc' = "header" /\ frames' = frames
    BY <1>2, <1>4, <2>1 DEF PathInv, TypeOK, AwaitHeader, HeaderSize, M, AnyFrame
  <2>3. Skipped' = Skipped
    BY <1>4 DEF Skipped
  <2>4. frames <= Skipped * M + (segments + 1)
    BY <1>3
  <2> QED BY <1>2, <1>3, <1>4, <2>2, <2>3, <2>4 DEF PathInv
<1>5. CASE /\ Len(Joined) <= MaxPduLength /\ allowance # 0 /\ allowance' = allowance - 1
           /\ data' = <<>> /\ segments' = 0
           /\ deadline' = DeadlineOfNextTsdu /\ AwaitHeader
  <2>1. allowance - 1 \in 0 .. MaxStaleResponses /\ <<>> \in Seq(References) /\ Len(<<>>) = 0
    BY <1>5 DEF PathInv, TypeOK
  <2>2. TypeOK' /\ pc' = "header" /\ frames' = frames
    BY <1>5, <2>1 DEF PathInv, TypeOK, AwaitHeader, HeaderSize, DeadlineOfNextTsdu, AnyFrame
  <2>3. Skipped' = Skipped + 1
    BY <1>5 DEF Skipped, PathInv, TypeOK
  <2>4. frames <= (Skipped + 1) * M + 0
    BY <1>3
  <2>5. MaxPduLength \in Nat
    OBVIOUS
  <2> QED BY <1>3, <1>5, <2>1, <2>2, <2>3, <2>4, <2>5 DEF PathInv, DeadlineOfNextTsdu
<1>6. CASE /\ Len(Joined) <= MaxPduLength /\ pc' = "delivered" /\ data' = Joined
           /\ UNCHANGED <<error, partVars, segments, allowance, deadline>>
  <2>1. TypeOK' /\ frames' = frames
    BY <1>2, <1>6 DEF PathInv, TypeOK, partVars, AnyFrame
  <2> QED BY <1>3, <1>6, <2>1 DEF PathInv
<1>7. Verdict(Joined) = "skipStale" => allowance # 0
  BY DEF Verdict, CorrelationStep
<1> QED BY <1>1, <1>4, <1>5, <1>6, <1>7 DEF BodyReceived, TsduReceived

(* Every step keeps the bounds.                                            *)
LEMMA NextKeepsPathInv == PathInv /\ [Next]_vars => PathInv'
<1> SUFFICES ASSUME PathInv, [Next]_vars PROVE PathInv'
  OBVIOUS
<1>1. CASE Arrive
  <2>1. PICK n \in 1 .. Missing :
          /\ taken' = taken + n
          /\ \/ /\ have + n < wanted
                /\ have' = have + n
                /\ UNCHANGED <<pc, error, wanted, frame, frames, tsduVars>>
             \/ /\ have + n >= wanted
                /\ \/ pc = "header" /\ HeaderReceived(taken + n)
                   \/ pc = "body" /\ BodyReceived
    BY <1>1 DEF Arrive
  <2>2. UNCHANGED <<stream, now>>
    BY <1>1 DEF Arrive
  <2>3. n \in Nat /\ taken' \in Nat
    BY <2>1 DEF PathInv, TypeOK, Missing
  <2>4. CASE /\ have + n < wanted /\ have' = have + n
             /\ UNCHANGED <<pc, error, wanted, frame, frames, tsduVars>>
    <3>1. TypeOK'
      BY <2>2, <2>3, <2>4 DEF PathInv, TypeOK, tsduVars, AnyFrame
    <3>2. Skipped' = Skipped /\ BodyLimit' = BodyLimit
      BY <2>4 DEF Skipped, BodyLimit, tsduVars
    <3> QED BY <2>2, <2>4, <3>1, <3>2 DEF PathInv, tsduVars
  <2> QED BY <2>1, <2>2, <2>3, <2>4, HeaderKeepsPathInv, BodyKeepsPathInv
<1>2. CASE TimesOut \/ ConnectionLost
  <2>1. UNCHANGED <<stream, taken, now>> /\ taken' \in Nat
        /\ \E cause \in {"protocol", "timeout", "disconnected", "transport"} : Fail(cause)
    BY <1>2 DEF TimesOut, ConnectionLost, PathInv, TypeOK
  <2> QED BY <2>1, FailKeepsPathInv
<1>3. CASE Tick \/ UNCHANGED vars
  <2>1. UNCHANGED <<stream, taken, pc, error, partVars, tsduVars>> /\ now' \in 0 .. MaxTime
    BY <1>3, ReceiveAssumption DEF Tick, vars, PathInv, TypeOK
  <2>2. TypeOK'
    BY <2>1 DEF PathInv, TypeOK, partVars, tsduVars, AnyFrame
  <2>3. Skipped' = Skipped /\ BodyLimit' = BodyLimit
    BY <2>1 DEF Skipped, BodyLimit, tsduVars
  <2> QED BY <2>1, <2>2, <2>3 DEF PathInv, partVars, tsduVars
<1> QED BY <1>1, <1>2, <1>3 DEF Next

(* The bounds hold for every stream and at every moment.                   *)
THEOREM PathInvariant == Spec => []PathInv
<1> QED BY PathInvInit, NextKeepsPathInv, PTL DEF Spec

(* The client never undertakes to hold more than one PDU, and the frames   *)
(* it reads for one exchange are bounded by its two limits.                *)
THEOREM WorkIsBounded == Spec => []WorkBounded
<1>1. PathInv => WorkBounded
  <2> SUFFICES ASSUME PathInv PROVE WorkBounded
    OBVIOUS
  <2>1. Len(data) \in Nat /\ MaxPduLength \in Nat /\ Len(data) <= MaxPduLength
    BY ReceiveAssumption DEF PathInv, TypeOK
  <2>2. pc = "body" => wanted \in Nat /\ wanted <= MaxPduLength - Len(data) + DataHeaderSize
    BY DEF PathInv, TypeOK, BodyLimit
  <2>3. Len(data) + (IF pc = "body" THEN wanted - DataHeaderSize ELSE 0) <= MaxPduLength
    BY <2>1, <2>2 DEF DataHeaderSize
  <2> QED BY <2>3 DEF PathInv, WorkBounded, M
<1> QED BY <1>1, PathInvariant, PTL

(* Nothing is taken from the socket after the operation's time, or the     *)
(* transfer's, both counted from the start of the exchange.                *)
THEOREM NothingIsTakenLate == Spec => NothingAfterDeadline
<1>1. PathInv /\ [Next]_vars =>
        [taken' # taken => ~Expired(OperationTimeout, now) /\ ~Expired(TransferDeadline, now)]_vars
  <2> SUFFICES ASSUME PathInv, Next, taken' # taken
               PROVE  ~Expired(OperationTimeout, now) /\ ~Expired(TransferDeadline, now)
    OBVIOUS
  <2>1. ~Expired(deadline, now)
    BY DEF Next, Arrive, TimesOut, ConnectionLost, Tick
  <2>2. now \in Nat /\ OperationTimeout \in Deadline /\ TransferDeadline \in Deadline
    BY ReceiveAssumption DEF PathInv, TypeOK
  <2> QED BY <2>1, <2>2 DEF PathInv, Expired, EarlierDeadline, DeadlineAfter, Deadline, NoDeadline
<1> QED BY <1>1, PathInvariant, PTL DEF Spec, NothingAfterDeadline

-----------------------------------------------------------------------------
(* Where frames end, and what they carry together                          *)

FrameRecords == [fault : FrameFaults, final : BOOLEAN, payload : Seq(References)]

LEMMA StreamTyped ==
  ASSUME stream \in Streams
  PROVE  /\ Len(stream) \in Nat /\ DOMAIN stream = 1 .. Len(stream)
         /\ \A i \in 1 .. Len(stream) :
              /\ stream[i].fault \in FrameFaults /\ stream[i].final \in BOOLEAN
              /\ stream[i].payload \in Seq(References) /\ Len(stream[i].payload) \in Nat
              /\ BodySize(stream[i]) = Len(stream[i].payload) + 3
              /\ FrameSize(stream[i]) \in Nat \ {0} /\ FrameSize(stream[i]) = BodySize(stream[i]) + 4
<1>1. stream \in Seq(FrameRecords)
  BY ReceiveAssumption DEF FrameRecords
<1>2. ASSUME NEW i \in 1 .. Len(stream) PROVE stream[i] \in FrameRecords
  <2> HIDE DEF FrameRecords
  <2> QED BY <1>1
<1>3. \A i \in 1 .. Len(stream) :
         stream[i].fault \in FrameFaults /\ stream[i].final \in BOOLEAN
         /\ stream[i].payload \in Seq(References)
  BY <1>2 DEF FrameRecords
<1>4. \A i \in 1 .. Len(stream) : Len(stream[i].payload) \in Nat
  BY <1>3
<1>5. Len(stream) \in Nat /\ DOMAIN stream = 1 .. Len(stream)
  <2> HIDE DEF FrameRecords
  <2> QED BY <1>1
<1> QED BY <1>3, <1>4, <1>5 DEF BodySize, FrameSize, HeaderSize, DataHeaderSize

(* A frame begins where the one before it ends.                            *)
LEMMA EndIsNext ==
  ASSUME stream \in Streams
  PROVE  /\ End(0) = 0
         /\ \A i \in 0 .. Len(stream) : End(i) \in Nat
         /\ \A i \in 1 .. Len(stream) : End(i) = End(i - 1) + FrameSize(stream[i])
<1> DEFINE n == Len(stream)
           size(i) == FrameSize(stream[i])
           Defines(e) == e = [j \in 0 .. n |-> IF j = 0 THEN 0 ELSE e[j - 1] + size(j)]
           ends == CHOOSE e : Defines(e)
           step == [p \in Nat \X (1 .. n) |-> p[1] + size(p[2])]
<1>1. n \in Nat /\ \A i \in 1 .. n : size(i) \in Nat
  BY StreamTyped
<1>2. \A i : End(i) = ends[i]
  BY DEF End
<1> HIDE DEF size, n
<1>3. /\ step \in [Nat \X (1 .. n) -> Nat]
      /\ \A x \in Nat, i \in 1 .. n : step[<<x, i>>] = x + size(i)
  BY <1>1
<1> HIDE DEF step
<1>4. PICK f \in [0 .. n -> Nat] : StepByStep(f, n, 0, step)
  BY <1>1, <1>3, Recursion
<1>5. \A i \in 1 .. n : f[i] = f[i - 1] + size(i)
  <2>1. ASSUME NEW i \in 1 .. n PROVE f[i] = f[i - 1] + size(i)
    <3>1. f[i] = step[<<f[i - 1], i>>] /\ f[i - 1] \in Nat
      BY <1>1, <1>4 DEF StepByStep
    <3> QED BY <1>3, <3>1
  <2> QED BY <2>1
<1>6. f[0] = 0
  BY <1>4 DEF StepByStep
<1>7. Defines(f)
  BY <1>1, <1>4, <1>5, <1>6
<1>8. Defines(ends)
  BY <1>7
<1> HIDE DEF ends
<1>9. ends[0] = 0 /\ \A i \in 1 .. n : ends[i] = ends[i - 1] + size(i)
  <2>1. ends = [j \in 0 .. n |-> IF j = 0 THEN 0 ELSE ends[j - 1] + size(j)]
    BY <1>8
  <2> QED BY <1>1, <2>1
<1>10. \A i \in 1 .. n : ends[i - 1] = f[i - 1] => ends[i] = f[i]
  BY <1>5, <1>9
<1>11. \A i \in 0 .. n : ends[i] = f[i]
  <2>1. n \in Nat /\ ends[0] = f[0]
    BY <1>1, <1>6, <1>9
  <2> HIDE DEF Defines
  <2> QED BY <2>1, <1>10, SameSteps
<1>12. \A i \in 0 .. n : ends[i] \in Nat
  BY <1>4, <1>11
<1> QED BY <1>2, <1>9, <1>12 DEF n, size

LEMMA EndGrows ==
  ASSUME stream \in Streams, NEW i \in 0 .. Len(stream), NEW j \in 0 .. Len(stream), i < j
  PROVE  End(i) < End(j)
<1> DEFINE T == {k \in i + 1 .. Len(stream) : ~(End(i) < End(k))}
<1>1. Len(stream) \in Nat
  BY StreamTyped
<1>2. SUFFICES ASSUME T # {} PROVE FALSE
  BY <1>1
<1>3. T \subseteq Nat
  BY <1>1
<1>4. PICK m \in T : \A k \in T : m <= k
  <2> HIDE DEF T
  <2> QED BY <1>2, <1>3, LeastNumber
<1>5. m \in i + 1 .. Len(stream) /\ ~(End(i) < End(m)) /\ m - 1 \notin T
  BY <1>1, <1>4
<1>6. m - 1 = i \/ End(i) < End(m - 1)
  BY <1>1, <1>5
<1>7. /\ End(m) = End(m - 1) + FrameSize(stream[m]) /\ FrameSize(stream[m]) \in Nat \ {0}
      /\ End(m) \in Nat /\ End(m - 1) \in Nat /\ End(i) \in Nat
  BY <1>1, <1>5, EndIsNext, StreamTyped
<1> HIDE DEF T
<1> QED BY <1>5, <1>6, <1>7

(* The payloads of the frames from first to last.                          *)
TsduFrom(first, last) ==
    FlattenSeq([i \in 1 .. last - first + 1 |-> stream[first + i - 1].payload])

LEMMA TsduNothing == ASSUME NEW first \in Nat PROVE TsduFrom(first, first - 1) = <<>>
<1>1. (first - 1) - first + 1 = 0
  OBVIOUS
<1>2. [i \in 1 .. 0 |-> stream[first + i - 1].payload] = <<>>
  OBVIOUS
<1> QED BY <1>1, <1>2, FlattenNothing DEF TsduFrom

LEMMA TsduGrows ==
  ASSUME stream \in Streams, NEW first \in 1 .. Len(stream),
         NEW last \in first - 1 .. Len(stream) - 1
  PROVE  /\ TsduFrom(first, first - 1) = <<>>
         /\ TsduFrom(first, last) \in Seq(References)
         /\ TsduFrom(first, last + 1) = TsduFrom(first, last) \o stream[last + 1].payload
<1> DEFINE n     == last - first + 1
           parts == [i \in 1 .. n + 1 |-> stream[first + i - 1].payload]
           fewer == [i \in 1 .. n |-> stream[first + i - 1].payload]
<1>1. n \in Nat /\ Len(stream) \in Nat
  BY StreamTyped
<1>2. parts \in [1 .. n + 1 -> Seq(References)]
  <2>1. ASSUME NEW i \in 1 .. n + 1 PROVE stream[first + i - 1].payload \in Seq(References)
    <3>1. first + i - 1 \in 1 .. Len(stream)
      BY <1>1
    <3> QED BY <3>1, StreamTyped
  <2> QED BY <2>1
<1>3. fewer = [i \in 1 .. n |-> parts[i]]
  <2>1. ASSUME NEW i \in 1 .. n PROVE i \in 1 .. n + 1
    BY <1>1
  <2> QED BY <2>1
<1>4. parts[n + 1] = stream[last + 1].payload
  <2>1. n + 1 \in 1 .. n + 1 /\ first + (n + 1) - 1 = last + 1
    BY <1>1
  <2> QED BY <2>1
<1>5. TsduFrom(first, last) = FlattenSeq(fewer)
  BY DEF TsduFrom
<1>6. TsduFrom(first, last + 1) = FlattenSeq(parts)
  <2>1. (last + 1) - first + 1 = n + 1
    BY <1>1
  <2> QED BY <2>1 DEF TsduFrom
<1>7. TsduFrom(first, first - 1) = <<>>
  BY TsduNothing
<1> HIDE DEF parts, fewer, n
<1>8. FlattenSeq(fewer) \in Seq(References) /\ FlattenSeq(parts) = FlattenSeq(fewer) \o parts[n + 1]
  BY <1>1, <1>2, <1>3, FlattenOneMore
<1> QED BY <1>4, <1>5, <1>6, <1>7, <1>8

(* What frames bring can only be added to.                                 *)
LEMMA TsduLengthGrows ==
  ASSUME stream \in Streams, NEW first \in 1 .. Len(stream),
         NEW k \in first - 1 .. Len(stream), NEW last \in k .. Len(stream)
  PROVE  /\ TsduFrom(first, last) \in Seq(References)
         /\ Len(TsduFrom(first, k)) <= Len(TsduFrom(first, last))
<1> DEFINE Good(i) == /\ TsduFrom(first, i) \in Seq(References)
                      /\ Len(TsduFrom(first, k)) <= Len(TsduFrom(first, i))
           T == {i \in k .. Len(stream) : ~Good(i)}
<1>1. Len(stream) \in Nat
  BY StreamTyped
<1>2. TsduFrom(first, k) \in Seq(References)
  <2>1. CASE k = first - 1
    <3>1. first - 1 \in first - 1 .. Len(stream) - 1
      BY <1>1
    <3>2. TsduFrom(first, k) = <<>>
      BY <2>1, <3>1, TsduGrows
    <3> QED BY <3>2
  <2>2. CASE k # first - 1
    <3>1. k - 1 \in first - 1 .. Len(stream) - 1 /\ (k - 1) + 1 = k /\ k \in 1 .. Len(stream)
      BY <1>1, <2>2
    <3>2. TsduFrom(first, k - 1) \in Seq(References)
          /\ TsduFrom(first, (k - 1) + 1) = TsduFrom(first, k - 1) \o stream[(k - 1) + 1].payload
      BY <3>1, TsduGrows
    <3>3. stream[k].payload \in Seq(References)
      BY <3>1, StreamTyped
    <3>4. TsduFrom(first, k) = TsduFrom(first, k - 1) \o stream[k].payload
      BY <3>1, <3>2
    <3>5. \A s, t \in Seq(References) : s \o t \in Seq(References)
      OBVIOUS
    <3> QED BY <3>2, <3>3, <3>4, <3>5
  <2> QED BY <2>1, <2>2
<1>3. Good(k)
  BY <1>2
<1>4. SUFFICES ASSUME T # {} PROVE FALSE
  BY <1>1
<1>5. T \subseteq Nat
  BY <1>1
<1>6. PICK m \in T : \A i \in T : m <= i
  <2> HIDE DEF T
  <2> QED BY <1>4, <1>5, LeastNumber
<1> HIDE DEF Good
<1>7. m \in k .. Len(stream) /\ ~Good(m) /\ m - 1 \notin T /\ m # k
  BY <1>1, <1>3, <1>6
<1>8. m - 1 \in first - 1 .. Len(stream) - 1 /\ Good(m - 1) /\ (m - 1) + 1 = m /\ m \in 1 .. Len(stream)
  BY <1>1, <1>7
<1>9. TsduFrom(first, (m - 1) + 1) = TsduFrom(first, m - 1) \o stream[(m - 1) + 1].payload
  BY <1>8, TsduGrows
<1>10. stream[m].payload \in Seq(References)
  BY <1>8, StreamTyped
<1> DEFINE before == TsduFrom(first, m - 1)
<1>11. before \in Seq(References) /\ Len(TsduFrom(first, k)) <= Len(before)
  BY <1>8 DEF Good
<1>12. TsduFrom(first, m) = before \o stream[m].payload
  BY <1>8, <1>9
<1>13. Len(TsduFrom(first, k)) \in Nat
  BY <1>2
<1> HIDE DEF before
<1>14. Good(m)
  BY <1>10, <1>11, <1>12, <1>13 DEF Good
<1> QED BY <1>7, <1>14

(* Where the reply that a final frame completes began.                     *)
LEMMA FirstIsAfter ==
  ASSUME stream \in Streams, NEW base \in {0} \union Finals, NEW last \in Finals, base < last,
         \A i \in Finals : i <= base \/ last <= i
  PROVE  FirstOf(last) = base + 1 /\ TsduOf(last) = TsduFrom(base + 1, last)
<1> DEFINE earlier == {0} \union {i \in Finals : i < last}
<1>1. Finals \subseteq Nat
  BY StreamTyped DEF Finals
<1>2. base \in earlier /\ \A i \in earlier : i \in Nat /\ base >= i
  BY <1>1
<1> HIDE DEF earlier
<1>3. Max(earlier) \in earlier /\ \A i \in earlier : Max(earlier) >= i
  BY <1>2 DEF Max
<1>4. Max(earlier) = base
  <2>1. base \in Nat /\ Max(earlier) \in Nat /\ base >= Max(earlier) /\ Max(earlier) >= base
    BY <1>2, <1>3
  <2> QED BY <2>1
<1>5. FirstOf(last) = base + 1
  BY <1>1, <1>4 DEF FirstOf, earlier
<1> QED BY <1>5 DEF TsduOf, TsduFrom

FinalsUpTo(i) == {f \in Finals : f <= i}

LEMMA FinalsAreCounted ==
  ASSUME stream \in Streams
  PROVE  /\ Finals \subseteq 1 .. Len(stream) /\ IsFiniteSet(Finals)
         /\ FinalsUpTo(0) = {} /\ Cardinality(FinalsUpTo(0)) = 0
         /\ \A i : IsFiniteSet(FinalsUpTo(i)) /\ Cardinality(FinalsUpTo(i)) \in Nat
<1>1. Len(stream) \in Nat /\ Finals \subseteq 1 .. Len(stream)
  BY StreamTyped DEF Finals
<1>2. IsFiniteSet(Finals)
  <2>1. 1 \in Int /\ Len(stream) \in Int
    BY <1>1
  <2>2. IsFiniteSet(1 .. Len(stream))
    BY <2>1, FS_Interval
  <2> QED BY <1>1, <2>2, FS_Subset
<1>3. \A i : FinalsUpTo(i) \subseteq Finals
  BY DEF FinalsUpTo
<1>4. \A i : IsFiniteSet(FinalsUpTo(i)) /\ Cardinality(FinalsUpTo(i)) \in Nat
  BY <1>2, <1>3, FS_Subset, FS_CardinalityType
<1>5. FinalsUpTo(0) = {}
  <2>1. \A i \in Finals : ~(i <= 0)
    BY <1>1
  <2> QED BY <2>1, Zenon DEF FinalsUpTo
<1> QED BY <1>1, <1>2, <1>4, <1>5, FS_EmptySet

LEMMA OneMoreFinal ==
  ASSUME stream \in Streams, NEW base \in {0} \union Finals, NEW last \in Finals, base < last,
         \A i \in Finals : i <= base \/ last <= i
  PROVE  /\ FinalsUpTo(last) = FinalsUpTo(base) \union {last}
         /\ {i \in Finals : i < last} = FinalsUpTo(base)
         /\ Cardinality(FinalsUpTo(last)) = Cardinality(FinalsUpTo(base)) + 1
<1>1. Finals \subseteq Nat /\ IsFiniteSet(FinalsUpTo(base))
  BY FinalsAreCounted, StreamTyped
<1>2. FinalsUpTo(last) = FinalsUpTo(base) \union {last}
  <2>1. \A i \in Finals : i <= last <=> (i <= base \/ i = last)
    BY <1>1
  <2> QED BY <2>1, Zenon DEF FinalsUpTo
<1>3. {i \in Finals : i < last} = FinalsUpTo(base)
  <2>1. \A i \in Finals : i < last <=> i <= base
    BY <1>1
  <2> QED BY <2>1, Zenon DEF FinalsUpTo
<1>4. last \notin FinalsUpTo(base)
  BY <1>1 DEF FinalsUpTo
<1>5. Cardinality(FinalsUpTo(base) \union {last}) = Cardinality(FinalsUpTo(base)) + 1
  BY <1>1, <1>4, FS_AddElement
<1> QED BY <1>2, <1>3, <1>5

-----------------------------------------------------------------------------
(* Where the client is in the stream                                       *)

(* The frames that were received whole, and those of them that belong to   *)
(* replies that were skipped.                                              *)
Read == IF pc = "body" THEN frames - 1 ELSE frames
Base == Read - segments

(* Its place does not depend on how the bytes came.                        *)
PositionInv ==
    /\ frames <= Len(stream)
    /\ pc = "header" => wanted = HeaderSize /\ taken = End(frames) + have
    /\ pc = "body" =>
          /\ frames # 0 /\ frame = stream[frames] /\ frame.fault # "header"
          /\ taken = End(frames - 1) + HeaderSize + have
    /\ pc = "delivered" => taken = End(frames)

(* What it holds are the frames since the last complete reply, and each    *)
(* reply before was skipped for its reference.                             *)
TsduInv ==
    Waiting =>
      /\ error = "none"
      /\ Base \in {0} \union Finals
      /\ \A i \in Base + 1 .. Read : stream[i].fault = "none" /\ ~stream[i].final
      /\ data = TsduFrom(Base + 1, Read)
      /\ \A i \in FinalsUpTo(Base) : WellFormed(i) /\ Head(TsduOf(i)) # Awaited
      /\ allowance + Cardinality(FinalsUpTo(Base)) = MaxStaleResponses

DeliveryInv == PathInv /\ PositionInv /\ TsduInv /\ DeliversTheAnswer

(* The stream is the same all the time, and so is all that is said of it.  *)
LEMMA StreamStays ==
  ASSUME stream' = stream
  PROVE  /\ Finals' = Finals
         /\ \A i : /\ End(i)' = End(i) /\ WellFormed(i)' = WellFormed(i)
                   /\ TsduOf(i)' = TsduOf(i) /\ Answers(i)' = Answers(i)
                   /\ FinalsUpTo(i)' = FinalsUpTo(i)
         /\ \A i, j : TsduFrom(i, j)' = TsduFrom(i, j)
<1>1. Finals' = Finals
  BY DEF Finals
<1>2. ASSUME NEW i PROVE End(i)' = End(i)
  BY DEF End
<1>3. ASSUME NEW i PROVE FirstOf(i)' = FirstOf(i)
  BY DEF FirstOf, Finals
<1>4. ASSUME NEW i PROVE TsduOf(i)' = TsduOf(i)
  BY <1>3 DEF TsduOf
<1>5. ASSUME NEW i PROVE WellFormed(i)' = WellFormed(i)
  BY <1>3, <1>4 DEF WellFormed
<1>6. ASSUME NEW i PROVE Answers(i)' = Answers(i)
  BY <1>1, <1>4, <1>5 DEF Answers
<1>7. ASSUME NEW i PROVE FinalsUpTo(i)' = FinalsUpTo(i)
  BY <1>1 DEF FinalsUpTo
<1>8. ASSUME NEW i, NEW j PROVE TsduFrom(i, j)' = TsduFrom(i, j)
  BY DEF TsduFrom
<1> QED BY <1>1, <1>2, <1>4, <1>5, <1>6, <1>7, <1>8

(* Where a frame begins, its header is read.                               *)
LEMMA HeadersBegin ==
  ASSUME NEW offset, NEW i \in DOMAIN stream, End(i - 1) = offset - HeaderSize
  PROVE  \A f \in HeadersBefore(offset) :
            \E j \in DOMAIN stream : End(j - 1) = offset - HeaderSize /\ f = stream[j]
<1> DEFINE starts == {j \in DOMAIN stream : End(j - 1) = offset - HeaderSize}
<1>1. starts # {}
  OBVIOUS
<1>2. HeadersBefore(offset) = IF starts = {} THEN AnyFrame ELSE {stream[j] : j \in starts}
  BY DEF HeadersBefore
<1>3. HeadersBefore(offset) = {stream[j] : j \in starts}
  BY <1>1, <1>2
<1> QED BY <1>3

(* Where a frame ends, only the next one can begin.                        *)
LEMMA HeaderIsNext ==
  ASSUME stream \in Streams, NEW k \in 0 .. Len(stream) - 1,
         NEW offset, offset = End(k) + HeaderSize
  PROVE  \A f \in HeadersBefore(offset) : f = stream[k + 1]
<1>1. Len(stream) \in Nat /\ DOMAIN stream = 1 .. Len(stream)
  BY StreamTyped
<1>2. k \in 0 .. Len(stream) /\ k + 1 \in DOMAIN stream /\ (k + 1) - 1 = k
  BY <1>1
<1>3. End(k) \in Nat /\ offset - HeaderSize = End(k)
  BY <1>2, EndIsNext DEF HeaderSize
<1>4. ASSUME NEW i \in DOMAIN stream, End(i - 1) = End(k) PROVE i = k + 1
  <2>1. i - 1 \in 0 .. Len(stream)
    BY <1>1
  <2>2. ~(i - 1 < k) /\ ~(k < i - 1)
    BY <1>2, <1>3, <1>4, <2>1, EndGrows
  <2> QED BY <1>1, <1>2, <2>1, <2>2
<1> QED BY <1>2, <1>3, <1>4, HeadersBegin

LEMMA FailKeepsPosition ==
  ASSUME PositionInv, Waiting, NEW cause, Fail(cause), stream' = stream
  PROVE  PositionInv'
BY DEF PositionInv, Waiting, Fail, partVars

LEMMA HeaderKeepsPosition ==
  ASSUME PathInv, PositionInv, pc = "header", NEW offset, HeaderReceived(offset),
         offset = End(frames) + HeaderSize, offset <= End(Len(stream)),
         taken' = offset, stream' = stream
  PROVE  /\ PositionInv' /\ frames \in 0 .. Len(stream) - 1
         /\ \/ /\ stream[frames + 1].fault = "header" \/ BodySize(stream[frames + 1]) > BodyLimit
               /\ Fail("protocol")
            \/ /\ pc' = "body" /\ frames' = frames + 1 /\ UNCHANGED <<error, tsduVars>>
<1>1. stream \in Streams /\ frames \in Nat /\ frames <= Len(stream) /\ Len(stream) \in Nat
  BY StreamTyped DEF PathInv, PositionInv, TypeOK
<1>2. frames # Len(stream)
  <2>1. Len(stream) \in 0 .. Len(stream) /\ End(Len(stream)) \in Nat
    BY <1>1, EndIsNext
  <2> QED BY <2>1 DEF HeaderSize
<1>3. frames \in 0 .. Len(stream) - 1
  BY <1>1, <1>2
<1>4. \A f \in HeadersBefore(offset) : f = stream[frames + 1]
  BY <1>1, <1>3, HeaderIsNext
<1>5. CASE Fail("protocol") /\ (stream[frames + 1].fault = "header" \/ BodySize(stream[frames + 1]) > BodyLimit)
  BY <1>3, <1>5, FailKeepsPosition DEF Waiting
<1>6. CASE /\ stream[frames + 1].fault # "header"
           /\ frame' = stream[frames + 1] /\ frames' = frames + 1
           /\ pc' = "body" /\ wanted' = BodySize(stream[frames + 1]) /\ have' = 0
           /\ UNCHANGED <<error, tsduVars>>
  <2>1. (frames + 1) - 1 = frames /\ frames + 1 # 0 /\ frames + 1 <= Len(stream) /\ End(frames) \in Nat
    BY <1>1, <1>3, EndIsNext
  <2>2. End(frames - 1)' = End(frames)
    <3>1. frames' - 1 = frames
      BY <1>6, <2>1
    <3> QED BY <3>1, StreamStays
  <2>3. taken' = End(frames - 1)' + HeaderSize + have'
    BY <1>6, <2>1, <2>2 DEF HeaderSize
  <2>4. frame' = stream'[frames'] /\ frame'.fault # "header" /\ frames' # 0 /\ frames' <= Len(stream')
    BY <1>6, <2>1
  <2>5. PositionInv'
    BY <1>6, <2>3, <2>4 DEF PositionInv
  <2> QED BY <1>3, <1>6, <2>5
<1> QED BY <1>4, <1>5, <1>6 DEF HeaderReceived

LEMMA BodyKeepsPosition ==
  ASSUME PathInv, PositionInv, pc = "body", BodyReceived,
         taken' = End(frames), stream' = stream
  PROVE  PositionInv'
<1>1. frames \in 0 .. Len(stream) /\ End(frames) \in Nat
  <2>1. frames \in Nat /\ frames <= Len(stream) /\ Len(stream) \in Nat /\ stream \in Streams
    BY StreamTyped DEF PathInv, PositionInv, TypeOK
  <2> QED BY <2>1, EndIsNext
<1>2. CASE Fail("protocol")
  BY <1>2, FailKeepsPosition DEF Waiting
<1>3. CASE AwaitHeader
  <2>1. frames' = frames /\ pc' = "header" /\ wanted' = HeaderSize /\ have' = 0
    BY <1>3 DEF AwaitHeader
  <2>2. End(frames)' = End(frames)
    BY <2>1, StreamStays
  <2> QED BY <1>1, <2>1, <2>2 DEF PositionInv, HeaderSize
<1>4. CASE pc' = "delivered" /\ UNCHANGED partVars
  <2>1. frames' = frames
    BY <1>4 DEF partVars
  <2>2. End(frames)' = End(frames)
    BY <2>1, StreamStays
  <2> QED BY <1>1, <1>4, <2>1, <2>2 DEF PositionInv
<1> QED BY <1>2, <1>3, <1>4 DEF BodyReceived, TsduReceived

-----------------------------------------------------------------------------
(* When there is no answer                                                 *)

(* A frame that the client refuses spoils the reply it belongs to.         *)
LEMMA RefusedFrame ==
  ASSUME stream \in Streams, NEW base \in {0} \union Finals, NEW k \in base + 1 .. Len(stream),
         \A i \in base + 1 .. k - 1 : ~stream[i].final,
         \/ stream[k].fault # "none"
         \/ Len(TsduFrom(base + 1, k)) > MaxPduLength
         \/ ~stream[k].final /\ k - base >= MaxSegments
         \/ stream[k].final /\ TsduFrom(base + 1, k) = <<>>,
         NEW last \in Finals, base < last, \A i \in Finals : i <= base \/ last <= i
  PROVE  ~WellFormed(last)
<1>1. /\ Len(stream) \in Nat /\ Finals \subseteq 1 .. Len(stream) /\ base \in Nat
      /\ stream[last].final
  BY StreamTyped, FinalsAreCounted DEF Finals
<1>2. FirstOf(last) = base + 1 /\ TsduOf(last) = TsduFrom(base + 1, last)
  BY FirstIsAfter
<1>3. k <= last /\ last \in 1 .. Len(stream) /\ k \in 1 .. Len(stream)
  BY <1>1
<1>4. CASE stream[k].fault # "none"
  BY <1>1, <1>2, <1>3, <1>4 DEF WellFormed
<1>5. CASE Len(TsduFrom(base + 1, k)) > MaxPduLength
  <2>1. base + 1 \in 1 .. Len(stream) /\ k \in (base + 1) - 1 .. Len(stream) /\ last \in k .. Len(stream)
    BY <1>1, <1>3
  <2>2. TsduFrom(base + 1, last) \in Seq(References)
        /\ Len(TsduFrom(base + 1, k)) <= Len(TsduFrom(base + 1, last))
    BY <2>1, TsduLengthGrows
  <2>3. k \in k .. Len(stream)
    BY <1>3, <1>1
  <2>4. TsduFrom(base + 1, k) \in Seq(References)
    BY <2>1, <2>3, TsduLengthGrows
  <2>5. Len(TsduFrom(base + 1, last)) \in Nat /\ Len(TsduFrom(base + 1, k)) \in Nat
    BY <2>2, <2>4
  <2>6. MaxPduLength \in Nat
    BY ReceiveAssumption
  <2>7. ~(Len(TsduOf(last)) \in 1 .. MaxPduLength)
    BY <1>2, <1>5, <2>2, <2>5, <2>6
  <2> QED BY <2>7 DEF WellFormed
<1>6. CASE ~stream[k].final /\ k - base >= MaxSegments
  <2>1. k # last
    BY <1>1, <1>6
  <2>2. MaxSegments \in Nat
    BY ReceiveAssumption
  <2>3. ~(last - (base + 1) < MaxSegments)
    BY <1>1, <1>3, <1>6, <2>1, <2>2
  <2> QED BY <1>2, <2>3 DEF WellFormed
<1>7. CASE stream[k].final /\ TsduFrom(base + 1, k) = <<>>
  <2>1. k \in Finals /\ ~(k <= base)
    BY <1>1, <1>3, <1>7, StreamTyped DEF Finals
  <2>2. k = last
    BY <1>1, <1>3, <2>1
  <2> QED BY <1>2, <1>7, <2>2 DEF WellFormed
<1> QED BY <1>4, <1>5, <1>6, <1>7

(* If no reply so far is the answer, and the next one cannot be it and     *)
(* forbids to look further, there is none.                                 *)
LEMMA NoAnswer ==
  ASSUME stream \in Streams, NEW base \in {0} \union Finals,
         \A i \in FinalsUpTo(base) : Head(TsduOf(i)) # Awaited,
         \A last \in Finals :
            base < last /\ (\A i \in Finals : i <= base \/ last <= i) =>
               \/ ~WellFormed(last)
               \/ /\ Head(TsduOf(last)) # Awaited
                  /\ Cardinality(FinalsUpTo(base)) = MaxStaleResponses
  PROVE  \A last \in Finals : ~Answers(last)
<1> SUFFICES ASSUME NEW last \in Finals, Answers(last) PROVE FALSE
  OBVIOUS
<1>1. Len(stream) \in Nat /\ Finals \subseteq 1 .. Len(stream) /\ base \in Nat
  BY StreamTyped, FinalsAreCounted
<1>2. base < last
  <2>1. last \notin FinalsUpTo(base)
    BY DEF Answers
  <2> QED BY <1>1, <2>1 DEF FinalsUpTo
<1> DEFINE T == {i \in Finals : base < i}
<1>3. last \in T /\ T \subseteq Nat
  <2>1. last \in T
    BY <1>2
  <2>2. T \subseteq Finals /\ Finals \subseteq Nat
    BY <1>1
  <2> QED BY <2>1, <2>2
<1>4. PICK l \in T : \A i \in T : l <= i
  <2> HIDE DEF T
  <2> QED BY <1>3, LeastNumber
<1>5. l \in Finals /\ base < l /\ l <= last /\ \A i \in Finals : i <= base \/ l <= i
  BY <1>1, <1>3, <1>4
<1> HIDE DEF T
<1>6. WellFormed(l)
  BY <1>1, <1>5 DEF Answers
<1>7. Head(TsduOf(l)) # Awaited /\ Cardinality(FinalsUpTo(base)) = MaxStaleResponses
  BY <1>5, <1>6
<1>8. l < last
  BY <1>1, <1>5, <1>7 DEF Answers
<1> DEFINE before == {i \in Finals : i < last}
<1>9. FinalsUpTo(l) \subseteq before /\ before \subseteq Finals
  <2>1. \A i \in Finals : i <= l => i < last
    BY <1>1, <1>5, <1>8
  <2> QED BY <2>1 DEF FinalsUpTo
<1>10. Cardinality(FinalsUpTo(l)) = MaxStaleResponses + 1
  BY <1>5, <1>7, OneMoreFinal
<1>11. Cardinality(before) <= MaxStaleResponses
  BY DEF Answers
<1> HIDE DEF before
<1>12. IsFiniteSet(before) /\ Cardinality(before) \in Nat
  BY <1>9, FinalsAreCounted, FS_Subset, FS_CardinalityType
<1>13. Cardinality(FinalsUpTo(l)) <= Cardinality(before)
  BY <1>9, <1>12, FS_Subset
<1>14. MaxStaleResponses \in Nat
  BY ReceiveAssumption
<1> QED BY <1>10, <1>11, <1>12, <1>13, <1>14

-----------------------------------------------------------------------------
(* The reply that is delivered is the answer                               *)

(* The frame that is received next, and what is held with it.              *)
LEMMA NextFrame ==
  ASSUME PathInv, PositionInv, TsduInv, Waiting, NEW k, k = Read + 1, k <= Len(stream)
  PROVE  /\ Base \in {0} \union Finals /\ Base \in Nat /\ segments = Read - Base /\ segments \in Nat
         /\ k \in Base + 1 .. Len(stream) /\ k \in 1 .. Len(stream)
         /\ \A i \in Base + 1 .. k - 1 : stream[i].fault = "none" /\ ~stream[i].final
         /\ \A i \in Finals : i <= Base \/ k <= i
         /\ TsduFrom(Base + 1, k) = data \o stream[k].payload
         /\ TsduFrom(Base + 1, k) \in Seq(References)
         /\ Len(TsduFrom(Base + 1, k)) = Len(data) + Len(stream[k].payload)
<1>1. stream \in Streams /\ Len(stream) \in Nat /\ Finals \subseteq 1 .. Len(stream)
  BY StreamTyped, FinalsAreCounted DEF PathInv
<1>2. frames \in Nat /\ segments \in Nat /\ (pc = "body" => frames # 0) /\ Read \in Nat
  BY ReceiveAssumption DEF PathInv, TypeOK, PositionInv, Read
<1>3. Base \in {0} \union Finals /\ Base \in Nat
  <2>1. Base \in {0} \union Finals
    BY Zenon DEF TsduInv
  <2>2. {0} \union Finals \subseteq Nat
    BY <1>1
  <2> QED BY <2>1, <2>2
<1>4. segments = Read - Base
  BY <1>2, <1>3 DEF Base
<1>5. k \in Base + 1 .. Len(stream) /\ k \in 1 .. Len(stream) /\ k - 1 = Read
  BY <1>1, <1>2, <1>3, <1>4
<1>6. \A i \in Base + 1 .. k - 1 : stream[i].fault = "none" /\ ~stream[i].final
  BY <1>5 DEF TsduInv
<1>7. \A i \in Finals : i <= Base \/ k <= i
  <2> SUFFICES ASSUME NEW i \in Finals, ~(i <= Base), ~(k <= i) PROVE FALSE
    OBVIOUS
  <2>1. stream[i].final /\ i \in Nat
    BY <1>1 DEF Finals
  <2>2. i \in Base + 1 .. k - 1
    BY <1>3, <1>5, <2>1
  <2> QED BY <1>6, <2>1, <2>2
<1>8. data = TsduFrom(Base + 1, Read)
  BY DEF TsduInv
<1>9. /\ Base + 1 \in 1 .. Len(stream) /\ Read \in (Base + 1) - 1 .. Len(stream) - 1
      /\ Read + 1 = k
  BY <1>1, <1>2, <1>3, <1>4, <1>5
<1>10. TsduFrom(Base + 1, k) = data \o stream[k].payload
  <2>1. TsduFrom(Base + 1, Read + 1) = TsduFrom(Base + 1, Read) \o stream[Read + 1].payload
    BY <1>1, <1>9, TsduGrows
  <2> QED BY <1>8, <1>9, <2>1
<1>11. data \in Seq(References) /\ stream[k].payload \in Seq(References)
  BY <1>1, <1>5, StreamTyped DEF PathInv, TypeOK
<1>12. /\ data \o stream[k].payload \in Seq(References)
       /\ Len(data \o stream[k].payload) = Len(data) + Len(stream[k].payload)
  BY <1>11
<1> QED BY <1>2, <1>3, <1>4, <1>5, <1>6, <1>7, <1>10, <1>12

LEMMA RefusedMeansNoAnswer ==
  ASSUME PathInv, PositionInv, TsduInv, Waiting, NEW k, k = Read + 1, k <= Len(stream),
         \/ stream[k].fault # "none"
         \/ Len(data) + Len(stream[k].payload) > MaxPduLength
         \/ ~stream[k].final /\ NoSegmentLeft
         \/ stream[k].final /\ data \o stream[k].payload = <<>>
  PROVE  \A last \in Finals : ~Answers(last)
<1> DEFINE base == Base
<1>1. stream \in Streams /\ Len(stream) \in Nat
  BY StreamTyped DEF PathInv
<1>2. /\ base \in {0} \union Finals /\ base \in Nat /\ segments = Read - base /\ segments \in Nat
      /\ k \in base + 1 .. Len(stream)
      /\ \A i \in base + 1 .. k - 1 : stream[i].fault = "none" /\ ~stream[i].final
      /\ TsduFrom(base + 1, k) = data \o stream[k].payload
      /\ Len(TsduFrom(base + 1, k)) = Len(data) + Len(stream[k].payload)
  BY NextFrame
<1>3. \A i \in FinalsUpTo(base) : Head(TsduOf(i)) # Awaited
  BY DEF TsduInv
<1>4. Read \in Nat
  BY DEF PathInv, TypeOK, PositionInv, Read
<1> HIDE DEF base
<1>5. \/ stream[k].fault # "none"
      \/ Len(TsduFrom(base + 1, k)) > MaxPduLength
      \/ ~stream[k].final /\ k - base >= MaxSegments
      \/ stream[k].final /\ TsduFrom(base + 1, k) = <<>>
  <2>1. k - base = segments + 1
    BY <1>2, <1>4
  <2> QED BY <1>2, <2>1 DEF NoSegmentLeft
<1>6. ASSUME NEW last \in Finals, base < last, \A i \in Finals : i <= base \/ last <= i
      PROVE  ~WellFormed(last)
  BY <1>1, <1>2, <1>5, <1>6, RefusedFrame
<1> QED BY <1>1, <1>2, <1>3, <1>6, NoAnswer

(* Giving up keeps what was said, when an accusation is justified.         *)
LEMMA FailKeepsDelivery ==
  ASSUME Waiting, NEW cause, Fail(cause), stream' = stream,
         cause = "protocol" => \A last \in Finals : ~Answers(last)
  PROVE  TsduInv' /\ DeliversTheAnswer'
<1>1. pc' = "failed" /\ error' = cause
  BY DEF Fail
<1>2. TsduInv'
  BY <1>1 DEF TsduInv, Waiting
<1>3. Finals' = Finals /\ \A i : Answers(i)' = Answers(i)
  BY StreamStays
<1>4. DeliversTheAnswer'
  BY <1>1, <1>3 DEF DeliversTheAnswer
<1> QED BY <1>2, <1>4

LEMMA HeaderKeepsDelivery ==
  ASSUME PathInv, PositionInv, TsduInv, DeliversTheAnswer, pc = "header",
         stream' = stream, frames \in 0 .. Len(stream) - 1,
         \/ /\ stream[frames + 1].fault = "header" \/ BodySize(stream[frames + 1]) > BodyLimit
            /\ Fail("protocol")
         \/ /\ pc' = "body" /\ frames' = frames + 1 /\ UNCHANGED <<error, tsduVars>>
  PROVE  TsduInv' /\ DeliversTheAnswer'
<1>1. stream \in Streams /\ Len(stream) \in Nat /\ Waiting /\ Read = frames
  BY StreamTyped DEF PathInv, Waiting, Read
<1>2. CASE /\ stream[frames + 1].fault = "header" \/ BodySize(stream[frames + 1]) > BodyLimit
           /\ Fail("protocol")
  <2>1. frames + 1 = Read + 1 /\ frames + 1 <= Len(stream) /\ frames + 1 \in 1 .. Len(stream)
    BY <1>1
  <2>2. stream[frames + 1].fault # "none" \/ Len(data) + Len(stream[frames + 1].payload) > MaxPduLength
    <3>1. /\ BodySize(stream[frames + 1]) = Len(stream[frames + 1].payload) + 3
          /\ Len(stream[frames + 1].payload) \in Nat
      BY <1>1, <2>1, StreamTyped
    <3>2. Len(data) \in Nat /\ MaxPduLength \in Nat
      BY ReceiveAssumption DEF PathInv, TypeOK
    <3> QED BY <1>2, <3>1, <3>2 DEF BodyLimit, DataHeaderSize
  <2>3. \A last \in Finals : ~Answers(last)
    BY <1>1, <2>1, <2>2, RefusedMeansNoAnswer
  <2> QED BY <1>1, <1>2, <2>3, FailKeepsDelivery
<1>3. CASE pc' = "body" /\ frames' = frames + 1 /\ UNCHANGED <<error, tsduVars>>
  <2>1. Read' = Read /\ Base' = Base
    BY <1>1, <1>3 DEF Read, Base, tsduVars
  <2>2. /\ FinalsUpTo(Base)' = FinalsUpTo(Base)
        /\ TsduFrom(Base + 1, Read)' = TsduFrom(Base + 1, Read)
    BY <2>1, StreamStays
  <2>3. Finals' = Finals /\ \A i : WellFormed(i)' = WellFormed(i) /\ TsduOf(i)' = TsduOf(i)
    BY StreamStays
  <2>4. UNCHANGED <<error, data, allowance>>
    BY <1>3 DEF tsduVars
  <2>5. TsduInv'
    BY <1>1, <2>1, <2>2, <2>3, <2>4 DEF TsduInv
  <2>6. DeliversTheAnswer'
    BY <1>1, <1>3, <2>4 DEF DeliversTheAnswer, TsduInv
  <2> QED BY <2>5, <2>6
<1> QED BY <1>2, <1>3

LEMMA BodyKeepsDelivery ==
  ASSUME PathInv, PositionInv, TsduInv, DeliversTheAnswer, pc = "body", BodyReceived,
         stream' = stream
  PROVE  TsduInv' /\ DeliversTheAnswer'
<1> DEFINE base == Base
<1>1. /\ stream \in Streams /\ Len(stream) \in Nat /\ Waiting
      /\ frames \in 1 .. Len(stream) /\ Read = frames - 1 /\ frames = Read + 1
      /\ frame = stream[frames] /\ frame.fault # "header" /\ MaxStaleResponses \in Nat
  BY StreamTyped, ReceiveAssumption DEF PathInv, Waiting, Read, PositionInv, TypeOK
<1>2. /\ base \in {0} \union Finals /\ base \in Nat /\ segments = Read - base /\ segments \in Nat
      /\ frames \in base + 1 .. Len(stream)
      /\ \A i \in base + 1 .. frames - 1 : stream[i].fault = "none" /\ ~stream[i].final
      /\ \A i \in Finals : i <= base \/ frames <= i
      /\ TsduFrom(base + 1, frames) = data \o stream[frames].payload
      /\ TsduFrom(base + 1, frames) \in Seq(References)
      /\ Len(TsduFrom(base + 1, frames)) = Len(data) + Len(stream[frames].payload)
  <2>1. frames = Read + 1 /\ frames <= Len(stream)
    BY <1>1
  <2> QED BY <1>1, <2>1, NextFrame
<1>3. /\ error = "none"
      /\ \A i \in FinalsUpTo(base) : WellFormed(i) /\ Head(TsduOf(i)) # Awaited
      /\ allowance + Cardinality(FinalsUpTo(base)) = MaxStaleResponses
  BY <1>1 DEF TsduInv
<1>4. Joined = TsduFrom(base + 1, frames) /\ Joined = data \o stream[frames].payload
      /\ Joined \in Seq(References) /\ Len(Joined) = Len(data) + Len(stream[frames].payload)
  BY <1>1, <1>2 DEF Joined
<1>5. Finals' = Finals /\ \A i : /\ Answers(i)' = Answers(i) /\ WellFormed(i)' = WellFormed(i)
                                /\ TsduOf(i)' = TsduOf(i)
  BY <1>1, StreamStays
<1>6. segments \in 0 .. MaxSegments - 1 /\ allowance \in Nat /\ Cardinality(FinalsUpTo(base)) \in Nat
  BY <1>1, FinalsAreCounted DEF PathInv, TypeOK
<1>7. stream[frames].fault \in FrameFaults /\ stream[frames].final \in BOOLEAN
  BY <1>1, StreamTyped
<1>8. Base = base
  OBVIOUS
<1> HIDE DEF base
<1>9. CASE /\ frame.fault = "tpdu" \/ Len(Joined) > MaxPduLength \/ (~frame.final /\ NoSegmentLeft)
           /\ Fail("protocol")
  <2>1. \A last \in Finals : ~Answers(last)
    <3>1. \/ stream[frames].fault # "none"
          \/ Len(data) + Len(stream[frames].payload) > MaxPduLength
          \/ ~stream[frames].final /\ NoSegmentLeft
      BY <1>1, <1>4, <1>9
    <3>2. frames <= Len(stream)
      BY <1>1
    <3> QED BY <1>1, <3>1, <3>2, RefusedMeansNoAnswer
  <2> QED BY <1>1, <1>9, <2>1, FailKeepsDelivery
<1>10. CASE /\ frame.fault # "tpdu" /\ ~frame.final
            /\ data' = Joined /\ segments' = segments + 1
            /\ AwaitHeader /\ UNCHANGED <<allowance, deadline>>
  <2>1. pc' = "header" /\ frames' = frames /\ error' = error
    BY <1>10 DEF AwaitHeader
  <2>2. Read' = frames
    BY <2>1 DEF Read
  <2>3. Base' = base
    BY <1>1, <1>2, <1>10, <2>2 DEF Base
  <2>4. FinalsUpTo(Base)' = FinalsUpTo(base)
    BY <1>1, <2>3, StreamStays
  <2>5. TsduFrom(Base + 1, Read)' = TsduFrom(base + 1, frames)
    BY <1>1, <2>2, <2>3, StreamStays
  <2>6. stream[frames].fault = "none" /\ ~stream[frames].final
    BY <1>1, <1>7, <1>10 DEF FrameFaults
  <2>7. \A i \in base + 1 .. frames : stream[i].fault = "none" /\ ~stream[i].final
    <3>1. \A i \in base + 1 .. frames : i = frames \/ i \in base + 1 .. frames - 1
      BY <1>1, <1>2
    <3> QED BY <1>2, <2>6, <3>1
  <2>8. TsduInv'
    BY <1>1, <1>2, <1>3, <1>4, <1>5, <1>10, <2>1, <2>2, <2>3, <2>4, <2>5, <2>7 DEF TsduInv
  <2>9. DeliversTheAnswer'
    BY <1>3, <2>1 DEF DeliversTheAnswer
  <2> QED BY <2>8, <2>9
<1>11. CASE /\ frame.fault # "tpdu" /\ Len(Joined) <= MaxPduLength /\ frame.final
            /\ TsduReceived(Joined)
  <2>1. frames \in Finals /\ base < frames
    BY <1>1, <1>2, <1>11, StreamTyped DEF Finals
  <2>2. FirstOf(frames) = base + 1 /\ TsduOf(frames) = Joined
    BY <1>1, <1>2, <1>4, <2>1, FirstIsAfter
  <2>3. /\ FinalsUpTo(frames) = FinalsUpTo(base) \union {frames}
        /\ {i \in Finals : i < frames} = FinalsUpTo(base)
        /\ Cardinality(FinalsUpTo(frames)) = Cardinality(FinalsUpTo(base)) + 1
    BY <1>1, <1>2, <2>1, OneMoreFinal
  <2>4. Joined # <<>> => WellFormed(frames)
    <3>1. stream[frames].fault = "none"
      BY <1>1, <1>7, <1>11 DEF FrameFaults
    <3>2. \A i \in base + 1 .. frames : i = frames \/ i \in base + 1 .. frames - 1
      BY <1>1, <1>2
    <3>3. \A i \in base + 1 .. frames : stream[i].fault = "none"
      BY <1>2, <3>1, <3>2
    <3>4. frames - (base + 1) < MaxSegments
      BY <1>1, <1>2, <1>6, ReceiveAssumption
    <3>5. Joined # <<>> => Len(Joined) \in 1 .. MaxPduLength
      BY <1>4, <1>11, ReceiveAssumption
    <3> QED BY <2>2, <3>3, <3>4, <3>5 DEF WellFormed
  <2>5. CASE Joined = <<>> /\ Fail("protocol")
    <3>1. stream[frames].final /\ data \o stream[frames].payload = <<>> /\ frames <= Len(stream)
      BY <1>1, <1>4, <1>11, <2>5
    <3>2. \A last \in Finals : ~Answers(last)
      BY <1>1, <3>1, RefusedMeansNoAnswer
    <3> QED BY <1>1, <2>5, <3>2, FailKeepsDelivery
  <2>6. CASE Joined # <<>> /\ Head(Joined) # Awaited /\ allowance = 0 /\ Fail("protocol")
    <3>1. Cardinality(FinalsUpTo(base)) = MaxStaleResponses
      BY <1>1, <1>3, <1>6, <2>6
    <3>2. ASSUME NEW last \in Finals, base < last, \A i \in Finals : i <= base \/ last <= i
          PROVE  Head(TsduOf(last)) # Awaited
      <4>1. frames <= last /\ last <= frames /\ last \in Nat
        BY <1>1, <1>2, <2>1, <3>2, FinalsAreCounted
      <4>2. last = frames
        BY <1>1, <4>1
      <4> QED BY <2>2, <2>6, <4>2
    <3>3. \A i \in FinalsUpTo(base) : Head(TsduOf(i)) # Awaited
      BY <1>3
    <3>4. \A last \in Finals : ~Answers(last)
      BY <1>1, <1>2, <3>1, <3>2, <3>3, NoAnswer
    <3> QED BY <1>1, <2>6, <3>4, FailKeepsDelivery
  <2>7. CASE /\ Joined # <<>> /\ Head(Joined) # Awaited /\ allowance # 0
             /\ allowance' = allowance - 1 /\ data' = <<>> /\ segments' = 0 /\ AwaitHeader
    <3>1. pc' = "header" /\ frames' = frames /\ error' = error
      BY <2>7 DEF AwaitHeader
    <3>2. Read' = frames
      BY <3>1 DEF Read
    <3>3. Base' = frames
      BY <1>1, <2>7, <3>2 DEF Base
    <3>4. FinalsUpTo(Base)' = FinalsUpTo(frames)
      BY <1>1, <3>3, StreamStays
    <3>5. TsduFrom(Base + 1, Read)' = TsduFrom(frames + 1, frames)
      BY <1>1, <3>2, <3>3, StreamStays
    <3>6. TsduFrom(frames + 1, frames) = <<>>
      <4>1. frames + 1 \in Nat /\ (frames + 1) - 1 = frames
        BY <1>1
      <4>2. TsduFrom(frames + 1, (frames + 1) - 1) = <<>>
        BY <4>1, TsduNothing
      <4> QED BY <4>1, <4>2
    <3>7. frames + 1 .. frames = {}
      BY <1>1
    <3>8. \A i \in FinalsUpTo(frames) : WellFormed(i) /\ Head(TsduOf(i)) # Awaited
      BY <1>3, <2>2, <2>3, <2>4, <2>7
    <3>9. (allowance - 1) + Cardinality(FinalsUpTo(frames)) = MaxStaleResponses
      BY <1>3, <1>6, <2>3
    <3>10. TsduInv'
      BY <1>1, <1>3, <1>5, <2>1, <2>7, <3>1, <3>2, <3>3, <3>4, <3>5, <3>6, <3>7, <3>8, <3>9 DEF TsduInv
    <3>11. DeliversTheAnswer'
      BY <1>3, <3>1 DEF DeliversTheAnswer
    <3> QED BY <3>10, <3>11
  <2>8. CASE /\ Joined # <<>> /\ Head(Joined) = Awaited
             /\ pc' = "delivered" /\ data' = Joined /\ error' = error
    <3>1. \A i \in Finals : i < frames => WellFormed(i) /\ Head(TsduOf(i)) # Awaited
      <4>1. \A i \in Finals : i < frames => i \in FinalsUpTo(base)
        BY <2>3
      <4> QED BY <1>3, <4>1
    <3>2. Cardinality({i \in Finals : i < frames}) <= MaxStaleResponses
      <4>1. Cardinality(FinalsUpTo(base)) <= MaxStaleResponses
        BY <1>1, <1>3, <1>6
      <4> QED BY <2>3, <4>1
    <3>3. Answers(frames)
      BY <2>2, <2>4, <2>8, <3>1, <3>2 DEF Answers
    <3>4. DeliversTheAnswer'
      BY <1>3, <1>5, <2>1, <2>2, <2>8, <3>3 DEF DeliversTheAnswer
    <3>5. TsduInv'
      BY <2>8 DEF TsduInv, Waiting
    <3> QED BY <3>4, <3>5
  <2> QED BY <1>11, <2>5, <2>6, <2>7, <2>8 DEF TsduReceived, Verdict, CorrelationStep
<1> QED BY <1>9, <1>10, <1>11 DEF BodyReceived

(* The exchange begins at the first frame, and nothing is skipped yet.     *)
LEMMA DeliveryInvInit == Init => DeliveryInv
<1> SUFFICES ASSUME Init PROVE DeliveryInv
  OBVIOUS
<1>1. PathInv
  BY PathInvInit
<1>2. stream \in Streams /\ Len(stream) \in Nat
  BY StreamTyped DEF Init
<1>3. End(0) = 0
  BY <1>2, EndIsNext
<1>4. PositionInv
  BY <1>2, <1>3 DEF Init, PositionInv
<1>5. Read = 0 /\ Base = 0
  BY DEF Init, Read, Base
<1>6. TsduFrom(1, 0) = <<>>
  <2>1. 1 \in Nat /\ 1 - 1 = 0
    OBVIOUS
  <2>2. TsduFrom(1, 1 - 1) = <<>>
    BY <2>1, TsduNothing
  <2> QED BY <2>1, <2>2
<1>7. FinalsUpTo(0) = {} /\ Cardinality(FinalsUpTo(0)) = 0
  BY <1>2, FinalsAreCounted
<1>8. TsduInv
  <2>1. 0 + 1 = 1 /\ 1 .. 0 = {}
    OBVIOUS
  <2>2. allowance + 0 = MaxStaleResponses
    BY ReceiveAssumption DEF Init
  <2> QED BY <1>5, <1>6, <1>7, <2>1, <2>2 DEF Init, TsduInv
<1>9. DeliversTheAnswer
  BY DEF Init, DeliversTheAnswer
<1> QED BY <1>1, <1>4, <1>8, <1>9 DEF DeliveryInv

(* However the bytes come.                                                 *)
LEMMA NextKeepsDelivery == DeliveryInv /\ [Next]_vars => DeliveryInv'
<1> SUFFICES ASSUME DeliveryInv, [Next]_vars PROVE DeliveryInv'
  OBVIOUS
<1>1. PathInv /\ PositionInv /\ TsduInv /\ DeliversTheAnswer /\ PathInv' /\ stream \in Streams
  BY NextKeepsPathInv DEF DeliveryInv, PathInv
<1>2. SUFFICES PositionInv' /\ TsduInv' /\ DeliversTheAnswer'
  BY <1>1 DEF DeliveryInv
<1>3. ASSUME UNCHANGED <<stream, pc, error, frames, tsduVars>>
      PROVE  TsduInv' /\ DeliversTheAnswer'
  <2>1. UNCHANGED <<data, segments, allowance>>
    BY <1>3 DEF tsduVars
  <2>2. Read' = Read /\ Base' = Base
    BY <1>3, <2>1 DEF Read, Base
  <2>3. /\ FinalsUpTo(Base)' = FinalsUpTo(Base)
        /\ TsduFrom(Base + 1, Read)' = TsduFrom(Base + 1, Read)
    BY <1>3, <2>2, StreamStays
  <2>4. Finals' = Finals /\ \A i : /\ Answers(i)' = Answers(i) /\ WellFormed(i)' = WellFormed(i)
                                  /\ TsduOf(i)' = TsduOf(i)
    BY <1>3, StreamStays
  <2>5. TsduInv'
    BY <1>1, <1>3, <2>1, <2>2, <2>3, <2>4 DEF TsduInv, Waiting
  <2>6. DeliversTheAnswer'
    BY <1>1, <1>3, <2>1, <2>4 DEF DeliversTheAnswer
  <2> QED BY <2>5, <2>6
<1>4. CASE Arrive
  <2>1. stream' = stream /\ Waiting
    BY <1>4 DEF Arrive
  <2>2. PICK n \in 1 .. Missing :
          /\ taken + n <= End(Len(stream))
          /\ taken' = taken + n
          /\ \/ /\ have + n < wanted
                /\ have' = have + n
                /\ UNCHANGED <<pc, error, wanted, frame, frames, tsduVars>>
             \/ /\ have + n >= wanted
                /\ \/ pc = "header" /\ HeaderReceived(taken + n)
                   \/ pc = "body" /\ BodyReceived
    BY <1>4 DEF Arrive
  <2>3. /\ wanted \in Nat /\ have \in Nat /\ n \in Nat /\ n <= wanted - have
        /\ taken \in Nat /\ frames \in Nat /\ frames <= Len(stream) /\ Len(stream) \in Nat
    BY <1>1, <2>2, StreamTyped DEF PathInv, TypeOK, Missing, PositionInv
  <2>4. CASE /\ have' = have + n
             /\ UNCHANGED <<pc, error, wanted, frame, frames, tsduVars>>
    <3>1. End(frames)' = End(frames) /\ End(frames - 1)' = End(frames - 1)
      <4>1. frames' = frames /\ (frames - 1)' = frames - 1
        BY <2>4
      <4> QED BY <2>1, <4>1, StreamStays
    <3>2. End(frames) \in Nat /\ (frames # 0 => End(frames - 1) \in Nat)
      BY <1>1, <2>3, EndIsNext
    <3>3. taken' = taken + n /\ have' = have + n
      BY <2>2, <2>4
    <3>4. pc = "header" => wanted = HeaderSize /\ taken + n = End(frames) + (have + n)
      BY <1>1, <2>3, <3>2 DEF PositionInv
    <3>5. pc = "body" =>
            /\ frames # 0 /\ frame = stream[frames] /\ frame.fault # "header"
            /\ taken + n = End(frames - 1) + HeaderSize + (have + n)
      BY <1>1, <2>3, <3>2 DEF PositionInv, HeaderSize
    <3>6. UNCHANGED <<pc, wanted, frame, frames, stream>> /\ pc # "delivered"
      BY <2>1, <2>4 DEF Waiting
    <3>7. PositionInv'
      BY <2>3, <3>1, <3>3, <3>4, <3>5, <3>6 DEF PositionInv, HeaderSize
    <3> QED BY <1>3, <2>1, <2>4, <3>7
  <2>5. CASE have + n >= wanted /\ pc = "header" /\ HeaderReceived(taken + n)
    <3>1. taken + n = End(frames) + HeaderSize /\ End(frames) \in Nat
      <4>1. End(frames) \in Nat
        BY <1>1, <2>3, EndIsNext
      <4> QED BY <1>1, <2>3, <2>5, <4>1 DEF PositionInv, HeaderSize
    <3>2. PositionInv' /\ frames \in 0 .. Len(stream) - 1
          /\ \/ /\ stream[frames + 1].fault = "header" \/ BodySize(stream[frames + 1]) > BodyLimit
                /\ Fail("protocol")
             \/ /\ pc' = "body" /\ frames' = frames + 1 /\ UNCHANGED <<error, tsduVars>>
      BY <1>1, <2>1, <2>2, <2>5, <3>1, HeaderKeepsPosition
    <3> QED BY <1>1, <2>1, <2>5, <3>2, HeaderKeepsDelivery
  <2>6. CASE have + n >= wanted /\ pc = "body" /\ BodyReceived
    <3>1. /\ frames \in 1 .. Len(stream) /\ frames - 1 \in 0 .. Len(stream)
          /\ taken = End(frames - 1) + HeaderSize + have /\ wanted = BodySize(stream[frames])
      BY <1>1, <2>3, <2>6 DEF PositionInv, PathInv
    <3>2. /\ End(frames) = End(frames - 1) + FrameSize(stream[frames]) /\ End(frames - 1) \in Nat
          /\ FrameSize(stream[frames]) = BodySize(stream[frames]) + 4
      BY <1>1, <3>1, EndIsNext, StreamTyped
    <3>3. taken' = End(frames)
      <4> DEFINE start == End(frames - 1)
                 size  == BodySize(stream[frames])
      <4>1. taken = start + 4 + have /\ wanted = size /\ start \in Nat
        BY <3>1, <3>2 DEF HeaderSize
      <4>2. End(frames) = start + FrameSize(stream[frames]) /\ FrameSize(stream[frames]) = size + 4
        BY <3>2
      <4> HIDE DEF start, size
      <4>3. n = wanted - have
        BY <2>3, <2>6
      <4>4. taken + n = start + (size + 4)
        BY <2>3, <4>1, <4>3
      <4> QED BY <2>2, <4>2, <4>4
    <3> QED BY <1>1, <2>1, <2>6, <3>3, BodyKeepsPosition, BodyKeepsDelivery
  <2> QED BY <2>2, <2>4, <2>5, <2>6
<1>5. CASE TimesOut \/ ConnectionLost
  <2>1. /\ stream' = stream /\ Waiting
        /\ \E cause \in {"timeout", "disconnected", "transport"} : Fail(cause)
    BY <1>5 DEF TimesOut, ConnectionLost
  <2>2. PICK cause \in {"timeout", "disconnected", "transport"} : Fail(cause)
    BY <2>1
  <2> QED BY <1>1, <2>1, <2>2, FailKeepsPosition, FailKeepsDelivery
<1>6. CASE Tick \/ UNCHANGED vars
  <2>1. UNCHANGED <<stream, taken, pc, error, partVars, tsduVars>>
    BY <1>6 DEF Tick, vars
  <2>2. UNCHANGED <<wanted, have, frame, frames>>
    BY <2>1 DEF partVars
  <2>3. End(frames)' = End(frames) /\ End(frames - 1)' = End(frames - 1)
    <3>1. frames' = frames /\ (frames - 1)' = frames - 1
      BY <2>2
    <3> QED BY <2>1, <3>1, StreamStays
  <2>4. PositionInv'
    BY <1>1, <2>1, <2>2, <2>3 DEF PositionInv
  <2> QED BY <1>3, <2>1, <2>2, <2>4
<1> QED BY <1>4, <1>5, <1>6 DEF Next

(* Where the client is in the stream, and what it holds, at every moment.  *)
THEOREM DeliveryInvariant == Spec => []DeliveryInv
<1> QED BY DeliveryInvInit, NextKeepsDelivery, PTL DEF Spec

(* However the stream was cut into pieces, a header is read where a frame  *)
(* begins, and a delivered reply leaves the next one whole on the stream.  *)
THEOREM BytesStayAligned == Spec => []Aligned
<1>1. DeliveryInv => Aligned
  <2> SUFFICES ASSUME DeliveryInv PROVE Aligned
    OBVIOUS
  <2>1. TypeOK /\ PositionInv /\ stream \in Streams
    BY DEF DeliveryInv, PathInv
  <2>2. frames \in 0 .. Len(stream) /\ End(frames) \in Nat
    <3>1. frames \in Nat /\ frames <= Len(stream) /\ Len(stream) \in Nat
      BY <2>1, StreamTyped DEF TypeOK, PositionInv
    <3>2. frames \in 0 .. Len(stream)
      BY <3>1
    <3> QED BY <2>1, <3>2, EndIsNext
  <2>3. pc = "delivered" \/ (pc = "header" /\ have = 0) => taken = End(frames)
    BY <2>1, <2>2 DEF PositionInv
  <2> QED BY <2>1, <2>2, <2>3 DEF Aligned
<1> QED BY <1>1, DeliveryInvariant, PTL

(* The reply returned is the first with the right reference, complete and  *)
(* unmixed; and the peer is accused of a protocol error only when it sent  *)
(* no acceptable answer.                                                   *)
THEOREM TheAnswerIsDelivered == Spec => []DeliversTheAnswer
<1>1. DeliveryInv => DeliversTheAnswer
  BY DEF DeliveryInv
<1> QED BY <1>1, DeliveryInvariant, PTL
=============================================================================
