--------------------------- MODULE BlockTransfer ---------------------------
(***************************************************************************)
(* Upload and download of one block.  An upload is driven by the client:   *)
(* START_UPLOAD, UPLOAD until the last fragment, END_UPLOAD; a download by *)
(* the PLC, which asks for each fragment and for the end, after which the  *)
(* client has the block inserted.  The PLC follows the scripts of the      *)
(* integration peers, one mode per fault, at any speed.  A byte of a block *)
(* is a number, its position; headers of blocks are left out.              *)
(***************************************************************************)
EXTENDS SessionPolicies, Deadlines, Sequences, SequencesExt, FiniteSets

CONSTANTS BlockSize,          \* bytes of the block of the well-behaved PLC
          UploadChunks,       \* bytes a PLC puts in one upload fragment
          PduLengths,         \* what connections may negotiate
          UploadSafetyLimit,  \* 64 MiB in the code
          MaxFragments,       \* 65536 in the code
          StartRetries,       \* reconnectRetries, with mutating retries allowed
          OperationTimeout, TransferDeadline,
          MaxTime             \* bound: the clock stops there

Overhead == 18                \* header, parameters and data header of a fragment
NoSize == -1

ASSUME BlockTransferAssumption ==
    /\ {BlockSize, UploadSafetyLimit, MaxFragments, StartRetries, MaxTime} \subseteq Nat
    /\ UploadChunks \subseteq Nat \ {0}
    /\ \A length \in PduLengths : length \in Nat /\ length > Overhead
    /\ {OperationTimeout, TransferDeadline} \subseteq Deadline

Bytes(first, last) == [i \in 1 .. last - first + 1 |-> first + i - 1]
Block == Bytes(1, BlockSize)

VARIABLES
    scenario,    \* what is asked and how the PLC behaves; never changes
    pc,          \* the wait the client is at
    up,          \* the client has a connection
    toPlc, toClient,   \* the messages on it
    pdu,         \* negotiated length
    retries,     \* remaining of the start
    transfer,    \* Upload.State or Download.State, and the id or job to answer
    failure,     \* the error being handled: its kind and what it says
    plc,         \* what the PLC knows of this connection
    now, deadline, receiveBy

vars == <<scenario, pc, up, toPlc, toClient, pdu, retries, transfer, failure, plc,
          now, deadline, receiveBy>>

-----------------------------------------------------------------------------
(* Messages                                                                *)

Message(fn) == [fn |-> fn, shape |-> "exact", reference |-> 0, last |-> TRUE,
                data |-> <<>>, size |-> NoSize]

Fragment(last, data) == [Message("upload") EXCEPT !.last = last, !.data = data]
Malformed(message, shape) == [message EXCEPT !.shape = shape]
Job(fn, reference) == [Message(fn) EXCEPT !.reference = reference]

(* What a decoder says of a message: the function first, then its shape.   *)
DecodeFault(message, fn) ==
    IF message.fn # fn THEN "function" ELSE message.shape

-----------------------------------------------------------------------------
(* The PLC: scripts of the integration peers                               *)

LegacyModes == {"upload-invalid-marker", "upload-length-mismatch", "upload-wrong-function"}

DeclaredSize(mode) ==
    CASE mode \in LegacyModes \union {"undeclared", "endless"} -> NoSize
      [] mode = "upload-end-bad-ack"             -> 2
      [] mode = "too-large"                      -> UploadSafetyLimit + 1
      [] OTHER                                   -> BlockSize

(* The fragments a faulty PLC serves; a well-behaved one serves its block. *)
UploadScript(mode, position, chunk) ==
    CASE mode = "upload-invalid-marker"  -> Malformed(Fragment(TRUE, <<1, 2>>), "marker")
      [] mode = "upload-length-mismatch" -> Malformed(Fragment(TRUE, <<1, 2>>), "length")
      [] mode = "upload-wrong-function"  ->
            [Fragment(TRUE, <<1, 2>>) EXCEPT !.fn = "startUpload"]
      [] mode \in {"upload-invalid-flag", "upload-cleanup-bad-ack"} ->
            Malformed(Fragment(TRUE, <<1, 2>>), "flag")
      [] mode = "upload-empty-continuation" -> Fragment(FALSE, <<>>)
      [] mode \in {"upload-short-final", "upload-end-bad-ack"} -> Fragment(TRUE, <<1, 2>>)
      [] mode = "upload-long-final"      -> Fragment(TRUE, Bytes(1, BlockSize + 1))
      [] mode = "upload-more-at-declared-length" -> Fragment(FALSE, Block)
      [] mode = "upload-midstream-short" ->
            IF position = 0 THEN Fragment(FALSE, <<1, 2>>) ELSE Fragment(TRUE, <<3>>)
      [] mode = "upload-midstream-overflow" ->
            IF position = 0 THEN Fragment(FALSE, <<1, 2>>)
                            ELSE Fragment(TRUE, Bytes(3, BlockSize + 1))
      [] mode = "endless" -> Fragment(FALSE, <<position + 1>>)
      [] OTHER ->
            LET last == position + chunk >= BlockSize
            IN  Fragment(last, Bytes(position + 1, IF last THEN BlockSize ELSE position + chunk))

Scripted(mode) ==
    mode \notin {"good", "undeclared", "fragile", "endless", "too-large", "missing-block"}

(* The fragment after which a scripted peer only accepts the END_UPLOAD.   *)
Spoils(mode, position) ==
    Scripted(mode) /\ (position > 0 \/ mode \notin {"upload-midstream-short", "upload-midstream-overflow"})

(* What a request makes of the PLC.  A scripted peer fails when the client *)
(* goes on after the fault.                                                *)
PlcAfter(mode, chunk, request) ==
    CASE request.fn = "startUpload" ->
            [plc EXCEPT !.stage = IF mode = "missing-block" THEN @ ELSE "open"]
      [] request.fn = "upload" ->
            [plc EXCEPT !.stage = IF Spoils(mode, Len(plc.bytes)) THEN "spoiled" ELSE @,
                        !.bytes = @ \o UploadScript(mode, Len(@), chunk).data,
                        !.failed = @ \/ plc.stage # "open"]
      [] request.fn = "endUpload" -> [plc EXCEPT !.stage = "ended"]
      [] request.fn = "requestDownload" ->
            [plc EXCEPT !.stage = IF mode \in {"ack-extra", "ack-data"} THEN "spoiled" ELSE "asking"]
      [] request.fn = "fragment" ->
            [plc EXCEPT !.bytes = @ \o request.data,
                        !.reference = @ + 1,
                        !.stage = "asking",
                        !.closed = mode = "interrupted",
                        !.failed = @ \/ request.reference # plc.reference
                                     \/ plc.stage # "asked"
                                     \/ Len(request.data) + Overhead > pdu]
      [] request.fn = "ended" ->
            [plc EXCEPT !.stage = "ended",
                        !.failed = @ \/ plc.stage # "asked" \/ request.reference # plc.reference]
      [] request.fn = "insert" ->
            [plc EXCEPT !.stage = IF mode = "insert-refused" THEN @ ELSE "inserted",
                        !.failed = @ \/ plc.stage # "ended"]
      [] request.fn = "disconnect" -> plc

PlcReplies(mode, chunk, request) ==
    CASE request.fn = "startUpload" ->
            <<[Message("startUpload") EXCEPT
                   !.size = DeclaredSize(mode),
                   !.shape = IF mode = "missing-block" THEN "refused" ELSE @]>>
      [] request.fn = "upload" -> <<UploadScript(mode, Len(plc.bytes), chunk)>>
      [] request.fn = "endUpload" ->
            <<IF mode \in {"upload-end-bad-ack", "upload-cleanup-bad-ack"}
              THEN Malformed(Message("endUpload"), "extra") ELSE Message("endUpload")>>
      [] request.fn = "requestDownload" ->
            <<IF mode \in {"ack-extra", "ack-data"}
              THEN Malformed(Message("requestDownload"), "extra") ELSE Message("requestDownload")>>
      [] request.fn = "insert" ->
            <<IF mode = "insert-refused"
              THEN Malformed(Message("start"), "refused") ELSE Message("start")>>
      [] OTHER -> <<>>

(* The jobs of a download: a fragment while bytes are missing, the end     *)
(* afterwards; a faulty PLC spoils its first job or asks out of phase.     *)
Complete == Len(plc.bytes) >= BlockSize

PlcJob(mode) ==
    LET fn == IF mode = "early-ended" \/ (Complete /\ mode # "extra-fragment")
              THEN "downloadEnded" ELSE "download"
    IN  CASE mode \in {"wrong-block", "reserved", "truncated"} ->
                Malformed(Job(fn, plc.reference), "address")
          [] mode = "data" -> Malformed(Job(fn, plc.reference), "payload")
          [] OTHER         -> Job(fn, plc.reference)

SpoiledJob(mode) ==
    \/ mode \in {"wrong-block", "reserved", "truncated", "data", "early-ended"}
    \/ mode = "extra-fragment" /\ Complete

UploadModes == LegacyModes \union
    {"good", "undeclared", "missing-block", "fragile", "endless", "too-large", "upload-invalid-flag", "upload-cleanup-bad-ack",
     "upload-empty-continuation", "upload-short-final", "upload-long-final",
     "upload-more-at-declared-length", "upload-midstream-short",
     "upload-midstream-overflow", "upload-end-bad-ack"}

DownloadModes ==
    {"good", "fragile", "invalid", "interrupted", "ack-extra", "ack-data", "wrong-block",
     "reserved", "truncated", "data", "early-ended", "extra-fragment", "insert-refused"}

(* A message that tells of a refusal is not a malformed one.               *)
FaultKind(fault) == IF fault = "refused" THEN "plcRejected" ELSE "protocol"

(* What the integration runs expect the client to report.                  *)
ExpectedUploadReport(mode) ==
    CASE mode = "upload-invalid-marker"     -> "marker"
      [] mode = "upload-length-mismatch"    -> "length"
      [] mode = "upload-wrong-function"     -> "function"
      [] mode = "upload-invalid-flag"       -> "flag"
      [] mode = "upload-empty-continuation" -> "noProgress"
      [] mode \in {"upload-short-final", "upload-midstream-short"}    -> "notDeclaredLength"
      [] mode \in {"upload-long-final", "upload-midstream-overflow"}  -> "exceedsDeclared"
      [] mode = "upload-more-at-declared-length" -> "reachedDeclared"
      [] mode = "upload-end-bad-ack"        -> "extra"
      [] mode = "upload-cleanup-bad-ack"    -> "flag"

ExpectedDownloadKind(mode) ==
    CASE mode = "good"        -> "none"
      [] mode = "interrupted" -> "disconnected"
      [] mode \in {"ack-extra", "ack-data", "wrong-block", "reserved", "truncated", "data",
                   "early-ended", "extra-fragment"} -> "protocol"

-----------------------------------------------------------------------------
(* The client                                                              *)

NoFailure == [kind |-> "none", says |-> "none"]
NewPlc == [stage |-> "idle", closed |-> FALSE, bytes |-> <<>>, reference |-> 0, failed |-> FALSE]

Scenarios ==
    [kind : {"upload"}, mode : UploadModes, chunk : UploadChunks] \union
    [kind : {"download"}, mode : DownloadModes, chunk : {1}]

Init ==
    /\ scenario \in Scenarios
    /\ pc = "begin" /\ up = TRUE /\ toPlc = <<>> /\ toClient = <<>>
    /\ pdu \in PduLengths
    /\ retries = StartRetries
    /\ transfer = [expected |-> NoSize, data |-> <<>>, offset |-> 0, count |-> 0, job |-> 0]
    /\ failure = NoFailure
    /\ plc = NewPlc
    /\ now = 0 /\ deadline = NoDeadline /\ receiveBy = NoDeadline

Uploading == scenario.kind = "upload"

(* closeCurrent sends DISCONNECT to a PLC that is still there.             *)
Close ==
    /\ up' = FALSE
    /\ toPlc' = IF up THEN Append(toPlc, Message("disconnect")) ELSE toPlc
    /\ toClient' = <<>>

(* The outer handler: close the session and report the first error.        *)
Finish(kind, says) ==
    /\ failure' = [kind |-> kind, says |-> says]
    /\ pc' = "failed"
    /\ Close

(* An error while fragments are uploaded goes through the cleanup first.   *)
InUploadLoop == pc \in {"next", "fragment"} /\ Uploading

Refuse(kind, says) ==
    IF InUploadLoop
    THEN /\ failure' = [kind |-> kind, says |-> says]
         /\ pc' = "cleanup"
         /\ UNCHANGED <<up, toPlc, toClient>>
    ELSE Finish(kind, says)

FreshWait == DeadlineAfter(now, OperationTimeout)      \* faulty
WaitUntil == EarlierDeadline(DeadlineAfter(now, OperationTimeout), deadline)

Post(message, wait) ==
    /\ toPlc' = Append(toPlc, message)
    /\ pc' = wait
    /\ receiveBy' = WaitUntil

(* An answer that cannot be accepted after the start of an upload.         *)
AbandonAtOnce(fault) == Finish("protocol", fault)       \* faulty
Abandon(fault) ==
    /\ failure' = [kind |-> "protocol", says |-> fault]
    /\ pc' = "cleanup"
    /\ toClient' = Tail(toClient)
    /\ UNCHANGED <<up, toPlc>>

Answered(next) ==
    /\ pc' = next
    /\ toClient' = Tail(toClient)
    /\ UNCHANGED <<up, toPlc, failure>>

Step(here) == pc = here /\ up

(* downloadBlock checks the header of the block before it starts.          *)
Begin ==
    /\ pc = "begin"
    /\ IF scenario.mode = "invalid"
       THEN /\ Finish("invalidInput", "block")
            /\ UNCHANGED deadline
       ELSE /\ deadline' = DeadlineAfter(now, TransferDeadline)
            /\ pc' = "start"
            /\ UNCHANGED <<up, toPlc, toClient, failure>>
    /\ UNCHANGED <<scenario, pdu, retries, transfer, plc, now, receiveBy>>

SendStart ==
    /\ Step("start") /\ ~Expired(deadline, now)
    /\ Post(Message(IF Uploading THEN "startUpload" ELSE "requestDownload"), "starting")
    /\ UNCHANGED <<scenario, up, toClient, pdu, retries, transfer, failure, plc, now, deadline>>

(* exchangeWithRetries, of the start only: another connection, another PLC *)
(* side of it, and a PDU length that must not shrink.                      *)
StartFails(kind) ==
    LET budget == RetryBudgetAfter(retries, FALSE, kind, "potentiallyMutating", TRUE)
    IN  IF budget = NoRetry
        THEN Finish(kind, "start") /\ UNCHANGED retries
        ELSE /\ Close
             /\ retries' = budget
             /\ pc' = "reconnect"
             /\ UNCHANGED failure

Reconnect ==
    /\ pc = "reconnect" /\ ~Expired(deadline, now)
    /\ \E length \in PduLengths :
          /\ length >= pdu
          /\ pdu' = length
    /\ up' = TRUE /\ pc' = "start"
    /\ toPlc' = <<>> /\ toClient' = <<>> /\ plc' = NewPlc
    /\ UNCHANGED <<scenario, retries, transfer, failure, now, deadline, receiveBy>>

ReconnectFails ==
    /\ pc = "reconnect"
    /\ \/ Expired(deadline, now) /\ StartFails("timeout")
       \/ ~Expired(deadline, now) /\ \E kind \in {"transport", "protocol"} : StartFails(kind)
    /\ UNCHANGED <<scenario, pdu, transfer, plc, now, deadline, receiveBy>>

(* Upload.start; or the acknowledgement of a download.                     *)
ReceiveStart(reply) ==
    LET fault == DecodeFault(reply, IF Uploading THEN "startUpload" ELSE "requestDownload")
    IN  IF fault # "exact"
        THEN Finish(FaultKind(fault), fault) /\ UNCHANGED transfer
        ELSE /\ transfer' = [transfer EXCEPT !.expected = reply.size]
             /\ IF reply.size > UploadSafetyLimit
                THEN Abandon("tooLarge")
                ELSE Answered(IF Uploading THEN "next" ELSE "job")

-----------------------------------------------------------------------------
(* Upload                                                                  *)

RequestFragment ==
    /\ Step("next") /\ Uploading
    /\ transfer.count < MaxFragments /\ ~Expired(deadline, now)
    /\ Post(Message("upload"), "fragment")
    /\ UNCHANGED <<scenario, up, toClient, pdu, retries, transfer, failure, plc, now, deadline>>

(* The recursion over fragments is cut off, in both directions.            *)
TooMany == transfer.count >= MaxFragments /\ (Uploading \/ transfer.offset < BlockSize)

TooManyFragments ==
    /\ up /\ pc \in {"next", "job"} /\ TooMany
    /\ Refuse("protocol", "tooManyFragments")
    /\ UNCHANGED <<scenario, pdu, retries, transfer, plc, now, deadline, receiveBy>>

(* Upload.accept, whose checks are in this order.                          *)
AcceptFault(reply) ==
    LET size == Len(transfer.data) + Len(reply.data)
        declared == transfer.expected # NoSize
    IN  IF ~reply.last /\ reply.data = <<>>                            THEN "noProgress"
        ELSE IF declared /\ size > transfer.expected                   THEN "exceedsDeclared"
        ELSE IF declared /\ reply.last /\ size # transfer.expected     THEN "notDeclaredLength"
        ELSE IF declared /\ ~reply.last /\ size = transfer.expected    THEN "reachedDeclared"
        ELSE IF size > UploadSafetyLimit                               THEN "tooLarge"
        ELSE "exact"

LatestOnly(reply) == reply.data                         \* faulty
Assembled(reply)  == transfer.data \o reply.data

ReceiveFragment(reply) ==
    LET fault == IF DecodeFault(reply, "upload") # "exact"
                 THEN DecodeFault(reply, "upload") ELSE AcceptFault(reply)
    IN  IF fault # "exact"
        THEN Abandon(fault) /\ UNCHANGED transfer
        ELSE /\ transfer' = [transfer EXCEPT !.data = Assembled(reply), !.count = @ + 1]
             /\ Answered(IF reply.last THEN "end" ELSE "next")

(* END_UPLOAD, after the last fragment or as the cleanup of a failure.     *)
EndUpload ==
    /\ up /\ pc \in {"end", "cleanup"} /\ ~Expired(deadline, now)
    /\ Post(Message("endUpload"), IF pc = "end" THEN "ending" ELSE "cleaning")
    /\ UNCHANGED <<scenario, up, toClient, pdu, retries, transfer, failure, plc, now, deadline>>

(* The cleanup is given up without a session or beyond the budget; its own *)
(* errors are swallowed.                                                   *)
SkipCleanup ==
    /\ pc = "cleanup" /\ (~up \/ Expired(deadline, now))
    /\ Finish(failure.kind, failure.says)
    /\ UNCHANGED <<scenario, pdu, retries, transfer, plc, now, deadline, receiveBy>>

CleanupFault(reply) ==                                  \* faulty
    IF DecodeFault(reply, "endUpload") = "exact" THEN failure.says
    ELSE DecodeFault(reply, "endUpload")
OriginalFault(reply) == failure.says

ReceiveEnd(reply) ==
    IF pc = "cleaning" THEN Finish(failure.kind, OriginalFault(reply))
    ELSE IF DecodeFault(reply, "endUpload") # "exact"
    THEN Finish("protocol", DecodeFault(reply, "endUpload"))
    ELSE IF transfer.expected # NoSize /\ Len(transfer.data) # transfer.expected
    THEN Finish("protocol", "notDeclaredLength")
    ELSE Answered("done")

-----------------------------------------------------------------------------
(* Download                                                                *)

(* receiveServerJob and validateDownloadServiceRequest, then the next      *)
(* slice, or the end once all is sent.                                     *)
AwaitJob ==
    /\ Step("job") /\ ~TooMany /\ ~Expired(deadline, now)
    /\ pc' = IF transfer.offset < BlockSize THEN "fragmentJob" ELSE "endJob"
    /\ receiveBy' = WaitUntil
    /\ UNCHANGED <<scenario, up, toPlc, toClient, pdu, retries, transfer, failure, plc, now, deadline>>

ReceiveJob(job) ==
    LET fault == DecodeFault(job, IF pc = "fragmentJob" THEN "download" ELSE "downloadEnded")
    IN  IF fault # "exact"
        THEN Finish("protocol", fault) /\ UNCHANGED transfer
        ELSE /\ Answered(IF pc = "fragmentJob" THEN "slice" ELSE "ended")
             /\ transfer' = [transfer EXCEPT !.job = job.reference]

Smaller(a, b) == IF a <= b THEN a ELSE b
NextOffset == Smaller(BlockSize, transfer.offset + (pdu - Overhead))

SendSlice ==
    /\ Step("slice") /\ ~Expired(deadline, now)
    /\ toPlc' = Append(toPlc, [Message("fragment") EXCEPT
                    !.reference = transfer.job,
                    !.last = NextOffset = BlockSize,
                    !.data = Bytes(transfer.offset + 1, NextOffset)])
    /\ transfer' = [transfer EXCEPT !.offset = NextOffset, !.count = @ + 1]
    /\ pc' = "job"
    /\ UNCHANGED <<scenario, up, toClient, pdu, retries, failure, plc, now, deadline, receiveBy>>

(* The answer to DOWNLOAD_ENDED, then the request to insert the block.     *)
SendEnded ==
    /\ Step("ended") /\ ~Expired(deadline, now)
    /\ toPlc' = Append(toPlc, [Message("ended") EXCEPT !.reference = transfer.job])
    /\ pc' = "insert"
    /\ UNCHANGED <<scenario, up, toClient, pdu, retries, transfer, failure, plc, now, deadline, receiveBy>>

SendInsert ==
    /\ Step("insert") /\ ~Expired(deadline, now)
    /\ Post(Message("insert"), "inserting")
    /\ UNCHANGED <<scenario, up, toClient, pdu, retries, transfer, failure, plc, now, deadline>>

ReceiveInsert(reply) ==
    IF DecodeFault(reply, "start") # "exact"
    THEN Finish(FaultKind(DecodeFault(reply, "start")), DecodeFault(reply, "start"))
    ELSE Answered("done")

-----------------------------------------------------------------------------
(* Receiving, and what ends a wait without a message                       *)

Waits == {"starting", "fragment", "ending", "cleaning", "fragmentJob", "endJob", "inserting"}

Receive ==
    /\ pc \in Waits /\ up /\ toClient # <<>> /\ ~Expired(receiveBy, now)
    /\ LET reply == Head(toClient)
       IN  \/ pc = "starting" /\ ReceiveStart(reply)
           \/ pc = "fragment" /\ ReceiveFragment(reply)
           \/ pc \in {"ending", "cleaning"} /\ ReceiveEnd(reply) /\ UNCHANGED transfer
           \/ pc \in {"fragmentJob", "endJob"} /\ ReceiveJob(reply)
           \/ pc = "inserting" /\ ReceiveInsert(reply) /\ UNCHANGED transfer
    /\ UNCHANGED <<scenario, pdu, retries, plc, now, deadline, receiveBy>>

(* A failure of an exchange closes the session at once, so that a cleanup  *)
(* after it finds none.                                                    *)
ExchangeFails(kind) ==
    /\ \/ pc \in {"start", "starting"} /\ StartFails(kind)
       \/ /\ pc \in {"next", "fragment"}
          /\ Close
          /\ failure' = [kind |-> kind, says |-> "exchange"]
          /\ pc' = "cleanup"
          /\ UNCHANGED retries
       \/ /\ pc \in {"cleaning"}
          /\ Finish(failure.kind, failure.says)
          /\ UNCHANGED retries
       \/ /\ pc \in {"end", "ending", "job", "fragmentJob", "endJob", "slice", "ended",
                     "insert", "inserting"}
          /\ Finish(kind, "exchange")
          /\ UNCHANGED retries
    /\ UNCHANGED <<scenario, pdu, transfer, plc, now, deadline, receiveBy>>

JobsWaitForever ==                                      \* faulty
    /\ pc \in Waits \ {"fragmentJob", "endJob"} /\ up /\ Expired(receiveBy, now)
    /\ ExchangeFails("timeout")
ReceiveTimesOut == pc \in Waits /\ up /\ Expired(receiveBy, now) /\ ExchangeFails("timeout")
BudgetSpent     == pc \notin Waits /\ up /\ Expired(deadline, now)
                   /\ ~(pc \in {"next", "job"} /\ TooMany) /\ ExchangeFails("timeout")
PeerClosed      == pc \in Waits /\ up /\ toClient = <<>> /\ plc.closed
                   /\ ExchangeFails("disconnected")

-----------------------------------------------------------------------------
(* The PLC and the clock                                                   *)

PlcServes ==
    /\ toPlc # <<>> /\ ~plc.closed
    /\ plc' = PlcAfter(scenario.mode, scenario.chunk, Head(toPlc))
    /\ toPlc' = Tail(toPlc)
    /\ toClient' = IF up THEN toClient \o PlcReplies(scenario.mode, scenario.chunk, Head(toPlc))
                         ELSE <<>>
    /\ UNCHANGED <<scenario, pc, up, pdu, retries, transfer, failure, now, deadline, receiveBy>>

PlcAsks ==
    /\ up /\ plc.stage = "asking" /\ ~plc.closed
    /\ toClient' = Append(toClient, PlcJob(scenario.mode))
    /\ plc' = [plc EXCEPT !.stage = IF SpoiledJob(scenario.mode) THEN "spoiled" ELSE "asked"]
    /\ UNCHANGED <<scenario, pc, up, toPlc, pdu, retries, transfer, failure, now, deadline, receiveBy>>

PlcCloses ==
    /\ scenario.mode = "fragile" /\ up /\ ~plc.closed
    /\ plc' = [plc EXCEPT !.closed = TRUE]
    /\ UNCHANGED <<scenario, pc, up, toPlc, toClient, pdu, retries, transfer, failure,
                   now, deadline, receiveBy>>

(* The clock starts with the transfer.                                     *)
Tick ==
    /\ now < MaxTime /\ pc # "begin"
    /\ now' = now + 1
    /\ UNCHANGED <<scenario, pc, up, toPlc, toClient, pdu, retries, transfer, failure, plc,
                   deadline, receiveBy>>

ClientStep ==
    \/ Begin \/ SendStart \/ Reconnect \/ ReconnectFails
    \/ RequestFragment \/ TooManyFragments \/ EndUpload \/ SkipCleanup
    \/ AwaitJob \/ SendSlice \/ SendEnded \/ SendInsert
    \/ Receive \/ ReceiveTimesOut \/ BudgetSpent \/ PeerClosed

Next == ClientStep \/ PlcServes \/ PlcAsks \/ PlcCloses \/ Tick

Spec == Init /\ [][Next]_vars
FairSpec == Spec /\ WF_vars(ClientStep) /\ WF_vars(Tick)

-----------------------------------------------------------------------------
(* Properties                                                              *)

Stages == {"idle", "open", "spoiled", "asking", "asked", "ended", "inserted"}

(* Every variable has its type: the state the client keeps of a transfer   *)
(* and the one the PLC keeps of it.                                        *)
TypeOK ==
    /\ scenario \in Scenarios
    /\ up \in BOOLEAN /\ pdu \in PduLengths /\ retries \in 0 .. StartRetries
    /\ transfer.offset \in 0 .. BlockSize
    /\ Len(transfer.data) <= UploadSafetyLimit /\ transfer.count <= MaxFragments
    /\ failure.kind \in ErrorKinds \union {"none"}
    /\ plc.stage \in Stages /\ {plc.closed, plc.failed} \subseteq BOOLEAN
    /\ now \in 0 .. MaxTime /\ {deadline, receiveBy} \subseteq Deadline

Ended == pc \in {"done", "failed"}

(* All or nothing: an upload returns every byte the PLC served, in order,  *)
(* as many as declared, and only after the PLC ended it; the PLC inserts   *)
(* only a complete block, gets nothing but its prefix before, and a        *)
(* download that succeeds has been inserted.                               *)
WholeBlock ==
    /\ TypeOK
    /\ Uploading /\ pc = "done" =>
          /\ plc.stage = "ended" /\ transfer.data = plc.bytes
          /\ transfer.expected \in {NoSize, Len(transfer.data)}
          /\ scenario.mode \in {"good", "undeclared"} => transfer.data = Block
    /\ ~Uploading =>
          /\ IsPrefix(plc.bytes, Block)
          /\ plc.stage = "inserted" => plc.bytes = Block
          /\ pc = "done" => plc.stage = "inserted"

(* uploadBlockValue ends the upload that it gives up on a live session: an *)
(* END_UPLOAD is at the PLC, or on its way there before the disconnect.    *)
GivenUpIsEnded ==
    Uploading /\ pc = "failed" /\ failure.says \notin {"start", "exchange", "refused"} /\ ~Expired(deadline, now) =>
        \/ plc.stage = "ended" \/ plc.closed
        \/ \E i \in DOMAIN toPlc : toPlc[i].fn = "endUpload"

(* A scripted fault is reported as the integration runs expect it, also    *)
(* when the cleanup fails as well, unless time ran out or the start was    *)
(* lost first; and the client does nothing that its peer does not expect.  *)
ReportsTheFault ==
    /\ ~plc.failed
    /\ Ended /\ failure.kind # "timeout" /\ failure.says \notin {"start", "tooManyFragments"} =>
          /\ Uploading /\ Scripted(scenario.mode) =>
                failure = [kind |-> "protocol", says |-> ExpectedUploadReport(scenario.mode)]
          /\ ~Uploading /\ scenario.mode \notin {"fragile", "invalid", "insert-refused"} =>
                failure.kind = ExpectedDownloadKind(scenario.mode)

(* One absolute budget for the whole transfer: nothing is sent to the PLC  *)
(* and no answer accepted once it is spent, whichever exchange is running. *)
Sends   == Len(toPlc') > Len(toPlc) /\ up'
Accepts == Len(toClient') < Len(toClient) /\ up'
OneBudget == [][(Sends \/ Accepts) /\ pc # "begin" => ~Expired(deadline, now)]_vars

(* With an operation timeout every transfer ends, whatever the PLC does.   *)
TransferEnds == <>Ended
=============================================================================
