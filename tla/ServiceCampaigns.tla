-------------------------- MODULE ServiceCampaigns --------------------------
(***************************************************************************)
(* The campaigns about services and transfers: answers in fragments, those *)
(* of one answer, uploads that fail half way, budgets that several slow    *)
(* requests share, and the single conversations of the integration driver. *)
(***************************************************************************)
EXTENDS SequenceCampaigns

Asked(fn, replies) == Expect(Body(fn, <<>>), replies)
Withheld(request)  == [request EXCEPT !.replies = <<>>]
Serving(fn)        == Call(<<Service(fn)>>)
LateSzl            == Expecting(Serving("szl"), "disconnected")
Outcome(ok)        == IF ok THEN "ok" ELSE "protocol"

-----------------------------------------------------------------------------
(* userdata_completion.py: a service with one answer gets the first of     *)
(* several.                                                                *)

SingleServices == {"readClock", "blocks", "setClock", "setPassword", "clearPassword"}

CompletionCases ==
    {[Conversing("userdata-completion " \o service \o mode,
        Handshake(240)
          \o <<Asked(service, <<[Granting(<<Success>>) EXCEPT !.more = mode = "incomplete"]>>),
               Disconnected, NoMoreIn(300)>>,
        <<Expecting(Serving(service), Outcome(mode = "complete"))>>
          \o (IF mode = "complete" THEN <<>>
              ELSE <<Expecting(Call(<<Write(0, 1, <<99>>)>>), "disconnected")>>))
        EXCEPT !.retries = 1, !.allow = TRUE, !.op = 1000] :
        service \in SingleServices, mode \in {"complete", "incomplete"}}

-----------------------------------------------------------------------------
(* userdata_assurance.py: fragments with opaque tokens, and null answers.  *)

Tokens == <<255, 1, 1, 128>>
FragmentScenarios ==
    {"valid", "zero-unit", "stale-reference", "wrong-group", "wrong-subfunction", "changed-unit",
     "invalid-flag", "wrong-transport"}
NullScenarios == {"valid", "octet-ack", "nonempty-null", "wrong-null-transport", "continuing-null"}

FragmentReply(scenario, index) ==
    LET unit == IF scenario = "zero-unit" THEN 0 ELSE 81
        plain == [Telling(<<index>>) EXCEPT !.more = index < 4, !.unit = unit, !.token = Tokens[index]]
    IN  CASE index = 2 /\ scenario = "stale-reference" -> [plain EXCEPT !.delta = 0 - 1]
          [] index = 2 /\ scenario = "changed-unit"    -> [plain EXCEPT !.unit = unit + 1]
          [] index = 2 /\ scenario \in {"wrong-group", "wrong-subfunction", "invalid-flag", "wrong-transport"}
                -> [plain EXCEPT !.verdict = "wrong"]
          [] OTHER -> plain

FragmentRequest(service, index) ==
    IF index = 1 THEN Body(service, <<>>) ELSE Continuing(service, Tokens[index - 1])

FragmentConversation(service, scenario) ==
    LET ok == scenario \in {"valid", "zero-unit"}
    IN  [Conversing("userdata-assurance " \o service \o scenario,
            Handshake(240)
              \o [index \in 1 .. (IF ok THEN 4 ELSE 2) |->
                    Expect(FragmentRequest(service, index), <<FragmentReply(scenario, index)>>)]
              \o <<Closed, NoMoreIn(100)>>,
            IF ok THEN <<Returning(Serving(service), <<1, 2, 3, 4>>)>>
            ELSE <<Expecting(Serving(service), "protocol"), LateSzl>>)
           EXCEPT !.retries = 1, !.op = 1000, !.transfer = 2000,
                  !.stale = IF scenario = "stale-reference" THEN 0 ELSE 4]

NullConversation(service, scenario) ==
    LET ok == scenario \in {"valid", "octet-ack"}
        reply == CASE ok -> Granting(<<Success>>)
                   [] scenario = "continuing-null" -> [Granting(<<Success>>) EXCEPT !.more = TRUE]
                   [] scenario \in {"nonempty-null", "wrong-null-transport"} -> Wrong
    IN  [Conversing("userdata-assurance " \o service \o scenario,
            Handshake(240) \o <<Asked(service, <<reply>>), Closed, NoMoreIn(100)>>,
            <<Expecting(Serving(service), Outcome(ok))>> \o (IF ok THEN <<>> ELSE <<LateSzl>>))
           EXCEPT !.retries = 1, !.op = 1000, !.stale = 4]

AssuranceCases ==
    {FragmentConversation(service, scenario) :
        service \in {"szl", "blocksOfType"}, scenario \in FragmentScenarios}
    \union {NullConversation(service, scenario) :
        service \in {"setClock", "setPassword", "clearPassword"}, scenario \in NullScenarios}

-----------------------------------------------------------------------------
(* clock_assurance.py: the millisecond digits of a clock; and              *)
(* block_info_identity.py: an answer names the block it is about, and      *)
(* numbers that cannot be asked for take no reference.                     *)

ClockCases ==
    {[Conversing("clock-assurance" \o ToString(digit),
        Handshake(240) \o <<Asked("readClock", <<IF digit < 10 THEN Telling(<<digit>>) ELSE Wrong>>),
                            Disconnected, NoMore>>,
        IF digit < 10 THEN <<Returning(Serving("readClock"), <<digit>>)>>
        ELSE <<Expecting(Serving("readClock"), "protocol"), LateRead>>)
        EXCEPT !.retries = 1, !.op = 1000] : digit \in 0 .. 15}

IdentityCases ==
    {LET matches == scenario # "mismatch"
     IN  [Conversing("block-info-identity " \o scenario,
            Handshake(240)
              \o <<Numbered(Asked("blockInfo", <<IF matches THEN Granting(<<Success>>) ELSE Wrong>>),
                            StartReference),
                   Closed, NoMoreIn(200)>>,
            (IF scenario = "preflight" THEN Times(3, Expecting(Serving("invalid"), "invalidInput")) ELSE <<>>)
              \o <<Expecting(Serving("blockInfo"), Outcome(matches))>>
              \o (IF matches THEN <<>> ELSE <<Expecting(Serving("blockInfo"), "disconnected")>>))
            EXCEPT !.retries = 2, !.op = 1000, !.reference = StartReference] :
        scenario \in {"zero", "max", "opaque", "mismatch", "preflight"}}

-----------------------------------------------------------------------------
(* stateful_faults.py: a transfer that ends at each of its phases.         *)

UploadCall == [Call(<<Service("startUpload"), Service("upload"), Service("endUpload")>>)
                 EXCEPT !.cleanup = "endUpload"]
UploadStart == Asked("startUpload", <<Granting(<<Success>>)>>)
UploadFragment(k, last) == Asked("upload", <<[Telling(<<k>>) EXCEPT !.more = k < last]>>)
UploadEnd == Asked("endUpload", <<Granting(<<Success>>)>>)

SzlFragment(k, last) ==
    Expect(IF k = 1 THEN Body("szl", <<>>) ELSE Continuing("szl", 7),
           <<[Telling(<<k>>) EXCEPT !.more = k < last, !.token = 7]>>)

Phases(operation) ==
    IF operation = "upload" THEN <<UploadStart>> \o [k \in 1 .. 4 |-> UploadFragment(k, 4)] \o <<UploadEnd>>
    ELSE [k \in 1 .. 4 |-> SzlFragment(k, 4)]

StatefulScript(operation, phase, mutation) ==
    LET phases == Phases(operation)
        faulty == phases[phase]
        cleaned == operation = "upload" /\ phase \in 2 .. 5
    IN  Handshake(240) \o SubSeq(phases, 1, phase - 1) \o
        (IF mutation = "disconnect" THEN <<Withheld(faulty), Close>>
         ELSE <<[faulty EXCEPT !.replies = <<Wrong>>]>>
                \o (IF cleaned THEN <<UploadEnd>> ELSE <<>>) \o <<Disconnected>>)

(* The raw transfer of the last one is fine: its block is not.             *)
StatefulCases ==
    {[Conversing("stateful-faults " \o operation \o mutation \o ToString(phase),
        StatefulScript(operation, phase, mutation),
        <<Expecting(IF operation = "upload" THEN UploadCall ELSE Serving("szl"),
                    IF mutation = "disconnect" THEN "disconnected" ELSE "protocol")>>)
        EXCEPT !.op = 500, !.transfer = 2000] :
        operation \in {"upload"}, phase \in 1 .. 6, mutation \in {"disconnect", "wrong-service"}}
    \union
    {[Conversing("stateful-faults szl" \o mutation \o ToString(phase),
        StatefulScript("szl", phase, mutation),
        <<Expecting(Serving("szl"), IF mutation = "disconnect" THEN "disconnected" ELSE "protocol")>>)
        EXCEPT !.op = 500, !.transfer = 2000] :
        phase \in 1 .. 4, mutation \in {"disconnect", "wrong-service"}}
    \union
    {[Conversing("stateful-faults compact",
        Handshake(240) \o SubSeq(Phases("upload"), 1, 5)
          \o <<[UploadEnd EXCEPT !.replies = <<Wrong>>], Disconnected>>,
        <<Expecting(UploadCall, "protocol")>>) EXCEPT !.op = 500, !.transfer = 2000]}

-----------------------------------------------------------------------------
(* transfer_deadlines.py and extended_deadlines.py: a slow peer, and the   *)
(* budgets of an exchange and of the whole transfer.                       *)

Budget(op, transfer, interval, kind) ==
    [op |-> op, transfer |-> transfer, interval |-> interval, kind |-> kind]

TransferBudgets(operation) ==
    {Budget(250, 0, 0, "timeout"), Budget(250, 420, 150, "timeout"), Budget(120, 600, 250, "timeout"),
     Budget(120, NoDeadline, 250, "timeout"), Budget(1000, 2000, 15, "ok"),
     Budget(1000, NoDeadline, 150, "ok")}
      \union (IF operation = "upload" THEN {Budget(250, 700, 150, "timeout")} ELSE {})

Paced(request, interval) == <<Withheld(request), Pause(interval), Answer(request.replies)>>
PacedAll(requests, interval) == FlattenSeq([k \in DOMAIN requests |-> Paced(requests[k], interval)])

SlowFragments(service) ==
    [k \in 1 .. 4 |-> [SzlFragment(k, 4) EXCEPT !.body.fn = service]]

TransferScript(operation, budget) ==
    Handshake(480) \o
    (IF budget.transfer = 0 THEN <<>>
     ELSE IF operation = "upload"
          THEN <<UploadStart>> \o PacedAll(Tail(Phases("upload")), budget.interval)
          ELSE PacedAll(SlowFragments(operation), budget.interval))
      \o <<Disconnected>>

Budgeted(conversing, budget) ==
    [conversing EXCEPT !.op = budget.op, !.transfer = budget.transfer]

TransferDeadlineCases ==
    UNION {{Budgeted(
        Conversing("transfer-deadlines " \o operation
                     \o ToString(<<budget.op, budget.transfer, budget.interval>>),
                   TransferScript(operation, budget),
                   <<Expecting(IF operation = "upload" THEN UploadCall ELSE Serving(operation), budget.kind)>>),
        budget) : budget \in TransferBudgets(operation)} :
            operation \in {"upload", "szl", "blocksOfType"}}

MemoryOperations == {"read", "write", "readmulti", "writemulti"}
FirstRetries     == {"read-retry", "write-retry"}
LaterRetries     == {"read-continuation-retry", "write-continuation-retry"}
InvalidRanges    == {"read-invalid-range", "write-invalid-range"}

MemoryBudgets(operation) ==
    CASE operation \in InvalidRanges -> {Budget(250, 600, 0, "invalidInput")}
      [] operation \in LaterRetries  -> {Budget(120, 600, 250, "timeout")}
      [] operation \in FirstRetries  -> {Budget(1000, 420, 230, "timeout"), Budget(1000, 2000, 10, "ok")}
      [] operation \in MemoryOperations ->
            {Budget(250, 420, 150, "timeout"), Budget(1000, 2000, 10, "ok"), Budget(250, 0, 0, "timeout"),
             Budget(120, NoDeadline, 250, "timeout"), Budget(1000, NoDeadline, 150, "ok")}

WritesMemory(operation) ==
    operation \in {"write", "writemulti", "write-retry", "write-continuation-retry", "write-invalid-range"}

MemoryRequests(operation) ==
    CASE operation \in {"readmulti", "writemulti"} ->
            FlattenSeq([k \in 1 .. 4 |->
                IF WritesMemory(operation) THEN WrittenIn(240, (k - 1) * 200, 200, <<170>>)
                ELSE ReadIn(240, (k - 1) * 200, 200)])
      [] operation \notin {"readmulti", "writemulti"} ->
            IF WritesMemory(operation) THEN WrittenIn(240, 0, 1000, <<170>>) ELSE ReadIn(240, 0, 1000)

MemoryScript(operation, budget) ==
    LET requests == MemoryRequests(operation)
        first == requests[1]
        served == PacedAll(requests, budget.interval)
    IN  Handshake(240) \o
        CASE operation \in InvalidRanges \/ budget.transfer = 0 -> <<Disconnected>>
          [] operation \in FirstRetries ->
                <<Withheld(first), Pause(230), Close>> \o Handshake(240)
                  \o <<Again(Withheld(first)), Pause(budget.interval)>>
                  \o (IF budget.interval >= 200 THEN <<Refuse>>
                      ELSE <<Answer(first.replies)>> \o SubSeq(served, 4, Len(served)) \o <<Disconnected>>)
          [] operation \in LaterRetries ->
                Paced(first, 10) \o SubSeq(served, 4, Len(served)) \o <<Disconnected>>
          [] OTHER -> served \o <<Disconnected>>

MemoryCall(operation) ==
    LET start == IF operation \in InvalidRanges THEN Unaddressable - 101 ELSE 0
        Area(at, count) == IF WritesMemory(operation) THEN Write(at, count, <<170>>) ELSE Read(at, count)
    IN  IF operation \in {"readmulti", "writemulti"} THEN Multi([k \in 1 .. 4 |-> Area((k - 1) * 200, 200)])
        ELSE Call(<<Area(start, 1000)>>)

ExtendedDeadlineCases ==
    UNION {{[Budgeted(
        Conversing("extended-deadlines " \o operation
                     \o ToString(<<budget.op, budget.transfer, budget.interval>>),
                   MemoryScript(operation, budget) \o <<NoMoreIn(50)>>,
                   <<Expecting(MemoryCall(operation), budget.kind)>>),
        budget) EXCEPT !.retries = IF operation \in FirstRetries \union LaterRetries THEN 1 ELSE 0,
                       !.allow = operation = "write-retry",
                       !.connections = IF operation \in FirstRetries THEN 2 ELSE 1] :
            budget \in MemoryBudgets(operation)} :
        operation \in MemoryOperations \union FirstRetries \union LaterRetries \union InvalidRanges}

-----------------------------------------------------------------------------
(* timeout_cleanup.py and the handshakes of run.py that must fail.         *)

Attempt == <<Lifecycle("connect"), Lifecycle("disconnect")>>
FailedAttempt(kind) == <<Expecting(Lifecycle("connect"), kind)>>
RefusedAttempt == <<Accept, ExpectCr(<<Wrong>>), OnlyClosed>>

RepeatedScript(index) ==
    IF index % 3 = 2 THEN RefusedAttempt ELSE Handshake(240) \o <<Disconnected>>
RepeatedCalls(index) == IF index % 3 = 2 THEN FailedAttempt("protocol") ELSE Attempt
StalledScript(index) == <<Accept, ExpectCr(<<>>), OnlyClosed>>
StalledCalls(index) == FailedAttempt("timeout")

CleanupCases ==
    {[Conversing("timeout-cleanup repeated", Repeat(24, RepeatedScript), <<>>)
        EXCEPT !.calls = Repeat(24, RepeatedCalls), !.connections = 24],
     [Conversing("timeout-cleanup stalled", Repeat(4, StalledScript), <<>>)
        EXCEPT !.calls = Repeat(4, StalledCalls), !.connections = 4, !.op = 100]}

AtSetup == {"pdu-too-small", "pdu-exceeds-tpdu"}

HandshakeRejectionCases ==
    {[Conversing("handshake-rejection " \o mode,
        IF mode \in AtSetup
        THEN <<Accept, ExpectCr(<<Reply>>), ExpectSetup(<<[Wrong EXCEPT !.pdu = IF mode = "pdu-too-small"
                                                                                THEN 239 ELSE 480]>>), Close>>
        ELSE <<Accept, ExpectCr(<<Wrong>>), Close>>, <<>>)
        EXCEPT !.calls = FailedAttempt("protocol")] :
        mode \in AtSetup \union {"wrong-reference", "wrong-class", "oversized-tpdu"}}

-----------------------------------------------------------------------------
(* run.py: services that are rejected, and transports that fail.           *)

SzlFaults == {"szl-wrong-group", "szl-invalid-flag-two", "szl-invalid-flag-ff", "szl-truncated-payload",
              "szl-invalid-final-records", "userdata-invalid-final-entries"}

EndlessFragment(k) ==
    Expect(IF k = 1 THEN Body("szl", <<>>) ELSE Continuing("szl", k - 2),
           <<[Telling(<<0>>) EXCEPT !.more = TRUE, !.token = k - 1]>>)

RejectionConversation(mode, service, script, kind) ==
    [Conversing("service-rejection " \o mode, Handshake(480) \o script, <<Expecting(Serving(service), kind)>>)
       EXCEPT !.op = 500, !.retries = IF kind = "plcRejected" THEN 1 ELSE 0]

ServiceRejectionCases ==
    {LET service == IF mode = "userdata-invalid-final-entries" THEN "blocksOfType" ELSE "szl"
     IN  RejectionConversation(mode, service, <<Asked(service, <<Wrong>>), Close>>, "protocol") :
        mode \in SzlFaults}
    \union {RejectionConversation("szl-plc-error", "szl", <<Asked("szl", <<Refusing>>), NoMoreIn(500), Close>>,
                                  "plcRejected"),
            RejectionConversation("szl-endless-fragments", "szl",
                                  [k \in 1 .. FragmentLimit |-> EndlessFragment(k)] \o <<Close>>, "protocol")}

LongAnswer == Telling(<<170>>)
StaleAnswer == [LongAnswer EXCEPT !.delta = 1]

(* A piece that completes no answer is time spent.                         *)
Pieces(n, interval) == Times(n, Pause(interval))
StalePieces(k) == <<Pause(100), Answer(<<StaleAnswer>>)>>

TransportScript(mode) ==
    LET count == IF mode \in {"exact-budget", "fragmented-tcp"} THEN 462 ELSE 4
        Read4(replies) == <<Expect(Body("read", <<Piece(0, count, <<>>)>>), replies)>>
    IN  CASE mode \in {"single-overflow", "cumulative-overflow"} -> Read4(<<Wrong>>) \o <<Closed>>
          [] mode = "missing-eot"      -> Read4(<<>>) \o <<Closed>>
          [] mode = "truncated-header" -> Read4(<<>>) \o <<Close>>
          [] mode = "stale-flood"      -> Read4(Times(5, StaleAnswer)) \o <<Closed, NoMoreIn(500)>>
          [] mode = "exact-budget"     -> Read4(<<LongAnswer>>) \o <<Closed>>
          [] mode = "fragmented-tcp"   -> Read4(<<>>) \o Pieces(4, 10) \o <<Answer(<<LongAnswer>>), Closed>>
          [] mode = "drip-header"      -> Read4(<<>>) \o Pieces(29, 100) \o <<Answer(<<LongAnswer>>), Closed>>
          [] mode = "drip-body"        -> Read4(<<>>) \o Pieces(25, 100) \o <<Answer(<<LongAnswer>>), Closed>>
          [] mode = "drip-segments"    -> Read4(<<>>) \o Pieces(9, 100) \o <<Answer(<<LongAnswer>>), Closed>>
          [] mode = "drip-stale"       ->
                Read4(<<>>) \o Repeat(4, StalePieces) \o <<Pause(100), Answer(<<LongAnswer>>), Closed>>

TransportKind(mode) ==
    CASE mode \in {"exact-budget", "fragmented-tcp"} -> "ok"
      [] mode \in {"single-overflow", "cumulative-overflow", "stale-flood"} -> "protocol"
      [] mode = "truncated-header" -> "disconnected"
      [] mode \in {"missing-eot", "drip-header", "drip-body", "drip-segments", "drip-stale"} -> "timeout"

TransportCases ==
    {LET ok == TransportKind(mode) = "ok"
     IN  [Conversing("transport " \o mode, Handshake(480) \o TransportScript(mode),
            <<Expecting(Call(<<Read(0, IF ok THEN 462 ELSE 4)>>), TransportKind(mode))>>)
            EXCEPT !.op = IF ok THEN 5000 ELSE 300, !.stale = 4,
                   !.retries = IF mode = "stale-flood" THEN 1 ELSE 0] :
        mode \in {"exact-budget", "fragmented-tcp", "single-overflow", "cumulative-overflow", "missing-eot",
                  "truncated-header", "stale-flood", "drip-header", "drip-body", "drip-segments", "drip-stale"}}

-----------------------------------------------------------------------------
(* run.py: one conversation each about reconnections and references.       *)

ReadFour(replies) == Expect(Body("read", <<Piece(0, 4, <<>>)>>), replies)

ReconnectShrink ==
    [Conversing("reconnect-shrink",
        Handshake(480) \o <<Expect(Body("read", <<Piece(0, 300, <<>>)>>), <<>>), Close>>
          \o Handshake(240) \o <<Disconnected>>,
        <<Expecting(Call(<<Read(0, 300)>>), "protocol")>>)
       EXCEPT !.op = 500, !.retries = 1, !.connections = 2]

ReconnectRecovery ==
    [Conversing("reconnect-recovery",
        Handshake(480) \o <<ReadFour(<<>>), Close>> \o Handshake(480)
          \o <<Again(ReadFour(<<Telling(<<222>>)>>)), Disconnected>>,
        <<Returning(Call(<<Read(0, 4)>>), <<222>>)>>)
       EXCEPT !.op = 500, !.retries = 1, !.connections = 2]

InterruptedUserData ==
    [Conversing("interrupted-userdata",
        Handshake(480)
          \o <<Asked("blocksOfType", <<[Telling(<<1>>) EXCEPT !.more = TRUE, !.token = 7]>>),
               Expect(Continuing("blocksOfType", 7), <<>>), Close>>,
        <<Expecting(Serving("blocksOfType"), "disconnected")>>) EXCEPT !.op = 1000]

ReferenceWrap ==
    LET Byte(at, reference, value) ==
            Numbered(Expect(Body("read", <<Piece(at, 1, <<>>)>>), <<Telling(<<value>>)>>), reference)
    IN  [Conversing("reference-wrap",
            Handshake(480) \o <<Byte(0, StartReference, 170), Byte(1, 0, 187), Disconnected>>,
            <<Returning(Call(<<Read(0, 1)>>), <<170>>), Returning(Call(<<Read(1, 1)>>), <<187>>)>>)
           EXCEPT !.op = 1000, !.reference = StartReference]

Segmented ==
    Conversing("segmented-responses", Handshake(480) \o <<ReadFour(<<Telling(<<222>>)>>), Close>>,
               <<Returning(Call(<<Read(0, 4)>>), <<222>>)>>)

SingleCases == {ReconnectShrink, ReconnectRecovery, InterruptedUserData, ReferenceWrap, Segmented}

ServiceCases ==
    CompletionCases \union AssuranceCases \union ClockCases \union IdentityCases
      \union StatefulCases \union TransferDeadlineCases \union ExtendedDeadlineCases
      \union CleanupCases \union HandshakeRejectionCases \union ServiceRejectionCases
      \union TransportCases \union SingleCases
=============================================================================
