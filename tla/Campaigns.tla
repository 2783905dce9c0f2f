----------------------------- MODULE Campaigns -----------------------------
(***************************************************************************)
(* The campaigns about retries, reconnections and queued calls: for each,  *)
(* the scripts its peers follow in every mode and the calls of the native  *)
(* side with what the campaign expects of them.                            *)
(***************************************************************************)
EXTENDS Conversation

Times(n, element) == [k \in 1 .. n |-> element]
Repeat(n, script(_)) == FlattenSeq([k \in 1 .. n |-> script(k)])
LateRead == Expecting(Call(<<Read(0, 1)>>), "disconnected")

-----------------------------------------------------------------------------
(* retry_budgets.py                                                        *)

RetryModes == {"read", "raw", "raw-opt-in", "write", "write-opt-in"}

RetryItem(mode) ==
    CASE mode = "read"                     -> Read(0, 1)
      [] mode \in {"raw", "raw-opt-in"}    -> Service("raw")
      [] mode \in {"write", "write-opt-in"} -> Write(0, 1, <<42>>)

RetryBody(mode) ==
    LET item == RetryItem(mode)
    IN  Body(item.fn, IF IsArea(item) THEN <<Piece(0, 1, item.value)>> ELSE <<>>)

Replayable(mode) == mode \in {"read", "raw-opt-in", "write-opt-in"}
RetrySucceeds(mode, budget, drops) == drops = 0 \/ (Replayable(mode) /\ drops <= budget)
ExpectedAttempts(mode, budget, drops) ==
    CASE RetrySucceeds(mode, budget, drops) -> drops + 1
      [] ~RetrySucceeds(mode, budget, drops) /\ Replayable(mode) -> budget + 1
      [] OTHER -> 1

RetryBudgetScript(mode, budget, drops) ==
    LET Attempt(k) ==
          LET dropped == k <= drops
              request == Expect(RetryBody(mode), IF dropped THEN <<>> ELSE <<Granting(<<Success>>)>>)
          IN  Handshake(480)
                \o <<IF k = 1 THEN request ELSE Again(request),
                     IF dropped THEN Close ELSE Closed>>
    IN  Repeat(ExpectedAttempts(mode, budget, drops), Attempt) \o <<NoMore>>

RetryBudgetConversation(mode, budget, drops) ==
    LET ok == RetrySucceeds(mode, budget, drops)
        attempts == ExpectedAttempts(mode, budget, drops)
        trace == IF RetryItem(mode).fn # "write" THEN <<>>
                 ELSE Times(attempts - 1, "replayedUnknown")
                        \o <<IF ok THEN "success" ELSE "pending">>
        call == Expecting(Tracing(Call(<<RetryItem(mode)>>), trace),
                          IF ok THEN "ok" ELSE "disconnected")
    IN  [Conversing("retry-budgets " \o mode \o ToString(<<budget, drops>>), RetryBudgetScript(mode, budget, drops),
                    <<call>> \o (IF ok THEN <<>> ELSE <<LateRead>>))
           EXCEPT !.retries = budget, !.connections = attempts,
                  !.allow = mode \in {"raw-opt-in", "write-opt-in"}]

RetryBudgetCases ==
    {RetryBudgetConversation(mode, budget, budget + more) :
        mode \in RetryModes, budget \in {0, 1, 2, 4}, more \in {0, 1}}

-----------------------------------------------------------------------------
(* retry_progress.py                                                       *)

NoRetryServices == {"control", "raw", "clock", "security", "startUpload"}
ReplayModes == {"read-retry", "write-opt-in", "replay-scalar-reject", "replay-multi-reject",
                "replay-reconnect-reject"}
BoundaryModes == {"scalar-drop", "scalar-reject", "multi-drop", "multi-reject"}

ProgressCall(mode) ==
    CASE mode = "read-retry" -> Call(<<Read(0, 1)>>)
      [] mode = "replay-multi-reject" -> Multi(<<Write(0, 1, <<42>>)>>)
      [] mode \in {"scalar-drop", "scalar-reject"} -> Call(<<Write(0, 700, <<42>>)>>)
      [] mode \in {"multi-drop", "multi-reject"}   -> Multi(<<Write(0, 700, <<42>>)>>)
      [] mode \in NoRetryServices -> Call(<<Service(mode)>>)
      [] OTHER -> Call(<<Write(0, 1, <<42>>)>>)

ProgressBody(mode, at) ==
    CASE mode \in NoRetryServices -> Body(mode, <<>>)
      [] mode = "read-retry"      -> Body("read", <<Piece(0, 1, <<>>)>>)
      [] mode \in BoundaryModes   -> Body("write", <<Piece(at, 212, <<42>>)>>)
      [] OTHER                    -> Body("write", <<Piece(0, 1, <<42>>)>>)

ProgressAnswer(mode) ==
    CASE mode \in {"replay-scalar-reject", "scalar-reject"} -> Refusing
      [] mode \in {"replay-multi-reject", "multi-reject"}   -> Granting(<<5>>)
      [] OTHER                                              -> Granting(<<Success>>)

RejectedHandshake == <<Accept, ExpectCr(<<Reply>>), ExpectSetup(<<Refusing>>), OnlyClosed>>

RetryProgressScript(mode) ==
    LET Asked(at, replies) == Expect(ProgressBody(mode, at), replies)
    IN  CASE mode = "replay-reconnect-reject" ->
                Handshake(240) \o <<Asked(0, <<>>), Close>> \o RejectedHandshake
          [] mode \in ReplayModes \ {"replay-reconnect-reject"} ->
                Handshake(240) \o <<Asked(0, <<>>), Close>> \o Handshake(240)
                  \o <<Again(Asked(0, <<ProgressAnswer(mode)>>)), Disconnected>>
          [] mode \in NoRetryServices \union {"write-no-retry"} ->
                Handshake(240) \o <<Asked(0, <<>>), Close, NoMore>>
          [] mode \in {"scalar-drop", "multi-drop"} ->
                Handshake(240) \o <<Asked(0, <<Granting(<<Success>>)>>), Asked(212, <<>>), Close, NoMore>>
          [] mode \in {"scalar-reject", "multi-reject"} ->
                Handshake(240) \o <<Asked(0, <<Granting(<<Success>>)>>),
                                    Asked(212, <<ProgressAnswer(mode)>>), Disconnected, NoMore>>

ProgressKind(mode) ==
    CASE mode \in NoRetryServices \union {"write-no-retry", "scalar-drop", "multi-drop"} -> "disconnected"
      [] mode \in {"scalar-reject", "replay-scalar-reject", "replay-reconnect-reject"} -> "plcRejected"
      [] OTHER -> "ok"

ProgressTrace(mode) ==
    CASE mode \in {"scalar-drop", "multi-drop"} -> <<"success", "pending">>
      [] mode = "scalar-reject"                 -> <<"success", "globalRejected">>
      [] mode = "multi-reject"                  -> <<"success", "itemRejected">>
      [] mode = "write-opt-in"                  -> <<"replayedUnknown", "success">>
      [] mode = "replay-scalar-reject"          -> <<"replayedUnknown", "globalRejected">>
      [] mode = "replay-multi-reject"           -> <<"replayedUnknown", "itemRejected">>
      [] mode = "replay-reconnect-reject"       -> <<"replayedUnknown">>
      [] mode = "write-no-retry"                -> <<"pending">>
      [] OTHER                                  -> <<>>

RetryProgressCases ==
    {[Conversing("retry-progress " \o mode, RetryProgressScript(mode),
                 <<Expecting(Tracing(ProgressCall(mode), ProgressTrace(mode)), ProgressKind(mode))>>)
        EXCEPT !.retries = 1, !.allow = mode \in ReplayModes \ {"read-retry"},
               !.connections = IF mode \in ReplayModes THEN 2 ELSE 1] :
        mode \in NoRetryServices \union {"write-no-retry"} \union ReplayModes \union BoundaryModes}

-----------------------------------------------------------------------------
(* reconnect_faults.py and generative_reconnect.py                         *)

ReconnectModes == {"read", "raw", "write", "multi"}
Transient == {"cotp-eof", "setup-eof"}
Terminal  == {"cotp-invalid", "setup-invalid", "setup-reject", "setup-shrink"}

ReconnectCase(mode, fault, budget, failures) ==
    [mode |-> mode, fault |-> fault, budget |-> budget, failures |-> failures]

(* Raw exchanges have no deadline for the whole operation.                 *)
FixedReconnects ==
    {ReconnectCase(mode, fault, budget, failures) :
        mode \in ReconnectModes, fault \in Transient, budget \in {0, 1, 2, 4}, failures \in 0 .. 4}
    \union {ReconnectCase(mode, fault, 4, 1) : mode \in ReconnectModes, fault \in Terminal}
    \union {ReconnectCase(mode, "deadline", 4, 1) : mode \in ReconnectModes \ {"raw"}}

GeneratedReconnects ==
    {ReconnectCase(mode, fault, 3, failures) :
        mode \in ReconnectModes, fault \in Transient, failures \in 0 .. 4}
    \union {ReconnectCase(mode, fault, budget, 1) :
        mode \in ReconnectModes, fault \in Terminal, budget \in 1 .. 3}

ReconnectCases ==
    {c \in FixedReconnects : c.fault \notin Transient \/ c.failures \in {c.budget - 1, c.budget}}
        \union GeneratedReconnects

Width(c) == IF c.mode = "multi" THEN 2 ELSE 1
ReconnectWrites(c) == c.mode \in {"write", "multi"}
Recovers(c) == c.fault \in Transient /\ c.failures < c.budget

(* Sessions, counted by the peer and, on its own, by the generator.        *)
Sessions(c) ==
    CASE c.budget = 0           -> 1
      [] c.budget > 0 /\ c.fault \notin Transient -> 2
      [] c.budget > 0 /\ c.fault \in Transient ->
            1 + (IF Recovers(c) THEN c.failures + 1 ELSE c.budget)
ExpectedConnections(c) ==
    1 + (IF c.budget = 0 THEN 0
         ELSE IF c.fault \in Transient THEN Least({c.budget, c.failures + 1}) ELSE 1)
ExpectedChronology(c) ==
    IF ~ReconnectWrites(c) THEN <<>>
    ELSE Times(Width(c), IF c.budget > 0 THEN "replayedUnknown" ELSE "pending")
           \o (IF c.budget > c.failures /\ c.fault \in Transient
               THEN Times(Width(c), "success") ELSE <<>>)

ReconnectKind(c) ==
    CASE Recovers(c) -> "ok"
      [] ~Recovers(c) /\ (c.budget = 0 \/ c.fault \in Transient) -> "disconnected"
      [] c.budget > 0 /\ c.fault = "setup-reject" -> "plcRejected"
      [] c.budget > 0 /\ c.fault = "deadline"     -> "timeout"
      [] OTHER                                    -> "protocol"

ReconnectItems(c) ==
    [k \in 1 .. Width(c) |->
        CASE c.mode = "raw"  -> Service("raw")
          [] c.mode = "read" -> Read(0, 1)
          [] OTHER           -> Write((k - 1) * 32, 1, <<41 + k>>)]
OperationBody(c) ==
    IF c.mode = "raw" THEN Body("raw", <<>>)
    ELSE Body(IF ReconnectWrites(c) THEN "write" ELSE "read",
              [k \in 1 .. Width(c) |->
                 Piece((k - 1) * 32, 1, IF ReconnectWrites(c) THEN <<41 + k>> ELSE <<>>)])

(* The stage at which a reconnection fails.                                *)
ReconnectStage(fault) ==
    <<Accept>> \o
    CASE fault = "cotp-eof"      -> <<ExpectCr(<<>>), Close>>
      [] fault = "cotp-invalid"  -> <<ExpectCr(<<Wrong>>), Closed>>
      [] fault = "setup-eof"     -> <<ExpectCr(<<Reply>>), ExpectSetup(<<>>), Close>>
      [] fault = "setup-invalid" -> <<ExpectCr(<<Reply>>), ExpectSetup(<<Wrong>>), Closed>>
      [] fault = "setup-reject"  -> <<ExpectCr(<<Reply>>), ExpectSetup(<<Refusing>>), Closed>>
      [] fault = "setup-shrink"  -> <<ExpectCr(<<Reply>>), ExpectSetup(<<Negotiating(240)>>), Closed>>
      [] fault = "deadline"      -> <<ExpectCr(<<Reply>>), ExpectSetup(<<>>), Sleep(500), Closed>>

ReconnectScript(c) ==
    LET request == Expect(OperationBody(c), <<>>)
        Session(k) ==
          IF Recovers(c) /\ k = Sessions(c) - 1
          THEN Handshake(480)
                 \o <<Again(Expect(OperationBody(c), <<Granting(Succeeded(Width(c)))>>)), Closed>>
          ELSE ReconnectStage(c.fault)
    IN  Handshake(480) \o <<request, Close>> \o Repeat(Sessions(c) - 1, Session) \o <<NoMore>>

ReconnectConversation(c) ==
    LET call == IF c.mode = "multi" THEN Multi(ReconnectItems(c)) ELSE Call(ReconnectItems(c))
    IN  [Conversing("reconnect " \o c.mode \o " " \o c.fault \o ToString(<<c.budget, c.failures>>), ReconnectScript(c),
                    <<Expecting(Tracing(call, ExpectedChronology(c)), ReconnectKind(c))>>
                      \o (IF Recovers(c) THEN <<>> ELSE <<LateRead>>))
           EXCEPT !.retries = c.budget, !.allow = TRUE, !.connections = ExpectedConnections(c),
                  !.op = 1500, !.transfer = IF c.fault = "deadline" THEN 200 ELSE NoDeadline]

-----------------------------------------------------------------------------
(* concurrency.py                                                          *)

ConcurrencyModes == {"success", "failure", "disconnect", "reconnect"}

(* A read of 700 bytes in chunks that fit a PDU of 240.                    *)
ChunkOffsets == <<0, 222, 444, 666>>
ChunkSize(offset) == Least({222, 700 - offset})
LongRead(index) == Call(<<Read(index * 1000, 700)>>)
ChunkBody(index, k) ==
    Body("read", <<Piece(index * 1000 + ChunkOffsets[k], ChunkSize(ChunkOffsets[k]), <<>>)>>)
ChunkReply(index) == [Granting(<<Success>>) EXCEPT !.values = <<index>>]
ServedFrom(index, first) ==
    [k \in 1 .. 5 - first |-> Expect(ChunkBody(index, first + k - 1), <<ChunkReply(index)>>)]
Reading(index) == Returning(LongRead(index), Times(4, index))

(* The peer serves whole reads in any order behind the synchronized one.   *)
ConcurrencyScript(mode, readers) ==
    LET others == [k \in 1 .. readers |-> ServedFrom(k, 1)]
    IN  Handshake(240) \o <<Expect(ChunkBody(0, 1), <<>>), Barrier>> \o
        CASE mode = "failure" -> <<Answer(<<Wrong>>), Closed>>
          [] mode = "reconnect" ->
                <<Close>> \o Handshake(240) \o <<Again(Expect(ChunkBody(0, 1), <<ChunkReply(0)>>))>>
                  \o ServedFrom(0, 2) \o <<AnyOf(others), Disconnected>>
          [] mode = "success" ->
                <<Answer(<<ChunkReply(0)>>)>> \o ServedFrom(0, 2) \o <<AnyOf(others), Disconnected>>
          [] mode = "disconnect" ->
                <<Answer(<<ChunkReply(0)>>)>> \o ServedFrom(0, 2) \o <<SomeOf(others), Disconnected>>

ConcurrencyCalls(mode, readers) ==
    LET Outcome(call) ==
          CASE mode = "failure"    -> Expecting(call, "disconnected")
            [] mode = "disconnect" -> Expecting(call, "either")
            [] OTHER               -> call
        first == IF mode = "failure" THEN Expecting(LongRead(0), "protocol") ELSE Reading(0)
    IN  <<first>> \o [k \in 1 .. readers |->
                        Queued(Outcome(IF mode \in {"failure", "disconnect"} THEN LongRead(k)
                                       ELSE Reading(k)))]
          \o (IF mode = "disconnect" THEN <<Queued(Lifecycle("disconnect"))>>
              ELSE <<Lifecycle("disconnect")>>)
          \o <<LateRead>>

ConcurrencyCases(readers) ==
    {[Conversing("concurrency " \o mode, ConcurrencyScript(mode, readers),
                 ConcurrencyCalls(mode, readers))
        EXCEPT !.retries = 1, !.inOrder = FALSE,
               !.connections = IF mode = "reconnect" THEN 2 ELSE 1] : mode \in ConcurrencyModes}

-----------------------------------------------------------------------------
(* queued_lifecycle.py                                                     *)

LifecycleModes == {"disconnect", "reconnect", "protocol", "plc", "invalid", "write-drop"}

QueuedFirst(mode) ==
    IF mode = "write-drop" THEN Body("write", <<Piece(0, 1, <<42>>)>>) ELSE ChunkBody(0, 1)

QueuedLifecycleScript(mode) ==
    LET first == Handshake(240) \o <<Expect(QueuedFirst(mode), <<>>), Barrier>>
        Served(index) == ServedFrom(index, 1)
        later == (IF mode = "invalid" THEN <<>> ELSE Served(1)) \o Served(2)
                   \o <<Disconnected, NoMore>>
    IN  first \o
        CASE mode = "write-drop" -> <<Close, NoMore>>
          [] mode = "protocol"   -> <<Answer(<<Wrong>>), Disconnected, NoMore>>
          [] mode = "plc"        -> <<Answer(<<Refusing>>)>> \o later
          [] mode = "reconnect"  ->
                <<Close>> \o Handshake(240)
                  \o <<Again(Expect(QueuedFirst(mode), <<ChunkReply(0)>>))>> \o ServedFrom(0, 2) \o later
          [] mode \in {"disconnect", "invalid"} ->
                <<Answer(<<ChunkReply(0)>>)>> \o ServedFrom(0, 2) \o later

Unaddressable == 2097152       \* 0x200000: beyond the last byte address

QueuedLifecycleCalls(mode) ==
    LET ended == mode \in {"protocol", "write-drop"}
        first == CASE mode = "write-drop" ->
                        Expecting(Tracing(Call(<<Write(0, 1, <<42>>)>>), <<"pending">>), "disconnected")
                   [] mode = "protocol" -> Expecting(LongRead(0), "protocol")
                   [] mode = "plc"      -> Expecting(LongRead(0), "plcRejected")
                   [] OTHER             -> Reading(0)
        middle == CASE mode = "invalid" -> Expecting(Call(<<Read(Unaddressable, 1)>>), "invalidInput")
                    [] ended            -> Expecting(LongRead(1), "disconnected")
                    [] OTHER            -> Reading(1)
        recovery == IF ended THEN Expecting(LongRead(2), "disconnected") ELSE Reading(2)
    IN  <<first>> \o [k \in 1 .. 5 |->
            Queued(<<middle, recovery, Lifecycle("disconnect"), LateRead, Lifecycle("disconnect")>>[k])]

QueuedLifecycleCases ==
    {[Conversing("queued-lifecycle " \o mode, QueuedLifecycleScript(mode), QueuedLifecycleCalls(mode))
        EXCEPT !.retries = 1, !.connections = IF mode = "reconnect" THEN 2 ELSE 1] :
        mode \in LifecycleModes}

-----------------------------------------------------------------------------
(* queued_batches.py                                                       *)

BatchModes == {"success", "early-retry", "read-partial-drop", "write-drop", "write-partial-drop"}

(* Tiny items, then one of every size around what still fits, then one     *)
(* that needs three chunks, and a copy of the first.                       *)
ItemSizes(pdu) ==
    [k \in 1 .. 21 |-> 1 + (k % 3)]
      \o <<pdu - 28, pdu - 17, pdu - 29, pdu - 19, pdu - 27, pdu - 18>>
      \o <<2 * (pdu - 28) + 3, 2>>

StartOf(sizes, item) == IF item = Len(sizes) - 1 THEN 0 ELSE item * 2048

BatchItems(sizes, write) ==
    [k \in DOMAIN sizes |->
        IF write THEN Write(StartOf(sizes, k - 1), sizes[k], <<k - 1>>)
                 ELSE Read(StartOf(sizes, k - 1), sizes[k])]

(* The peer's own planner: items that fit no request on their own become   *)
(* consecutive requests; a batch closes with the item that exceeds it.     *)
NoBatch == [batches |-> <<>>, selected |-> <<>>, request |-> 12, response |-> 14]

ClosedBatch(plan) ==
    [NoBatch EXCEPT !.batches = IF plan.selected = <<>> THEN plan.batches
                                ELSE Append(plan.batches, plan.selected)]

Slice(item, start, offset, size) == [item |-> item, start |-> start, offset |-> offset, size |-> size]

PlannedBatches(sizes, pdu, write) ==
    LET maximum == pdu - (IF write THEN 28 ELSE 18)
        Contribution(size) == 4 + size + (size % 2)
        Asked(size)    == 12 + (IF write THEN Contribution(size) ELSE 0)
        Granted(size) == IF write THEN 1 ELSE Contribution(size)
        Alone(size)    == 12 + Asked(size) <= pdu /\ 14 + Granted(size) <= pdu
        Split(item) ==
            [k \in 1 .. (sizes[item] + maximum - 1) \div maximum |->
               <<Slice(item - 1, StartOf(sizes, item - 1) + (k - 1) * maximum, (k - 1) * maximum,
                       Least({maximum, sizes[item] - (k - 1) * maximum}))>>]
        Selecting(plan, item) ==
            [plan EXCEPT !.selected = Append(@, Slice(item - 1, StartOf(sizes, item - 1), 0, sizes[item])),
                         !.request = @ + Asked(sizes[item]),
                         !.response = @ + Granted(sizes[item])]
        Full(plan, size) == \/ Len(plan.selected) = 20
                            \/ plan.request + Asked(size) > pdu
                            \/ plan.response + Granted(size) > pdu
        Plan(plan, item) ==
            CASE ~Alone(sizes[item]) -> [ClosedBatch(plan) EXCEPT !.batches = @ \o Split(item)]
              [] Alone(sizes[item]) /\ Full(plan, sizes[item])  -> Selecting(ClosedBatch(plan), item)
              [] Alone(sizes[item]) /\ ~Full(plan, sizes[item]) -> Selecting(plan, item)
    IN  ClosedBatch(FoldLeft(Plan, NoBatch, [k \in DOMAIN sizes |-> k])).batches

BatchBody(batch, write) ==
    Body(IF write THEN "write" ELSE "read",
         [k \in DOMAIN batch |->
            Piece(batch[k].start, batch[k].size, IF write THEN <<batch[k].item>> ELSE <<>>)])
BatchReply(batch) == Granting([k \in DOMAIN batch |-> IF batch[k].item = 2 THEN 5 ELSE Success])

DropsAt(sizes, pdu, mode, operation, position, batch) ==
    LET last(offset) == batch[1].item = Len(sizes) - 2 /\ batch[1].offset = offset
    IN  \/ mode = "read-partial-drop" /\ operation = 1 /\ last(pdu - 18)
        \/ mode = "write-drop" /\ operation = 2 /\ position = 1
        \/ mode = "write-partial-drop" /\ operation = 2 /\ last(pdu - 28)

(* All requests of the three operations up to the one that is dropped.     *)
Exchanges(sizes, pdu) ==
    FlattenSeq([operation \in 1 .. 3 |->
        LET batches == PlannedBatches(sizes, pdu, operation = 2)
        IN  [position \in DOMAIN batches |->
               [operation |-> operation, position |-> position, batch |-> batches[position]]]])

QueuedBatchScript(pdu, mode) ==
    LET sizes == ItemSizes(pdu)
        exchanges == Exchanges(sizes, pdu)
        Dropped(k) == DropsAt(sizes, pdu, mode, exchanges[k].operation, exchanges[k].position,
                              exchanges[k].batch)
        BodyOf(k) == BatchBody(exchanges[k].batch, exchanges[k].operation = 2)
        ReplyTo(k) == BatchReply(exchanges[k].batch)
        drops == {k \in DOMAIN exchanges : Dropped(k)}
        served == IF drops = {} THEN Len(exchanges) ELSE Least(drops) - 1
    IN  Handshake(pdu) \o <<Expect(BodyOf(1), <<>>), Barrier>>
          \o (IF mode = "early-retry"
              THEN <<Close>> \o Handshake(pdu) \o <<Again(Expect(BodyOf(1), <<ReplyTo(1)>>))>>
              ELSE <<Answer(<<ReplyTo(1)>>)>>)
          \o [k \in 1 .. served - 1 |-> Expect(BodyOf(k + 1), <<ReplyTo(k + 1)>>)]
          \o (IF drops = {} THEN <<Disconnected, NoMore>>
              ELSE <<Expect(BodyOf(served + 1), <<>>), Close, NoMore>>)

(* Codes by caller item: the third is refused in each operation.           *)
BatchResults(sizes) == [k \in DOMAIN sizes |-> IF k = 3 THEN 5 ELSE Success]

QueuedBatchCalls(pdu, mode) ==
    LET sizes == ItemSizes(pdu)
        Whole(write) == Returning(Multi(BatchItems(sizes, write)), BatchResults(sizes))
        Lost(write)  == Expecting(Multi(BatchItems(sizes, write)), "disconnected")
        first  == IF mode = "read-partial-drop" THEN Lost(FALSE) ELSE Whole(FALSE)
        second == CASE mode = "read-partial-drop" -> Tracing(Lost(TRUE), <<>>)
                    [] mode \in {"write-drop", "write-partial-drop"} -> Lost(TRUE)
                    [] OTHER -> Whole(TRUE)
        third  == IF mode \in {"success", "early-retry"} THEN Whole(FALSE) ELSE Lost(FALSE)
    IN  <<first, Queued(second), Queued(third), Queued(Lifecycle("disconnect")),
          Queued(Tracing(Lost(TRUE), <<>>))>>

QueuedBatchCases ==
    {[Conversing("queued-batches " \o mode \o ToString(pdu), QueuedBatchScript(pdu, mode), QueuedBatchCalls(pdu, mode))
        EXCEPT !.retries = 1, !.connections = IF mode = "early-retry" THEN 2 ELSE 1] :
        pdu \in {240, 480}, mode \in BatchModes}
=============================================================================
