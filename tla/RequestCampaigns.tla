-------------------------- MODULE RequestCampaigns --------------------------
(***************************************************************************)
(* The campaigns about what a sequence of calls puts on the wire: answers  *)
(* out of turn, batches and chunks of many items, the provenance of writes *)
(* and generated sequences of reads, writes and strings.                   *)
(***************************************************************************)
EXTENDS Campaigns

-----------------------------------------------------------------------------
(* live_correlation.py                                                     *)

Operation(kind, status, stale, value) ==
    [kind |-> kind, status |-> status, stale |-> stale, value |-> value]

(* The six categories in an order of the generator, then two healthy       *)
(* operations and a terminal one.                                          *)
Categories ==
    <<<<"read", "ok">>, <<"read", "global">>, <<"read", "item">>,
      <<"write", "ok">>, <<"write", "global">>, <<"write", "item">>>>

Generated(rotation, terminal, last) ==
    [index \in 1 .. 6 |->
        LET category == Categories[1 + ((index + rotation) % 6)]
        IN  Operation(category[1], category[2], (index - 1) % 3, index)]
      \o <<Operation("write", "ok", 2, 7), Operation("read", "ok", 2, 8),
           Operation(last, terminal, IF terminal = "overflow" THEN 3 ELSE 2, 9)>>

StartReference == 65535
ReferenceAt(index) == (StartReference + index - 1) % 65536

CorrelatedBody(index, operation) ==
    Body(operation.kind,
         <<Piece((index - 1) * 16, 1, IF operation.kind = "write" THEN <<operation.value>> ELSE <<>>)>>)

(* Acknowledgements of references already used, of any service and verdict.*)
StaleReply(k) == [IF k % 2 = 0 THEN Refusing ELSE Wrong EXCEPT !.delta = 0 - k]

CurrentReply(operation) ==
    CASE operation.status = "global"   -> <<Refusing>>
      [] operation.status = "item"     -> <<Granting(<<5>>)>>
      [] operation.status = "protocol" -> <<Wrong>>
      [] operation.status = "overflow" -> <<>>
      [] operation.status = "ok"       ->
            <<[Granting(<<Success>>) EXCEPT !.values = <<operation.value>>]>>

CorrelationScript(pdu, operations) ==
    Handshake(pdu)
      \o [index \in DOMAIN operations |->
            Numbered(Expect(CorrelatedBody(index, operations[index]),
                            [k \in 1 .. operations[index].stale |-> StaleReply(k)]
                               \o CurrentReply(operations[index])),
                     ReferenceAt(index))]
      \o <<Closed, NoMore>>

CorrelatedCall(index, operation) ==
    LET item == IF operation.kind = "write" THEN Write((index - 1) * 16, 1, <<operation.value>>)
                ELSE Read((index - 1) * 16, 1)
        kind == CASE operation.status = "ok" -> "ok"
                  [] operation.status \in {"global", "item"} -> "plcRejected"
                  [] OTHER -> "protocol"
        outcome == CASE operation.status = "ok" -> "success"
                     [] operation.status \in {"global", "item"} -> "globalRejected"
                     [] OTHER -> "pending"
    IN  Expecting(IF operation.kind = "write" THEN Tracing(Call(<<item>>), <<outcome>>)
                  ELSE Returning(Call(<<item>>),
                                 IF operation.status = "ok" THEN <<operation.value>> ELSE <<>>),
                  kind)

LiveCorrelationCases ==
    {LET operations == Generated(rotation, terminal, last)
     IN  [Conversing("live-correlation " \o terminal \o last \o ToString(<<pdu, rotation>>),
                     CorrelationScript(pdu, operations),
                     [index \in DOMAIN operations |-> CorrelatedCall(index, operations[index])]
                       \o <<LateRead>>)
            EXCEPT !.retries = 2, !.stale = 2, !.reference = StartReference] :
        rotation \in 0 .. 5, terminal \in {"overflow", "protocol"}, last \in {"read", "write"},
        pdu \in {240, 480}}

-----------------------------------------------------------------------------
(* multi_batching.py                                                       *)

ItemCount == 41
FailsAt(index) == index % 7 = 3

(* The peer's own budget for items of one size.                            *)
PerRequest(fn, pdu, size) ==
    LET padded == size + (size % 2)
    IN  Least(IF fn = "write" THEN {20, (pdu - 12) \div (16 + padded)}
              ELSE {20, (pdu - 12) \div 12, (pdu - 14) \div (4 + padded)})

(* Items done .. done + count - 1, all of one size, and their results.     *)
UniformBatch(fn, done, count, size, StartAt(_)) ==
    Expect(Body(fn, [k \in 1 .. count |->
                       Piece(StartAt(done + k - 1), size, IF fn = "write" THEN <<done + k - 1>> ELSE <<>>)]),
           <<Granting([k \in 1 .. count |-> IF FailsAt(done + k - 1) THEN 5 ELSE Success])>>)

UniformBatches(fn, budget, size, StartAt(_)) ==
    [k \in 1 .. (ItemCount + budget - 1) \div budget |->
        UniformBatch(fn, (k - 1) * budget, Least({budget, ItemCount - (k - 1) * budget}), size, StartAt)]

UniformResults == [k \in 1 .. ItemCount |-> IF FailsAt(k - 1) THEN 5 ELSE Success]

Apart(index) == index * 256

MultiBatchingScript(pdu, size) ==
    Handshake(pdu) \o UniformBatches("write", PerRequest("write", pdu, size), size, Apart)
                   \o UniformBatches("read", PerRequest("read", pdu, size), size, Apart)
                   \o <<Disconnected>>

MultiBatchingCases ==
    {Conversing("multi-batching" \o ToString(<<pdu, size>>), MultiBatchingScript(pdu, size),
        <<Returning(Multi([k \in 1 .. ItemCount |-> Write(Apart(k - 1), size, <<k - 1>>)]), UniformResults),
          Returning(Multi([k \in 1 .. ItemCount |-> Read(Apart(k - 1), size)]), UniformResults)>>) :
        pdu \in {240, 480}, size \in {1, 37}}

-----------------------------------------------------------------------------
(* multi_semantics.py                                                      *)

Validations == {"invalid-payload", "invalid-range", "invalid-endpoint"}

Stage(offset, count, failure) == [offset |-> offset, count |-> count, failure |-> failure]

(* An item of 700 bytes in chunks up to the one that fails; the next item  *)
(* of the call is asked for all the same.                                  *)
SemanticStages(maximum, outcome) ==
    CASE outcome = "success" ->
            [k \in 1 .. (700 + maximum - 1) \div maximum |->
                Stage((k - 1) * maximum, Least({maximum, 700 - (k - 1) * maximum}), FALSE)]
      [] outcome = "first" -> <<Stage(0, maximum, TRUE)>>
      [] outcome = "mid"   -> <<Stage(0, maximum, FALSE),
                                Stage(maximum, Least({maximum, 700 - maximum}), TRUE)>>

LargeItem(fn) == IF fn = "write" THEN Write(0, 700, <<42>>) ELSE Read(0, 700)
SmallItem(fn, start) == IF fn = "write" THEN Write(start, 1, <<99>>) ELSE Read(start, 1)

MultiSemanticsScript(pdu, fn, outcome) ==
    LET stages == SemanticStages(pdu - (IF fn = "read" THEN 18 ELSE 28), outcome)
        Asked(stage, value) ==
            Expect(Body(fn, <<Piece(stage.offset, stage.count, IF fn = "write" THEN value ELSE <<>>)>>),
                   <<Granting(<<IF stage.failure THEN 5 ELSE Success>>)>>)
    IN  Handshake(pdu) \o [k \in DOMAIN stages |-> Asked(stages[k], <<42>>)]
          \o <<Asked(Stage(1000, 1, FALSE), <<99>>), Disconnected>>

MultiSemanticsCases ==
    {Conversing("multi-semantics " \o fn \o outcome \o ToString(pdu), MultiSemanticsScript(pdu, fn, outcome),
        <<Returning(Multi(<<LargeItem(fn), SmallItem(fn, 1000)>>),
                    <<IF outcome = "success" THEN Success ELSE 5, Success>>)>>) :
        pdu \in {240, 480}, fn \in {"read", "write"}, outcome \in {"success", "first", "mid"}}
    \union
    {Conversing("multi-semantics " \o mode \o ToString(pdu), Handshake(pdu) \o <<Disconnected>>,
        <<Expecting(Returning(Multi(<<SmallItem("write", 1000),
                                      IF mode = "invalid-payload" THEN Service("invalid")
                                      ELSE Write(Unaddressable - (IF mode = "invalid-range" THEN 0 ELSE 1),
                                                 2, <<1>>)>>), <<>>),
                    "invalidInput")>>) :
        pdu \in {240, 480}, mode \in Validations}

-----------------------------------------------------------------------------
(* write_provenance.py                                                     *)

Same(index) == 10

ProvenanceScript(mode, pdu) ==
    LET maximum == pdu - 28
        Written(start, count, value, code) ==
            Expect(Body("write", <<Piece(start, count, value)>>), <<Granting(<<code>>)>>)
        small == Written(2000, 1, <<99>>, Success)
        Chunk(k, code) == Written((k - 1) * maximum, Least({maximum, 700 - (k - 1) * maximum}), <<42>>, code)
        whole == [k \in 1 .. (700 + maximum - 1) \div maximum |-> Chunk(k, Success)]
    IN  Handshake(pdu) \o
        CASE mode = "duplicates" ->
                UniformBatches("write", Least({20, (pdu - 12) \div 18}), 1, Same) \o <<Disconnected>>
          [] mode = "success" -> <<small>> \o whole \o <<small, Disconnected>>
          [] mode = "scalar"  -> whole \o <<Disconnected>>
          [] mode = "reject"  -> <<small, Chunk(1, Success), Chunk(2, 5), small, Disconnected>>
          [] mode = "drop"    -> <<small, Chunk(1, Success),
                                   [Chunk(2, Success) EXCEPT !.replies = <<>>], Close>>

ProvenanceCall(mode) ==
    LET triple == Multi(<<SmallItem("write", 2000), LargeItem("write"), SmallItem("write", 2000)>>)
    IN  CASE mode = "duplicates" ->
                Tracing(Returning(Multi([k \in 1 .. ItemCount |-> Write(10, 1, <<k - 1>>)]), UniformResults),
                        [k \in 1 .. ItemCount |-> IF FailsAt(k - 1) THEN "itemRejected" ELSE "success"])
          [] mode = "success" -> Tracing(triple, Times(6, "success"))
          [] mode = "scalar"  -> Tracing(Call(<<LargeItem("write")>>), Times(4, "success"))
          [] mode = "reject"  -> Tracing(triple, <<"success", "success", "itemRejected", "success">>)
          [] mode = "drop"    -> Expecting(Tracing(triple, <<"success", "success", "pending">>), "disconnected")

WriteProvenanceCases ==
    {Conversing("write-provenance " \o scenario[1] \o ToString(scenario[2]),
                ProvenanceScript(scenario[1], scenario[2]), <<ProvenanceCall(scenario[1])>>) :
        scenario \in ({"duplicates"} \X {240, 480})
                       \union ({"success", "reject", "drop", "scalar"} \X {240})}
=============================================================================
