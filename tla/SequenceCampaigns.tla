------------------------- MODULE SequenceCampaigns -------------------------
(***************************************************************************)
(* The campaigns that generate long sequences of calls, and those about    *)
(* calls of several requests: sizes around what a PDU holds, mixed calls,  *)
(* overlapping writes against a memory, bits and texts.                    *)
(***************************************************************************)
EXTENDS RequestCampaigns

(* The requests for count bytes from start, in chunks of at most maximum.  *)
InChunks(fn, maximum, start, count, value, ReplyTo(_)) ==
    [k \in 1 .. (count + maximum - 1) \div maximum |->
        LET offset == (k - 1) * maximum
            size == Least({maximum, count - offset})
        IN  Expect(Body(fn, <<Piece(start + offset, size,
                                    IF fn = "write" THEN Slid(value, offset) ELSE <<>>)>>),
                   ReplyTo(offset))]

GrantsIt(offset) == <<Granting(<<Success>>)>>
TellsOffset(offset) == <<Telling(<<offset>>)>>
ReadIn(pdu, start, count)         == InChunks("read", pdu - 18, start, count, <<>>, TellsOffset)
WrittenIn(pdu, start, count, value) == InChunks("write", pdu - 28, start, count, value, GrantsIt)
OffsetsOf(maximum, count) == [k \in 1 .. (count + maximum - 1) \div maximum |-> (k - 1) * maximum]

-----------------------------------------------------------------------------
(* boundary_operations.py                                                  *)

Sized(kind, size) == [kind |-> kind, size |-> size]
Terminals == {"bad-header", "bad-utf16", "long-reply", "drop"}

(* Mandatory sizes, in one of the orders of the generator: read and write  *)
(* chunks, capacities of texts, one retried read and one rejected.         *)
AroundChunks(maximum) == <<0, 1, maximum - 1, maximum, maximum + 1, 2 * maximum + 1>>
Capacities(read) == <<0, 1, 2, Least({254, read - 3}), Least({254, read - 2}), Least({254, read - 1}), 254>>
WideCapacities(read) ==
    <<0, 1, 2, (read - 4) \div 2, (read - 4) \div 2 + 1, read \div 2 + 1>>

BoundarySpecifications(pdu) ==
    LET Each(kind, sizes) == [k \in DOMAIN sizes |-> Sized(kind, sizes[k])]
        read == pdu - 18
    IN  Each("read", AroundChunks(read)) \o Each("write", AroundChunks(pdu - 28))
          \o Each("string", Capacities(read)) \o Each("write string", Capacities(read))
          \o Each("wstring", WideCapacities(read)) \o Each("write wstring", WideCapacities(read))
          \o <<Sized("retried read", read + 1), Sized("rejected read", read), Sized("read", read + 1)>>

BoundaryPlan(pdu, terminal, turned) ==
    LET specifications == BoundarySpecifications(pdu)
        count == Len(specifications)
    IN  [k \in 1 .. count |-> specifications[1 + ((k + turned) % count)]]
          \o <<Sized(terminal, CASE terminal = "bad-utf16"  -> 1
                                 [] terminal = "bad-header" -> Least({254, pdu - 28})
                                 [] OTHER                   -> pdu - 28)>>

Wide(kind) == kind \in {"wstring", "write wstring", "bad-utf16"}
Unit(kind) == IF Wide(kind) THEN 2 ELSE 1
TextLength(operation) == Unit(operation.kind) * (2 + operation.size)
Headed(operation, current) ==
    <<Telling(<<operation.size, current>>)>>

(* What the peer does for an operation at its own address.                 *)
BoundaryStage(pdu, identifier, operation) ==
    LET start == identifier * 4096
        size == operation.size
        header(current) == <<Expect(Body("read", <<Piece(start, 2 * Unit(operation.kind), <<>>)>>),
                                    Headed(operation, current))>>
        TextReply(offset) == IF offset = 0 THEN Headed(operation, size) ELSE <<Telling(<<offset>>)>>
        body == InChunks("read", pdu - 18, start, TextLength(operation), <<>>, TextReply)
        chunks == ReadIn(pdu, start, size)
        Faulty(chunk, replies) == [chunk EXCEPT !.replies = replies]
    IN  CASE operation.kind = "read"  -> chunks
          [] operation.kind = "write" -> WrittenIn(pdu, start, size, Pattern(identifier))
          [] operation.kind \in {"write string", "write wstring"} ->
                WrittenIn(pdu, start, TextLength(operation), Pattern(identifier))
          [] operation.kind \in {"string", "wstring"} -> header(size) \o body
          [] operation.kind = "retried read" ->
                <<Faulty(chunks[1], <<>>), Close>> \o Handshake(pdu)
                  \o <<Again(chunks[1])>> \o Tail(chunks)
          [] operation.kind = "rejected read" -> <<Faulty(chunks[1], <<Refusing>>)>>
          [] operation.kind = "bad-header" -> header(size + 1) \o <<Closed>>
          [] operation.kind = "bad-utf16"  -> header(size) \o <<Faulty(body[1], <<Wrong>>), Closed>>
          [] operation.kind = "long-reply" -> <<Faulty(chunks[1], <<Wrong>>), Closed>>
          [] operation.kind = "drop" ->
                <<Faulty(WrittenIn(pdu, start, size, Pattern(identifier))[1], <<>>), Close, NoMore>>

BoundaryCall(pdu, identifier, operation) ==
    LET start == identifier * 4096
        size == operation.size
        Whole == Call(<<Read(start, size)>>)
        Writing(count) == Call(<<Write(start, count, Pattern(identifier))>>)
        text == TextRead(start, Unit(operation.kind))
    IN  CASE operation.kind \in {"read", "retried read"} -> Returning(Whole, OffsetsOf(pdu - 18, size))
          [] operation.kind = "write" -> Writing(size)
          [] operation.kind \in {"write string", "write wstring"} -> Writing(TextLength(operation))
          [] operation.kind \in {"string", "wstring"} ->
                Returning(text, <<size, size, size, size>> \o Tail(OffsetsOf(pdu - 18, TextLength(operation))))
          [] operation.kind = "rejected read" -> Expecting(Whole, "plcRejected")
          [] operation.kind = "long-reply" -> Expecting(Whole, "protocol")
          [] operation.kind \in {"bad-header", "bad-utf16"} -> Expecting(text, "protocol")
          [] operation.kind = "drop" -> Expecting(Tracing(Writing(size), <<"pending">>), "disconnected")

BoundaryCases ==
    {LET plan == BoundaryPlan(pdu, terminal, turned)
     IN  [Conversing("boundary-operations " \o terminal \o ToString(<<pdu, turned>>),
            Handshake(pdu) \o FlattenSeq([k \in DOMAIN plan |-> BoundaryStage(pdu, k, plan[k])]),
            [k \in DOMAIN plan |-> BoundaryCall(pdu, k, plan[k])] \o <<LateRead>>)
            EXCEPT !.retries = 1, !.op = 1000, !.transfer = 3000, !.connections = 2] :
        pdu \in {240, 480}, terminal \in Terminals, turned \in {0, 17}}

-----------------------------------------------------------------------------
(* mixed_operations.py                                                     *)

MixedValue(index) == (index * 17 + 3) % 256

(* Each operation at its own address; a lost acknowledgement of a write    *)
(* must not bring another connection.                                      *)
MixedStage(operation, index) ==
    LET start == 10 + index
        value == <<MixedValue(index)>>
        Asked(fn, pieces, replies) == <<Expect(Body(fn, pieces), replies)>>
        read == Asked("read", <<Piece(start, 1, <<>>)>>, <<Telling(value)>>)
        Written(replies) == Asked("write", <<Piece(start, 1, value)>>, replies)
    IN  CASE operation = "read" -> read
          [] operation = "write" -> Written(<<Granting(<<Success>>)>>)
          [] operation = "reject" -> Written(<<Refusing>>)
          [] operation = "read multi" ->
                Asked("read", <<Piece(start, 1, <<>>), Piece(start + 1, 1, <<>>)>>, <<Granting(<<Success, 5>>)>>)
          [] operation = "write multi" ->
                Asked("write", <<Piece(start, 1, value), Piece(start, 1, <<(value[1] + 1) % 256>>)>>,
                      <<Granting(<<Success, 5>>)>>)
          [] operation = "retried read" ->
                <<[read[1] EXCEPT !.replies = <<>>], Close>> \o Handshake(240) \o <<Again(read[1])>>
          [] operation = "cycle" -> <<Disconnected, Close>> \o Handshake(240)
          [] operation = "malformed" ->
                Asked("read", <<Piece(start, 1, <<>>)>>, <<Wrong>>) \o <<Closed>>
          [] operation = "drop" -> Written(<<>>) \o <<Close, NoMore>>

MixedCalls(operation, index) ==
    LET start == 10 + index
        value == <<MixedValue(index)>>
        write == Write(start, 1, value)
    IN  CASE operation \in {"read", "retried read"} -> <<Returning(Call(<<Read(start, 1)>>), value)>>
          [] operation = "write"  -> <<Tracing(Call(<<write>>), <<"success">>)>>
          [] operation = "reject" -> <<Expecting(Call(<<write>>), "plcRejected")>>
          [] operation = "read multi" ->
                <<Returning(Multi(<<Read(start, 1), Read(start + 1, 1)>>), <<Success, 5>>)>>
          [] operation = "write multi" ->
                <<Tracing(Returning(Multi(<<write, Write(start, 1, <<(value[1] + 1) % 256>>)>>), <<Success, 5>>),
                          <<"success", "itemRejected">>)>>
          [] operation = "cycle" -> <<Lifecycle("disconnect"), Lifecycle("connect")>>
          [] operation = "malformed" -> <<Expecting(Call(<<Read(start, 1)>>), "protocol")>>
          [] operation = "drop" -> <<Expecting(Tracing(Call(<<write>>), <<"pending">>), "disconnected")>>

LateWrite == Expecting(Call(<<Write(0, 1, <<99>>)>>), "disconnected")

(* Every operation once, then some again: in the orders of the generator.  *)
MixedOrders ==
    {<<"read", "write", "read multi", "write multi", "retried read", "reject", "cycle">>,
     <<"cycle", "retried read", "reject", "write", "write multi", "read", "read multi">>,
     <<"reject", "read multi", "cycle", "retried read", "read", "write multi", "write">>,
     <<"write multi", "retried read", "write", "cycle", "read multi", "reject", "read">>}

MixedPlan(order, terminal) ==
    order \o SelectSeq(order, LAMBDA operation : operation \notin {"cycle", "retried read"}) \o <<terminal>>

MixedCases ==
    {LET plan == MixedPlan(order, terminal)
         stages == FlattenSeq([k \in DOMAIN plan |-> MixedStage(plan[k], k - 1)])
         calls  == FlattenSeq([k \in DOMAIN plan |-> MixedCalls(plan[k], k - 1)])
     IN  [Conversing("mixed-operations " \o terminal \o order[1], Handshake(240) \o stages,
                     calls \o <<LateWrite>>)
            EXCEPT !.retries = 1, !.op = 500, !.connections = 3] :
        order \in MixedOrders, terminal \in {"malformed", "drop"}}

-----------------------------------------------------------------------------
(* overlap_operations.py                                                   *)

MemorySize == 2048

Overlapping(kind, start, size, argument) ==
    [kind |-> kind, start |-> start, size |-> size, argument |-> argument]

(* Repeated writes of every size around a chunk, small ones across chunk   *)
(* cuts, writes within and around each other, and bits between writes.     *)
OverlapPlan(pdu, base, salt) ==
    LET maximum == pdu - 28
        bit == base + maximum
        writes(count, k) ==
            LET again == Overlapping("write", base, count, salt + k)
            IN  <<again, again, Overlapping("read", base, count, 0)>>
        across(k) == <<Overlapping("write", base + maximum - 1, 3, salt + k),
                       Overlapping("read", base, maximum + 3, 0)>>
        within(start, count, k) ==
            <<Overlapping("write", start, count, salt + k),
              Overlapping("read", start - 3, count + 6, 0)>>
        flips(index) ==
            LET flip(enabled) == <<Overlapping("bit", bit, index, enabled), Overlapping("read", bit - 2, 5, 0)>>
            IN  flip(TRUE) \o flip(TRUE) \o flip(FALSE)
        mixed(k) == <<Overlapping("write", bit - 1, 3, salt + k), Overlapping("bit", bit, k % 8, k % 2 = 0),
                      Overlapping("read", bit - 3, 7, 0)>>
        reads == [k \in 1 .. 6 |-> Overlapping("read", base, AroundChunks(pdu - 18)[k], 0)]
    IN  writes(0, 1) \o writes(1, 2) \o writes(maximum - 1, 3) \o writes(maximum, 4) \o across(5)
          \o writes(maximum + 1, 6) \o across(7) \o writes(2 * maximum + 1, 8) \o across(9)
          \o reads
          \o within(base, 1, 10) \o within(base + maximum - 1, 3, 11) \o within(base + 5, maximum + 1, 12)
          \o <<Overlapping("read", 0, MemorySize, 0)>>
          \o flips(0) \o flips(7) \o mixed(13) \o mixed(14)

Watched(pdu, base) ==
    LET maximum == pdu - 28
        cut == base + maximum
    IN  <<0, base - 1, base, base + 5, cut - 1, cut, cut + 1, cut + 2, cut + 5, cut + maximum, MemorySize - 1>>
InitialMemory(addresses) ==
    [k \in DOMAIN addresses |-> [at |-> addresses[k], byte |-> (addresses[k] * 29 + 113) % 256]]

(* The memory of the test itself: whole operations, without chunks.        *)
Applied(memory, operation) ==
    CASE operation.kind = "read" -> memory
      [] operation.kind = "write" ->
            Stored(memory, Body("write", <<Piece(operation.start, operation.size, Pattern(operation.argument))>>))
      [] operation.kind = "bit" ->
            [k \in DOMAIN memory |->
               IF memory[k].at # operation.start THEN memory[k]
               ELSE [memory[k] EXCEPT !.byte = UpdateBit(@, operation.size, operation.argument)]]

MemoriesOf(memory, plan) ==
    LET after[k \in 0 .. Len(plan)] == IF k = 0 THEN memory ELSE Applied(after[k - 1], plan[k])
    IN  after

Recall(offset) == <<Recalling>>
RecalledIn(pdu, start, count) == InChunks("read", pdu - 18, start, count, <<>>, Recall)

OverlapStage(pdu, operation, after) ==
    CASE operation.kind = "read"  -> RecalledIn(pdu, operation.start, operation.size)
      [] operation.kind = "write" -> WrittenIn(pdu, operation.start, operation.size, Pattern(operation.argument))
      [] operation.kind = "bit"   ->
            LET byte == Recalled(after, Piece(operation.start, 1, <<>>))
            IN  RecalledIn(pdu, operation.start, 1) \o WrittenIn(pdu, operation.start, 1, byte)
                  \o RecalledIn(pdu, operation.start, 1)

OverlapCalls(operation, after) ==
    LET count == IF operation.kind = "bit" THEN 1 ELSE operation.size
        read == Returning(Call(<<Read(operation.start, count)>>),
                          Recalled(after, Piece(operation.start, count, <<>>)))
    IN  CASE operation.kind = "read"  -> <<read>>
          [] operation.kind = "write" ->
                <<Call(<<Write(operation.start, operation.size, Pattern(operation.argument))>>)>>
          [] operation.kind = "bit"   ->
                <<BitWrite(operation.start, operation.size, operation.argument), read>>

OverlapCases ==
    {LET plan == Append(OverlapPlan(pdu, base, 100 * base), Overlapping("read", 0, MemorySize, 0))
         memory == InitialMemory(Watched(pdu, base))
         memories == MemoriesOf(memory, plan)
     IN  [Conversing("overlap-operations" \o ToString(<<pdu, base>>),
            Handshake(pdu) \o FlattenSeq([k \in DOMAIN plan |-> OverlapStage(pdu, plan[k], memories[k])])
              \o <<Closed>>,
            FlattenSeq([k \in DOMAIN plan |-> OverlapCalls(plan[k], memories[k])]))
            EXCEPT !.op = 1000, !.transfer = 3000, !.memory = memory] :
        pdu \in {240, 480}, base \in {16, 63}}

-----------------------------------------------------------------------------
(* compound_operations.py                                                  *)

InitialDelay == 1000
SecondWindow == 2500      \* beyond what the first delay leaves of the budget, within a fresh one

BitModes == {"bit", "bit-clear"}
TextFaults == {"bad-header", "bad-utf16", "capacity-shrink", "capacity-grow"}

ByteRead(replies) == Expect(Body("read", <<Piece(0, 1, <<>>)>>), replies)
BitFlipped(enabled, replies) == Flipping(Expect(Body("write", <<Piece(0, 1, <<enabled>>)>>), replies))

(* Every writer reads and writes the byte before the next one is served.   *)
BitScript(mode, writers) ==
    LET write == BitFlipped(mode = "bit", <<Granting(<<Success>>)>>)
        Served(k) == <<ByteRead(<<Recalling>>), write>>
    IN  Handshake(240) \o <<ByteRead(<<>>), Barrier, Answer(<<Recalling>>), write>>
          \o Repeat(writers - 1, Served) \o <<ByteRead(<<Recalling>>), Disconnected>>

BitConversation(mode, writers) ==
    LET full == 2 ^ writers - 1
        writing(bit) == BitWrite(0, bit, mode = "bit")
    IN  [Conversing("compound " \o mode, BitScript(mode, writers),
            <<writing(0)>> \o [k \in 1 .. writers - 1 |-> Queued(writing(k))]
              \o <<Returning(Call(<<Read(0, 1)>>), <<IF mode = "bit" THEN full ELSE 0>>)>>)
           EXCEPT !.op = 2000, !.transfer = 6000, !.inOrder = FALSE,
                  !.memory = <<[at |-> 0, byte |-> IF mode = "bit" THEN 0 ELSE full]>>]

(* A dropped write is not repeated, although reads and writes may be.      *)
BitDrop ==
    [Conversing("compound bit-drop",
        Handshake(240) \o <<ByteRead(<<Recalling>>), BitFlipped(TRUE, <<>>), Close,
                            [NoMore EXCEPT !.ticks = 600]>>,
        <<Expecting(Tracing(BitWrite(0, 0, TRUE), <<"pending">>), "disconnected")>>)
       EXCEPT !.retries = 1, !.allow = TRUE, !.op = 2000, !.transfer = 6000,
              !.memory = <<[at |-> 0, byte |-> 0]>>]

Capacity(unit) == IF unit = 1 THEN 250 ELSE 150

TextScript(unit, mode) ==
    LET maximum == Capacity(unit)
        announced == IF mode = "bad-utf16" THEN 1 ELSE maximum
        told == CASE mode = "capacity-shrink" -> maximum - 1
                  [] mode = "capacity-grow"   -> maximum + 1
                  [] OTHER                    -> announced
        length == IF mode = "length-update" THEN 9 ELSE 4
        header == Expect(Body("read", <<Piece(0, 2 * unit, <<>>)>>), <<Telling(<<announced, 1>>)>>)
        BodyReply(offset) == IF mode = "bad-utf16" THEN <<Wrong>>
                             ELSE <<Telling(IF offset = 0 THEN <<told, length>> ELSE <<offset>>)>>
        body == InChunks("read", 222, 0, unit * (2 + announced), <<>>, BodyReply)
        withheld(request) == [request EXCEPT !.replies = <<>>]
    IN  Handshake(240) \o
        CASE mode = "success" ->
                <<withheld(header), Barrier, Answer(header.replies)>> \o body
                  \o <<Expect(Body("write", <<Piece(2000, 1, <<99>>)>>), <<Granting(<<Success>>)>>), Disconnected>>
          [] mode = "bad-header" ->
                <<[header EXCEPT !.replies = <<Telling(<<1, 2>>)>>], Disconnected>>
          [] mode = "deadline" ->
                <<withheld(header), Unbroken(Pause(InitialDelay)), Answer(header.replies),
                  withheld(body[1]), Pause(SecondWindow), Refuse>>
          [] mode \in {"bad-utf16", "capacity-shrink", "capacity-grow", "length-update"} ->
                <<header>> \o body \o <<Disconnected>>

TextCalls(unit, mode) ==
    LET text == TextRead(0, unit)
    IN  CASE mode = "success" -> <<text, Queued(Call(<<Write(2000, 1, <<99>>)>>))>>
          [] mode = "length-update" ->
                <<Returning(text, <<Capacity(unit), 1, Capacity(unit), 9>>
                                    \o Tail(OffsetsOf(222, unit * (2 + Capacity(unit)))))>>
          [] mode = "deadline" -> <<Expecting(text, "timeout")>>
          [] mode \in TextFaults -> <<Expecting(text, "protocol")>>

TextConversation(unit, mode) ==
    [Conversing("compound " \o mode \o ToString(unit), TextScript(unit, mode), TextCalls(unit, mode))
       EXCEPT !.op = IF mode = "deadline" THEN 6000 ELSE 2000,
              !.transfer = IF mode = "deadline" THEN 3000 ELSE 6000]

BitDeadlineScript ==
    Handshake(240) \o <<ByteRead(<<>>), Unbroken(Pause(InitialDelay)), Answer(<<Recalling>>),
                        BitFlipped(TRUE, <<>>), Pause(SecondWindow), Refuse>>

BitDeadline ==
    [Conversing("compound bit-deadline", BitDeadlineScript, <<Expecting(BitWrite(0, 0, TRUE), "timeout")>>)
       EXCEPT !.op = 6000, !.transfer = 3000, !.memory = <<[at |-> 0, byte |-> 0]>>]

(* The control: separate calls have a budget each, and the peer must see it. *)
FreshBudgets(conversation_, calls) ==
    [conversation_ EXCEPT !.name = @ \o " fresh budget", !.control = TRUE,
        !.calls = <<Lifecycle("connect")>> \o calls \o <<Lifecycle("disconnect")>>]

CompoundCases(writers) ==
    {BitConversation(mode, writers) : mode \in BitModes}
    \union {TextConversation(unit, mode) :
                unit \in {1, 2}, mode \in (TextFaults \ {"bad-utf16"}) \union {"success", "length-update", "deadline"}}
    \union {TextConversation(2, "bad-utf16"), BitDrop, BitDeadline}
    \union {FreshBudgets(TextConversation(unit, "deadline"),
                         <<Call(<<Read(0, 2 * unit)>>), Call(<<Read(0, 222)>>)>>) : unit \in {1, 2}}
    \union {FreshBudgets(BitDeadline, <<Call(<<Read(0, 1)>>), Call(<<Write(0, 1, <<1>>)>>)>>)}
=============================================================================
