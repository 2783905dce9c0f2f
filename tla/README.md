# A TLA+ model of the lean-s7 client and its fault campaigns

lean-s7 is a client for classic S7comm (S7 over COTP over TPKT over TCP), written in Lean 4. Its
pure parts (codecs, planners, decoders) carry Lean theorems beside them; its stateful part is `IO`
code that no Lean theorem reaches: threads sharing one client, a session that fails and is
reconnected, deadlines, and a byte stream. The repository tests that part with campaigns written in
Python: scripted peers that answer late, twice, wrongly or not at all, and oracles that tell what
the client must make of it. This directory models both, checks them with TLC and proves theorems
about them with TLAPS. Paths below are relative to `src/`; those without a directory are in
`LeanS7/`.

## Inventory

| Part | State it keeps | Operations | Interacts with |
| --- | --- | --- | --- |
| Serialization gate: `Client.serialized` (Client.lean:235), `Correlation.Gate` | tail of a promise chain, issued and finished tickets | submit, bind, start, finish, resolve | every public operation passes through it |
| Session: `Client`, `Lifecycle` | connection, lifecycle state, current PDU length, next reference | exchange, close, reconnect, disconnect | gate, transport, retry policy |
| Retry policy: `RetryPolicy`, `ClientError` | none | classify, permit, budget | session |
| Correlation: `Correlation` | stale allowance of one exchange | step | session |
| Write progress: `WriteProgress` | history of attempts, outstanding attempt | sent, acknowledge, replay, globalReject, snapshot | writes, retries |
| Receive path: `Transport`, `TPKT`, `COTP.Reassembly` | bytes of the current part, segments, deadline | receive exactly, frame, segment, TSDU, reply | session, peer, clock |
| Connection establishment: `Transport.connect*`, `connectSession` | candidates, socket, deadline | resolve, connect, confirm, set up | session, peers, clock |
| Area and multi-item transfers: `Client`, `Chunking`, `MultiValidation` | remaining items and chunks, offset, results | validate, plan, request, continue | session, write progress |
| Compound operations (Client.lean:1398) | none between calls | bit write, STRING and WSTRING read | gate, area transfers |
| USER_DATA services: `Management`, `UserDataAssembly` | fragments, sequence, data unit reference | SZL, block lists, clock, security | session |
| Block transfers: `Upload`, `Download`, `Advanced` | phase, offset, assembly, deadline of the transfer | upload with END cleanup, PLC-driven download | session, PLC as a requester |
| Fault campaigns: `integration/*.py` | position in a script, references seen, memory, connections | accept, expect, answer, delay, close, judge | the client, over TCP |
| Portable history oracles: `integration/session_conformance.py`, `conversation_conformance.py` | lifecycle, attempts, pending request, reference | lifecycle, retry, send, acknowledge, read | compared with `SessionConformance` and the client's policies |
| Codecs: `S7`, `Binary`, `Value`, `TPKT`, `COTP` | none | encode, decode | all |
| Emulator, captures, minimizers, measurements, tools, Lean proofs | none of the client | - | public operations |

What is hard about them, with the line where it bites and the property that would catch it, is the
hazard list of `PROJECT.json`. In short:

- threads overtake each other between a ticket and a bound task;
- a failed exchange leaves a request that may be answered later; replies are repeated and
  references wrap;
- the outcome of a write whose reply is lost is unknown, and a retry repeats it;
- the PDU length changes under operations planned for another one;
- bytes come in arbitrary pieces while a timer runs, and one budget has to span many waits;
- an attempt to connect, an upload or a list of writes fails half way;
- a list of results, a text or a bit is made of several requests between which the PLC goes on;
- the oracle that certifies a client is itself a state machine that may forget an attempt.

The parts are correct when, respectively, operations do not overlap and all return; no reply is
taken for the answer to another request; a mutation has the effect that its progress reports, at
most once; every request fits its PDU; the reply delivered is the one on the stream, within the
deadline of the whole operation; nothing that was tried is left open, on the network or on the PLC;
calls return what the peer's memory held and peers see nothing they do not expect; and the oracle
and the client's policies tell the same story.

## Modules

| Module | Models | Built on |
| --- | --- | --- |
| `SerialQueue` | what `Client.serialized` promises: a FIFO queue, one call running | - |
| `SerializationGate` | how it keeps the promise: tickets and promises | refines `SerialQueue` |
| `SessionPolicies` | lifecycle, error classes, retry policy, reference counter, correlation step | - |
| `WriteProgress` | the record of a write's attempts | - |
| `ClientSession` | calls sharing a session: exchange, failure, reconnection, replay, disconnect | the two above; admits calls as `SerialQueue` does |
| `Deadlines` | absolute deadlines and their minimum | - |
| `ReceivePath` | the stream of bytes read as frames, segments, TSDUs and replies | `SessionPolicies`, `Deadlines` |
| `ConnectionSetup` | one attempt to connect | `SessionPolicies`, `Deadlines` |
| `TransferPlan` | address and length limits, chunk and batch arithmetic | - |
| `AreaTransfer` | readArea, writeArea, readMulti, writeMulti inside the gate | `TransferPlan`, `WriteProgress` |
| `BlockTransfer` | upload and download of a block, with the peers of the driver | `SessionPolicies`, `Deadlines` |
| `Conversation` | a scripted peer, the client it exercises, and the process that judges both | `SessionPolicies`, `WriteProgress`, `Deadlines`, `TransferPlan` |
| `Campaigns`, `RequestCampaigns`, `SequenceCampaigns`, `ServiceCampaigns` | the scripts and expectations of each campaign | each other, `Conversation` |
| `SessionHistories` | the oracle of one active request beside `SessionConformance.step` | `SessionPolicies`, `WriteProgress` |
| `ConversationHistories` | the oracle of conversations beside the client's policies and codecs | `SessionPolicies`, `WriteProgress` |
| `MC*` | instances for TLC | the module they are named after; `MCHistories` both histories |
| `SerializationGateProofs`, `ClientSessionProofs`, `ReceivePathProofs`, `ConnectionSetupProofs`, `AreaTransferProofs`, `BlockTransferProofs`, `HistoriesProofs` | theorems | the module they are named after |
| `DataInduction` | lemmas: induction over numbers, functions defined by recursion, `FlattenSeq` | - |

The layers meet at small interfaces. `ClientSession` takes an admitted call from a queue, because
`SerializationGate` is checked to implement that queue, and the safety part of it is proved; it
takes a reply as a message, because `ReceivePath` shows which reply the bytes of a stream give; a
reconnection either installs a session with some PDU length or fails with an error kind, as
`ConnectionSetup` shows; and `AreaTransfer` takes the outcomes of each exchange, including its
replay, that `ClientSession` produces. `Conversation` composes the layers once more, in one model:
queue, connection with handshake, retry policy, correlation, planning, progress and deadlines,
against peers that know what they must see.

### SerializationGate

`Client.serialized` is five steps, each atomic in the code: taking a ticket together with the tail
of the chain (`requestTail.modifyGet`, `Submit`), `IO.bindTask` (`Bind`), the start of the bound
task once the previous promise is resolved (`Begin`, with the `mayStart` check that may refuse),
`state.finish` (`Finish`) and `gate.resolve` (`Resolve`). The operation itself is the time between
`Begin` and `Finish`. Tickets are numbered without reuse up to `MaxTickets`, a bound of the model.

### ClientSession

A step of the running operation reaches from one wait to the next: only the operation that holds
the gate writes the connection, the lifecycle state and the write progress, so what it does between
two waits is not observable: in particular `closeCurrent` writes the connection and then the
lifecycle state, of which others can only read the second (`isConnected`). What threads do outside
of the gate is interleaved: `PrepareControl` takes a reference, `PrepareRaw` checks a raw request
against the PDU length, and `AdoptPduLength` is a step of its own because that check reads the
length without synchronisation. A call is

- `Start` (validation and planning), then per request `BeginExchange` (or `AttemptExpired`),
  `Reconnect`/`ReconnectFails` for a retry, `Send`, and `Receive` or `ReceiveFails`;
- `Succeed` or `Fail`, which run the handler of the operation (closing the session, classifying,
  snapshotting the progress), or `Disconnect`.

A send that fails is a `Send` followed by `ReceiveFails`: the PLC may or may not have got the
request, as in the code. The PLC (`PlcServes`) carries requests out and answers them once or
twice, or never. When a connection is given up, its requests become `stray`: they may still be
served, in any order, also after the operation or the session has ended (`StrayServedOrLost`).
References wrap modulo 8 instead of 65536. An exchange is abstracted to one connection and its
messages; time is the possibility that a wait or the transfer is over.

### ReceivePath

A stream of frames is chosen first; its bytes arrive in any pieces (`Arrive`), including none.
The sizes of the TPKT and DT headers are the real ones (4 and 3); a payload is a short sequence
whose first element stands for the S7 header with its reference. Bytes that are not a frame header
could read as any frame, and `Aligned` shows that no such bytes are interpreted. As in the code,
the deadline is checked before and after each wait.

### ConnectionSetup

Each stage of `connectAddress` and `connectSession` is an action; `TimesOut` and `StageFails` are
its failures, with the error kinds that decide on fallback. The TCP handshake is an action of the
environment (`TcpCompletes`) because it may complete after the client has stopped waiting for it.
A size parameter of COTP is its exponent, 0 standing for one that is not a byte long.

### TransferPlan and AreaTransfer

`TransferPlan` is the arithmetic: limits in bits or bytes, the maximum of one request, the chunk
plan, and the budgets of a batch. Payloads are represented by their sizes, byte areas by one area
and counters and timers by another. `AreaTransfer` is the loop of the four operations: `Validate`,
then `SendBatch`, or `CutItem` and `SendChunk`, then `Send`, and `Answered`, `Retry` or
`ExchangeFails`. A request is planned for the PDU length of its time; the reconnection before the
replay of the first request (`Retry`) may install a larger one, never a smaller one
(`Client.reconnect` refuses that).
`closed` is whether the handler of the operation closed the session: readMulti closes it on any
error of its loop, writeMulti on anything but invalid input, and single reads and writes keep it
when the PLC refused. For writes of a single item a refusal is an error and is recorded as a
rejection of the request; in lists it is the result of its item.

### BlockTransfer

One transfer and its PLC. An upload is driven by the client: `SendStart`, `RequestFragment` until
the last fragment was accepted (`AcceptFault` is `Upload.accept`), `EndUpload`. What goes wrong
between the first fragment and the end goes through `cleanup`: END_UPLOAD is sent once more if the
session is still there and time is left, its own errors are swallowed, and the first error is
reported. A download is driven by the PLC: the client sends the request, then waits for a job
(`AwaitJob`), answers it with the next slice or with the end, and finally has the block inserted.
Only the start is retried, on a new connection. The deadline of the transfer is computed once
(`Begin`); every wait is cut to what is left of it (`WaitUntil`).

The PLC is one of the peers of `integration/run.py`: `mode` names the fault, `PlcAfter` and
`PlcReplies` are what it does with a request, `PlcAsks` its jobs. Modes without a peer there complete
them, each for a branch of the client: a PLC that may close at any moment (`fragile`), one that never
ends (`endless`), one that declares no length or more than the safety limit, and one that refuses
the block or its insertion. A byte of a block is its position, so that a lost, repeated or reordered fragment shows.

### Conversation and the campaigns

`links` are the TCP connections with what is on the way in each direction and who has closed;
`peer` is the position in its script, the references it has seen and its memory; `client` is the
session and the call that holds the gate, phase by phase; `report` is what each call returned;
`runner` is the process of the campaign, which launches calls behind the first one and judges at
the end; `now` is in milliseconds.

A script is the serve loop of a peer as a sequence of instructions: accept, expect this request and
send these replies, answer later, take one of several scripts, sleep, close, see the client close,
see nobody connect any more. The peer fails on anything else, as the assertions of the Python
peers do. A body is abstracted to pieces of memory (start, count, value), a reply to a verdict: what
a decoder of the client makes of it. A pattern payload is a salt and a position, so that a chunk
with the wrong part of it shows. `Control` conversations are those in which the campaign's own check
must refuse a faulty client.

Time passes only when client, peer and runner all wait, and then up to the next instant that one of
them waits for: the intervals of the campaigns are hundreds of milliseconds, what is computed
between them is not. This keeps the conversations with deadlines exact: a reply that is due at the
deadline is not taken.

The campaign modules follow the Python files one by one; a heading names the file. Fixed plans are
complete. Of generated plans (live correlation, boundaries, mixed and overlapping operations,
concurrency) a sample is held in which every category occurs in more than one order; the numbers of
threads are reduced to two callers behind the first and three concurrent writers.

### SessionHistories and ConversationHistories

Both hold two accounts of the same events and feed both with one event per step. In the first the
oracle is `session_conformance.trace`, which decodes responses for itself, and the other side is
`SessionConformance.step` over the retry policy, the write progress and the decoders; the events are
those that `session_fuzz` draws, mutations of responses included, and the controls of its
self-test. In the second the oracle is `conversation_conformance.trace`, with the client's lifecycle,
policies and codecs beside it, and the scripts of its self-test as controls. The bytes of a step are
left out: `wire()` refuses a corpus in which those of the client and those of the oracle's own
encoder differ, so that one `Encodes` serves both accounts; what each makes of a range that cannot be
encoded is its own.

## Runs

| Run | Question | Instance | Properties |
| --- | --- | --- | --- |
| `gate` | Do operations exclude each other, with exact counts, and is the gate a fair FIFO queue? | 3 threads, 8 calls | `TypeOK` `Exclusive` `NeverRefused` `PendingCountsCalls` `ImplementsSerialQueue` |
| `session_lifecycle` | What does an operation leave behind for the next one, and does every call return? | 2 calls of all kinds, 2 PDU lengths, 2 chunks, 1 retry, replays of mutations allowed | `SessionAgrees` `NoUnansweredRequest` `RequestsFit` `EveryCallReturns` |
| `session_correlation` | Can a reply be taken for another request's, a mutation repeated or overtaken? | 3 calls, default policy, 2 repeated replies, 1 retry, references wrap | `NoCrossedReplies` `BoundedEffects` `NoOvertaking` |
| `session_replay` | Is the reported progress true when replays are allowed? | 2 reads or writes, 2 chunks, 2 retries, 1 repeated reply | `ProgressIsSound` `UncertaintyIsReported` |
| `receive` | Is the right reply delivered, in bounded memory, work and time, whatever the pieces? | all streams of up to 3 frames of all kinds and of 5 tiny ones, 2 segments, 1 stale reply, 2 ticks | `Aligned` `WorkBounded` `DeliversTheAnswer` `NothingAfterDeadline` `ExchangeEnds` |
| `connection_setup` | What is left open, negotiated and tried next, within which budget? | 2 addresses, 5 resolutions, 9 parameter lists, 6 PDU lengths, 2 ticks | `NothingLeftOpen` `NegotiationHolds` `AnsweringPeerIsLast` `OneBudget` `ConnectEnds` |
| `area_transfer` | Do requests fit, cover their items, and do results and progress agree? | items around every limit for PDUs of 240, 241, 480 and 65535 bytes, alone, in pairs, triples and a list of 21 | `RequestsFit` `ItemsAreTiled` `ResultsBelong` `ProgressExplainsResults` |
| `block_transfer` | Is a block moved whole or not at all, and is what is given up ended and reported? | every mode, blocks of 1 to 4 fragments, PDU lengths 19 and 21, 1 replay, budgets 2 and 3, 3 ticks | `WholeBlock` `GivenUpIsEnded` `ReportsTheFault` `OneBudget` `TransferEnds` |
| `histories` | Do the portable oracles and the client's policies tell the same story? | histories of up to 4 events, 2 references, budgets to 2, 2 items, and all controls | `OracleAgrees` `EverySendAccounted` `ControlsEnd` `ConversationAgreesOnRequests` |
| `campaigns` | Do peer and client agree in every conversation of the campaigns? | 523 conversations, real PDU lengths, references and budgets | `PeerAgrees` `AsExpected` `ConnectionsCounted` |
| `connection_failed` | Is a failed connect without an established connection? (violated) | as `connection_setup` | `FailedConnectIsNotUp` |
| `histories_diverge` | Does the oracle of conversations refuse what cannot be encoded? (violated) | as `histories` | `UnencodableIsRefused` |

Runs with liveness do not use symmetry. The type invariants of the components other than the gate
are conjuncts of one of the properties above; those of the session, the receive path and the
connection are also proved, as part of their inductive invariants.

Deadlock is checked in `campaigns`, where a conversation that is over stutters and any other that
stops is a deadlock of peer, client and runner. In the other runs the model may stop: threads need
not call again, an exchange, a connection attempt, a transfer and a history end, and the bounds stop
them. What would be a deadlock of the program there - an admitted call that nobody serves - is
`EveryCallReturns` and the fairness part of `ImplementsSerialQueue`.

Why the bounds are enough: three threads are the fewest for which one can be overtaken by a second
while a third runs, and eight calls let each of them call again. Two chunks distinguish the first
request of a transfer, which may be repeated, from the others. Two attempts and one repeated reply
give an old reply, a new one and one too many. The counter starts two short of its wrap, so that
references before and after it are outstanding together; with three calls none is used twice, which
is why `NoCrossedReplies` may hold (see below). Two segments and one stale reply give the first, the
last permitted and the first refused one of each. In the planners every limit is met exactly and
exceeded by one. The deadlines 1 and 2 of an operation and a transfer are ordered so that the
earlier one is not the operation's own; in `block_transfer` either may be the earlier, depending on
when the wait begins. A block of four bytes in fragments of one or two, against a limit of three
fragments and six bytes, has a first, a middle, a last and an excess fragment; PDU lengths 19 and 21
give slices of one and three bytes, so that the last slice is short. In `histories` four events are
a send, its failure, a second send and an answer to either; an area of two bytes has ranges inside,
at and beyond its end; and a data section of eleven bytes (`MaxData`, 65535 in the code) holds any
item, but two only if the last has one byte, so that lists are refused whose items each fit. The
campaigns have their own bounds, which are kept.

### Findings

`connection_failed`: the comment at Transport.lean:275 says that a failed TCP connect has no
established write side to shut down. `awaitUntil` checks the deadline again after the connect has
completed (Transport.lean:132-134), and its timer may win the race against a completed connect; in
both cases `connectAddress` fails with an established connection and `established` still false,
and does not shut it down. It is left to the finalizer of the socket. `NothingLeftOpen` therefore
speaks of connections on which the client has sent something.

`histories_diverge`: conformance/v1/README.md:83 describes the step `read` of a conversation as
"encode `request_pdu` and decode `response_pdu` for the specified DB". Of a read that begins inside
its area and ends beyond it the oracle knows that no request can be encoded: `request()` returns
nothing (conversation_conformance.py:81), and `wire()` demands that the step has no request bytes
(line 250). But its outcome (lines 262-271) looks only at a count of zero and at the length of the
answer, and accepts the read with its payload, where the client rejects it (`encodeAreaReadMany`
refuses a range beyond the addressable area) and the oracle itself rejects such a send (line 202).
The run ends with such a read. The corpus holds none, and conformance/v1/README.md:37-40 claims
nothing of inputs outside it: the oracle differs from its description, not the client from the
corpus. `ConversationAgreesOnRequests` is the agreement that remains, and it is proved. It excuses
the results of two exchanges only, which the history variable `unasked` names when they happen: that
read, and the acknowledgement of no pending write, of which the oracle takes an empty answer and the
client's decoder none.

### Fairness

- `SerializationGate`: weak fairness of each thread's admitted steps. Lean runs every task that
  can run, and an operation ends (below). Whether to call is left to the threads.
- `ClientSession`: weak fairness of the client's own steps, a failed receive included: with an
  `operationTimeoutMs` (5000 by default) a receive ends. The PLC, the network and the transfer
  deadline are given none.
- `ReceivePath`, `ConnectionSetup` and `BlockTransfer`: the clock ticks, timers fire, and the client
  takes the steps that depend on nobody else. Peers, PLCs and the resolver are given none.

Assumed and not guaranteed by the code: sends complete. `sendBytes` takes a timeout and ignores it
(Transport.lean:79), and so does the `shutdown` after a failed connect. With `operationTimeoutMs`
set to none, a silent PLC blocks an operation and the gate for good. This is the one hazard that no
property covers.

## Proofs

All theorems hold for every value of the constants that satisfies the assumption named in the
component's module (`MaxTicketsAssumption`, `SessionAssumption`, `ReceiveAssumption`,
`SetupAssumption`, `TransferAssumption`, `BlockTransferAssumption`, `SessionHistoriesAssumption`,
`ConversationHistoriesAssumption`, and
`ReferenceModulusAssumption`, that there is a reference): any threads, calls, retries, chunks,
streams, addresses, items, blocks, budgets and clocks. TLC evaluates the assumptions in each run.

`SerializationGateProofs`. `TypeOK`, `Exclusive`, `NeverRefused`, `OldestRuns` and
`PendingCountsCalls`. None of them is inductive: a thread begins because the promise before its own
is resolved, which says nothing of other threads unless tickets and promises are related. The
invariant `GateInv` adds

- `TailIsLast`: the promise at the tail belongs to the last ticket issued;
- `ChainFollowsTickets`: an admitted call holds an unfinished ticket and waits for the promise of
  the ticket before it;
- `ResolvedAreFinished`: a resolved promise belongs to a finished ticket - the reason for the order
  of the two statements in the `finally` of `serialized`;
- `TicketsDiffer` and `RunningIsNext`: tickets are not shared, and the running call holds ticket
  number `finished`.

From these a call whose promise is resolved holds exactly the ticket `mayStart` wants. Exactness of
the count is a second invariant, `CountInv`: the admitted calls are a finite set whose cardinality
is issued minus finished. `GateIsAQueue` is the refinement: the queue of the abstract specification
is the sequence of holders of the unfinished tickets; a submission appends to it, the completion of
an operation drops its head, and every other step of tickets and promises is a start or a stutter.

`ClientSessionProofs` has five parts; the first four are each an inductive invariant on top of those
before it.

1. `SessionAgrees` and `RequestsFit`. The invariant `SessionInv` says of the running operation, at
   each of its waits, which PDU length it was planned for (`PlansHold`), how many sends it may have
   made (`RunHolds`), that the queue holds each admitted call once (`QueueHolds`) and how connection,
   lifecycle and PDU length go together (`ConnectionHolds`). A request planned long ago still fits
   because the length of a client only grows: a session with a smaller one is dropped.
2. `BoundedEffects`, `NoUnansweredRequest` and `NoOvertaking`. `EffectInv` follows the identifiers of
   requests: those of a call that has not returned belong to the running one and to sends it has made
   (`IdsHold`); what must not be repeated is not about to be sent again (`EffectsHold`); and the wire
   carries at most the request that is waited for, and none once the operation has ended (`WireHolds`).
3. `UncertaintyIsReported`, and `ProgressIsSound` of executions in which no reply was crossed.
   `ProgressInv` says that the n-th attempt on record is the n-th request of the write that was sent
   (`AttemptsHold`), that a request has no effect before it is served and a reply tells the truth about
   it (`RepliesHold`), and that what was reported stays true although old requests are still served
   (`ReportsHold`).
4. `NoCrossedReplies`, and with it `ProgressIsSound` without a condition. `CorrelationInv` says that
   only the awaited request and its reply carry the reference that is waited for (`OwnHolds`). This is
   not so for every use of the counter, which wraps: a control takes its reference before it waits for
   the gate, a raw request brings its own, and a counter that goes all the way round meanwhile issues
   theirs again. It is proved under `ReferencesTell`, either of two conditions that a user of the client
   can keep: `OneByOne`, no controls and raw requests, for any number of calls and of rounds of the
   counter (`InTurn`: an open connection carries at most repetitions of the last reply when the next
   reference is taken); or `FewReferences`, the counter does not reach the raw reference
   (`Distinct`: every reference issued is held by one exchange or one control). The instance of
   `session_correlation` satisfies the second.
5. `SessionUsesTheGate`: every step of a session admits a call, starts the oldest one, ends the one
   that runs, or leaves the queue alone, so that the calls use the gate as `SerialQueue` offers it. With
   `GateIsAQueue` this is why `ClientSession` may have one running call instead of tickets and promises.

`ReceivePathProofs`. `WorkBounded` and `NothingAfterDeadline`: the frames read so far are bounded by
the skipped replies and the segments of the current TSDU (`PathInv`), and both deadlines are counted
from the start. `Aligned` and `DeliversTheAnswer` need to know where the client is in the stream:
its place is the end of the frames it has read, however the bytes came in pieces (`PositionInv`), what
it holds is the frames since the last complete reply, and each reply before that was well formed,
complete and of another reference (`TsduInv`). So the reply delivered is the first one that answers,
after at most the permitted number of skips, and a peer accused of a protocol error gave none.

`ConnectionSetupProofs`. `NothingLeftOpen`, `NegotiationHolds`, `AnsweringPeerIsLast`, `OneBudget`.
`SetupInv` knows which connection is established (`EstablishedIsUp`), that an address spoken to is
the current one or shut and not tried again (`SpokenIsBehind`, which needs `CandidatesDiffer`, the
removal of the resolver's duplicates), and what was confirmed (`ConfirmedSize`).

`AreaTransferProofs` has three parts, for lists of items of any length and size.

1. `RequestsFit` and `ResultsBelong`. `CoreInv` says of each stage of a call that the items are still
   valid for the PDU of the session (`PhaseHolds`; it only grows), that the chunks left and the bytes
   moved make up the current item (`ChunksHold`), and which items the outstanding batch is
   (`BatchHolds`). Sizes are sums over lists; that the sum on the wire is at most the sum that was
   planned, which pads the last item too, is `DataFits`, and that a chunk stays inside of its item,
   hence inside of the address space, `EndsInside`. It follows as well that invalid input is only
   ever found before the first request (`RefusedBeforeSending`).
2. `ItemsAreTiled`. `TileInv` knows of every item how far its parts reach: the whole item once it
   succeeded (`ResultsReach`), `offset` for the one that is being cut (`ChunksReach`), and nothing for
   those ahead, unless they are in the batch on its way (`Ahead`).
3. `ProgressExplainsResults`. `AccountHolds` follows the attempts on record: those of an item with a
   result tell its status (`ResultsAccounted`); those of an item ahead, with the part in flight, are
   all that was requested of it (`AheadAccounted`); every part requested is on record or in flight
   (`PartsAccounted`); and a refusal of the whole request is on record exactly if the call failed
   for it (`RejectionTold`). A repeated request is recorded once more as uncertain, which changes what
   is on record and never what an item was told.

`BlockTransferProofs`. `OneBudget`, `GivenUpIsEnded`, `WholeBlock` and `ReportsTheFault`. For the first, no wait reaches
beyond the transfer (`BudgetInv`). For the second, `UploadHolds`: from the moment END_UPLOAD is sent it
is on its way with only a disconnect behind it, or served, or the PLC has closed; a start is only
acknowledged or refused, and a cleanup without a session is one after a failed exchange. For the third,
`ContentInv` knows of each side's bytes that they are the positions from 1 without a gap. In an upload
what the PLC has sent is what the client has and the fragment on its way; in a download the PLC asks
for the slice after the bytes it has, and is told of the end when the slices have reached it. For the
fourth, `FaultInv` follows the fault of a scripted PLC as `ContentInv` follows the bytes: it is still to
come, in the one message on its way, or the error that the client keeps through its cleanup. This needs
`FaultsShow`, a block of at least four bytes (room for a fragment that ends too early, twice) and
within the upload safety limit; otherwise some fault is none: the short fragment of
`upload-midstream-short` is not short of a block of three bytes, and a block beyond the limit is refused
for its size before the fault is reached.

`HistoriesProofs` has three parts, all for histories of any length.

1. `ConversationAgreesOnRequests` over any ranges: both sides keep the same account (`SameAccount`),
   and results differ only of the two exchanges that no PLC was asked for (`ResultsMatch`). Which
   event was one of them is what the history variable `unasked` keeps; no step depends on it.
2. `OracleAgrees` and `EverySendAccounted`, for any retry budget and any number of items (of the
   two sizes in `Ranges`). `SessionInv` says that the state of the policies is a function of the
   oracle's (`ModelOf`), which every event preserves, and `Good` what both rest on. The two decode
   answers in different ways, the oracle with an offset into the data and the client with a cursor over
   what is left of it: after each item the cursor is the rest beyond the offset (`ItemAgrees`), so
   that one ends exactly where the other has nothing left (`ItemsAgree`), whatever the data. They
   refuse the same events and fail in the same way because no request is active in a closed session.
   `AttemptsHold` finds the attempts of each send in the report: all those of
   a request that may still be sent again are uncertain, and only then is another one added.
3. `ControlsEnd`: the fixed controls of both self-tests end as these expect, with any budget, reference,
   items and ranges that their configurations allow. `ScriptInv` and `ControlInv` say where each
   control stands after each number of events; the rest is what each event does from there. Controls
   write any two items that one request can hold (`Writable`). A PLC that answers with the next
   reference can only be told apart if there is another one: `ReferenceModulus # 1` (2^16 in the code).

`DataInduction`. Invariants over sequences of any length need induction, and the library's induction
theorems take an operator as a parameter. Here induction is the existence of a least counterexample
(`LeastNumber`, from the well-foundedness of the naturals); with it a function defined by recursion
satisfies its equation (`Recursion`), and `FlattenSeq` joins sequences one after the other
(`FlattenOneMore`, `FlattenConcat`), as it does what is chosen from them (`ChosenConcat`). For this
reason `ReceivePath` defines the end of a frame and `TransferPlan` the sum of sizes by recursive
functions, and `WriteProgress` and `AreaTransfer` select attempts and parts with `FlattenSeq`.

Only model-checked:

- liveness, which the prover does not reach, and with it the fairness part of the refinement;
- `NoCrossedReplies` and `ProgressIsSound` where `ReferencesTell` does not hold: the first is false for
  a counter that goes all the way round while a control waits;
- `ReportsTheFault` of a block that does not satisfy `FaultsShow`, where it is not true of every peer;
- the properties of the campaigns, `PeerAgrees`, `AsExpected` and `ConnectionsCounted`: the
  conversations are finite scripts, and the run follows each of them to its end.

## Not modelled

- Byte formats and value codecs: pure functions with Lean theorems about every input, to which a
  finite check would add nothing. Sizes and field limits of area requests are in `TransferPlan`.
- The contents of USER_DATA payloads, hence the limit on the size of an assembled answer; the limit
  on the number of fragments is modelled.
- The DISCONNECT message in `ClientSession` (it is in `BlockTransfer` and `Conversation`), TSAPs and
  COTP references.
- Sends that block (above).
- Of the Python side: plan minimizers and recipes (tools around a failure), the emulator for the
  happy paths, consumers of captures and vectors (pure comparisons), and the measurements of
  descriptors, memory, time and packages.
- The command-line tools, and the Lean proofs and tests, which were read as statements of intent.

`AllowMutatingRetries` lets an old attempt of a write be served after a newer one, as its
documentation says; `NoOvertaking` is claimed without it. `MaxTickets`, `MaxTime`, `MaxChunks`,
`MaxDuplicates` and `MaxEvents` (1024 in the code) bound the model and not the program.

## Plan

Everything planned is modelled. What would add most next:

1. A larger sample of the generated plans, one run per campaign, where a run may take longer.
