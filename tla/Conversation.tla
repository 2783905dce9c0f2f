---------------------------- MODULE Conversation ----------------------------
(***************************************************************************)
(* One conversation of the integration campaigns: a scripted peer, the     *)
(* client whose calls it provokes into retries, rejections and failures,   *)
(* and the process that runs both and judges them.  A script is the serve  *)
(* loop of a peer: what it accepts, expects, answers and closes, in order. *)
(* The peer fails on anything else.  Bytes are abstracted to pieces of     *)
(* memory, one value per piece, and verdicts: what a decoder of the client *)
(* will make of an answer.                                                 *)
(***************************************************************************)
EXTENDS SessionPolicies, WriteProgress, Deadlines, TransferPlan, FiniteSets

CONSTANT Conversations      \* the set of conversations to hold

VARIABLES
    conversation,  \* the one that is held; never changes
    links,         \* TCP connections, oldest first: messages on the way and who closed
    peer,          \* how far its script is
    client,        \* the session and the call that holds its gate
    report,        \* what each call has returned
    runner,        \* the campaign's process
    now            \* milliseconds

vars == <<conversation, links, peer, client, report, runner, now>>

(* The record is kept in the state: an instance is held, not looked up.    *)
Case == conversation

ASSUME ConversationsAssumption ==
    \A c, d \in Conversations : c.name = d.name => c = d

-----------------------------------------------------------------------------
(* Requests and calls                                                      *)

Body(fn, pieces) == [fn |-> fn, pieces |-> pieces]
Piece(start, count, value) == [start |-> start, count |-> count, value |-> value]

(* What a call asks for: memory, in bytes, or one request of a service.    *)
Item(fn, start, count, value) ==
    [fn |-> fn, area |-> "bytes", start |-> start, count |-> count,
     payload |-> IF fn = "write" THEN count ELSE 0, value |-> value]
Read(start, count)         == Item("read", start, count, <<>>)
Write(start, count, value) == Item("write", start, count, value)
Service(fn)                == Item(fn, 0, 0, <<>>)

IsArea(item) == item.fn \in {"read", "write"}

(* The payload of a write is one byte, or a pattern: a salt and the place  *)
(* in the pattern of the first byte.                                       *)
Pattern(salt) == <<salt, 0>>
Slid(value, count) == IF Len(value) = 2 THEN <<value[1], value[2] + count>> ELSE value
ByteAt(value, index) ==
    IF Len(value) = 2 THEN (value[1] * 17 + (value[2] + index) * 43) % 256 ELSE value[1]

UpdateBit(value, bit, enabled) ==
    LET power == 2 ^ bit
        isSet == (value \div power) % 2 = 1
    IN  IF enabled = isSet THEN value ELSE IF enabled THEN value + power ELSE value - power

(* A call, when it is made, and what the campaign's process expects of it. *)
Call(items) ==
    [fn |-> "area", items |-> items, when |-> "turn", kind |-> "ok",
     checks |-> {}, trace |-> <<>>, results |-> <<>>, cleanup |-> "none", unit |-> 0]
Multi(items)          == [Call(items) EXCEPT !.fn = "multi"]
(* A bit is read and written back with its byte; a text is read after its  *)
(* header, two lengths of one unit each.                                   *)
BitWrite(start, bit, enabled) ==
    Call(<<Read(start, 1), Item("flip", start, 1, <<bit, enabled>>)>>)
TextRead(start, unit) == [Call(<<Read(start, 2 * unit)>>) EXCEPT !.fn = "text", !.unit = unit]
Lifecycle(fn)         == [Call(<<>>) EXCEPT !.fn = fn]
Queued(call)          == [call EXCEPT !.when = "launch"]
Expecting(call, kind) == [call EXCEPT !.kind = kind]
Tracing(call, trace)  == [call EXCEPT !.checks = @ \union {"trace"}, !.trace = trace]
Returning(call, results) ==
    [call EXCEPT !.checks = @ \union {"results"}, !.results = results]

-----------------------------------------------------------------------------
(* Scripts                                                                 *)

Instruction(op) ==
    [op |-> op, kind |-> "none", body |-> Body("none", <<>>), identity |-> "fresh",
     reference |-> 0, replies |-> <<>>, ticks |-> 0, choices |-> <<>>]

Accept      == Instruction("accept")
Close       == Instruction("close")
Refuse      == Instruction("refuse")
Barrier     == Instruction("barrier")
Sleep(time) == [Instruction("sleep") EXCEPT !.ticks = time]
Pause(time) == [Instruction("pause") EXCEPT !.ticks = time]
Unbroken(pause) == [pause EXCEPT !.kind = "unbroken"]
Answer(replies) == [Instruction("answer") EXCEPT !.replies = replies]
NoMoreIn(time) == [Instruction("noMore") EXCEPT !.ticks = time]
NoMore      == NoMoreIn(150)
Closed      == [Instruction("closed") EXCEPT !.kind = "any"]
Disconnected == [Instruction("closed") EXCEPT !.kind = "disconnect"]
OnlyClosed  == [Instruction("closed") EXCEPT !.kind = "nothing"]
AnyOf(scripts) == [Instruction("anyOf") EXCEPT !.choices = scripts]
SomeOf(scripts) == [AnyOf(scripts) EXCEPT !.kind = "any"]

Reply ==
    [delta |-> 0, verdict |-> "ok", codes |-> <<>>, values |-> <<>>, more |-> FALSE,
     recall |-> FALSE, pdu |-> 0, unit |-> 0, token |-> 0]
Granting(codes)  == [Reply EXCEPT !.codes = codes]
Telling(values)  == [Granting(<<Success>>) EXCEPT !.values = values]
Recalling        == [Granting(<<Success>>) EXCEPT !.recall = TRUE]
Wrong            == [Reply EXCEPT !.verdict = "wrong"]
Refusing         == [Reply EXCEPT !.verdict = "global"]

Expect(body, replies) ==
    [Instruction("receive") EXCEPT !.kind = "request", !.body = body, !.replies = replies]
Again(instruction) == [instruction EXCEPT !.identity = "repeat"]
Flipping(instruction) == [instruction EXCEPT !.identity = "flip"]
Numbered(instruction, reference) ==
    [instruction EXCEPT !.identity = "numbered", !.reference = reference]
ExpectCr(replies) ==
    [Instruction("receive") EXCEPT !.kind = "cr", !.identity = "any", !.replies = replies]
ExpectSetup(replies) ==
    [Instruction("receive") EXCEPT !.kind = "setup", !.identity = "any", !.replies = replies]

Negotiating(pdu) == [Reply EXCEPT !.pdu = pdu]
Handshake(pdu) == <<Accept, ExpectCr(<<Reply>>), ExpectSetup(<<Negotiating(pdu)>>)>>

(* One conversation: a script, the calls of the native side, its options,  *)
(* and the number of connections that the campaign counts.                 *)
Conversing(name, script, calls) ==
    [name |-> name, script |-> script,
     calls |-> <<Lifecycle("connect")>> \o calls \o <<Lifecycle("disconnect"), Lifecycle("disconnect")>>,
     retries |-> 0, allow |-> FALSE, stale |-> 0, op |-> 4000, transfer |-> NoDeadline,
     reference |-> 2, connections |-> 1, control |-> FALSE, inOrder |-> TRUE,
     memory |-> <<>>]

-----------------------------------------------------------------------------
(* Planning: the requests of a call at a PDU length                        *)

Succeeded(n) == [i \in 1 .. n |-> Success]

OfItem(item, at, count) == Piece(item.start + at, count, Slid(item.value, at))

(* An item on its own: as many chunks as it needs.                         *)
Chunks(item, pduLength) ==
    IF ~IsArea(item) THEN <<Body(item.fn, IF item.fn = "flip" THEN <<Piece(item.start, 1, item.value)>> ELSE <<>>)>>
    ELSE LET counts == Counts(item.count, Maximum(item.fn = "write", pduLength, item.area))
         IN  [k \in DOMAIN counts |->
                Body(item.fn, <<OfItem(item, (k - 1) * counts[1], counts[k])>>)]

Labelled(item, bodies) == [k \in DOMAIN bodies |-> [item |-> item, body |-> bodies[k]]]

(* Items of a multi call: the longest batch that fits, or the chunks of an *)
(* item that fits none; requests carry the item they are a chunk of.       *)
Batched(items, pduLength) ==
    LET mutates == items[1].fn = "write"
        Longest(i) == BatchLength(mutates, pduLength,
                                  SubSeq(items, i, Least({Len(items), i + MaxItems})))
        plan[i \in 1 .. Len(items) + 1] ==
            IF i > Len(items) THEN <<>>
            ELSE LET taken == Longest(i)
                 IN  IF taken = 0
                     THEN Labelled(i, Chunks(items[i], pduLength)) \o plan[i + 1]
                     ELSE Labelled(0, <<Body(items[1].fn,
                              [k \in 1 .. taken |-> OfItem(items[i + k - 1], 0, items[i + k - 1].count)])>>)
                          \o plan[i + taken]
    IN  plan[1]

PlanOf(call, pduLength) ==
    IF call.fn = "multi" THEN Batched(call.items, pduLength)
    ELSE FlattenSeq([i \in DOMAIN call.items |-> Labelled(i, Chunks(call.items[i], pduLength))])

(* Refused before anything is sent.                                        *)
Valid(call) == \A i \in DOMAIN call.items :
    /\ call.items[i].fn # "invalid"
    /\ IsArea(call.items[i]) =>
        (call.fn = "area" /\ call.items[i].count = 0) \/ ValidRange(call.items[i])

-----------------------------------------------------------------------------
(* The client                                                              *)

Assembled == {"szl", "blocksOfType"}
Uploading == {"startUpload", "upload", "endUpload"}
Continuing(fn, token) == Body(fn, <<Piece(token, 0, <<>>)>>)

NewLink == [toPeer |-> <<>>, toClient |-> <<>>, peerEnd |-> FALSE, clientEnd |-> FALSE]

NoCall == 0

NewClient ==
    [lifecycle |-> "disconnected", pdu |-> 0, nextReference |-> Case.reference,
     queue |-> <<>>, phase |-> "idle", call |-> NoCall, todo |-> <<>>, first |-> TRUE, retries |-> 0,
     progress |-> NoProgress, reference |-> 0, stale |-> 0, deadline |-> NoDeadline,
     receiveBy |-> NoDeadline, results |-> <<>>, unit |-> 0, token |-> 0, failure |-> "none"]

Running == Case.calls[client.call]

(* The byte that is written back is computed from the answer before; what  *)
(* asks for another fragment echoes the token of the one before.           *)
Flip(piece, value) == [piece EXCEPT !.value = <<UpdateBit(value, piece.value[1], piece.value[2])>>]
ThisRequest ==
    LET body == Head(client.todo).body
    IN  CASE body.fn = "flip" -> Body("write", <<Flip(body.pieces[1], Last(client.results))>>)
          [] body.fn \in Assembled /\ ~client.first -> Continuing(body.fn, client.token)
          [] OTHER -> body
Writes == client.todo # <<>> /\ ThisRequest.fn = "write"
Link == Last(links)

Message(kind, reference, body) == [kind |-> kind, reference |-> reference, body |-> body]
Cr    == Message("cr", 0, Body("none", <<>>))
Setup == Message("setup", 1, Body("none", <<>>))
Disconnect == Message("disconnect", 0, Body("none", <<>>))

Post(message) ==
    links' = [links EXCEPT ![Len(links)].toPeer = IF Link.peerEnd THEN @ ELSE Append(@, message)]

(* The client's end of the current link, if it has one: a session says     *)
(* DISCONNECT first, a connection that became none just ends.              *)
CloseLink(established) ==
    links' = IF links = <<>> \/ Link.clientEnd THEN links
             ELSE [links EXCEPT ![Len(links)] =
                     [@ EXCEPT !.toPeer = IF established /\ ~Link.peerEnd
                                          THEN Append(@, Disconnect) ELSE @,
                               !.toClient = <<>>, !.clientEnd = TRUE]]

(* The call returns and the gate opens.                                    *)
Return(state, kind) ==
    /\ report' = [report EXCEPT ![client.call] =
                    [kind |-> kind, trace |-> Trace(state.progress), results |-> state.results]]
    /\ client' = [state EXCEPT !.phase = "idle", !.call = NoCall, !.todo = <<>>,
                    !.progress = NoProgress, !.results = <<>>, !.failure = "none",
                    !.deadline = NoDeadline, !.receiveBy = NoDeadline]

(* Requests that change nothing.                                           *)
ReadOnly == {"read", "szl", "blocksOfType", "blocks", "readClock", "blockInfo"}
Safety == IF client.todo # <<>> /\ ThisRequest.fn \in ReadOnly
          THEN "readOnly" ELSE "potentiallyMutating"

(* The catch of an exchange, and of the call around it: the session ends,  *)
(* and either the error is reported or the call reconnects to repeat its   *)
(* first request.                                                          *)
Catch(kind) ==
    LET budget == RetryBudgetAfter(client.retries, FALSE, kind, Safety, Case.allow)
        down == [client EXCEPT !.lifecycle = Transition(@, "transportClosed"),
                               !.progress = IF budget = NoRetry THEN @ ELSE Replay(@)]
    IN  /\ CloseLink(client.lifecycle = "connected")
        /\ IF budget = NoRetry
           THEN Return(down, IF client.failure = "none" THEN kind ELSE client.failure)
           ELSE /\ client' = [down EXCEPT !.retries = budget, !.phase = "dial"]
                /\ UNCHANGED report

(* A call enters the gate: in its turn, or when the process launches the   *)
(* calls that are to wait behind the first one.                            *)
Returned(i) == report[i].kind \notin {"new", "queued"}

Admissible(i) ==
    /\ report[i].kind = "new"
    /\ \/ Case.calls[i].when = "turn" /\ \A j \in 1 .. i - 1 : Returned(j)
       \/ Case.calls[i].when = "launch" /\ runner = "launch"
          /\ (Case.inOrder => \A j \in 1 .. i - 1 : report[j].kind # "new")

Admit(i) ==
    /\ Admissible(i)
    /\ report' = [report EXCEPT ![i].kind = "queued"]
    /\ client' = [client EXCEPT !.queue = Append(@, i)]
    /\ UNCHANGED <<links>>

Start ==
    /\ client.phase = "idle" /\ client.queue # <<>>
    /\ client' = [client EXCEPT !.queue = Tail(@), !.call = Head(client.queue),
                    !.phase = "start"]
    /\ UNCHANGED <<links, report>>

(* connect makes a new client; disconnect closes the one there is.         *)
Enter ==
    /\ client.phase = "start"
    /\ \/ /\ Running.fn = "connect"
          /\ client' = [NewClient EXCEPT !.queue = client.queue, !.call = client.call,
                          !.phase = "dial"]
          /\ UNCHANGED <<links, report>>
       \/ /\ Running.fn = "disconnect"
          /\ CloseLink(client.lifecycle = "connected")
          /\ Return([client EXCEPT !.lifecycle = Transition(@, "disconnect")], "ok")
       \/ /\ Running.fn \in {"area", "multi", "text"} /\ ~Valid(Running)
          /\ Return(client, "invalidInput")
          /\ UNCHANGED links
       \/ /\ Running.fn \in {"area", "multi", "text"} /\ Valid(Running)
          /\ client' = [client EXCEPT !.phase = "next",
                          !.todo = PlanOf(Running, client.pdu), !.first = TRUE,
                          !.deadline = DeadlineAfter(now, Case.transfer)]
          /\ UNCHANGED <<links, report>>

RetriesForEvery(first) == Case.retries                                   \* faulty
RetriesFor(first) == IF first THEN Case.retries ELSE 0

(* Each request takes a reference, then finds time and a session left.     *)
(* A write looks at the time before the session, a read after it.          *)
Spent == Expired(client.deadline, now) /\ (client.lifecycle = "connected" \/ Writes)

Exchange ==
    LET next == [client EXCEPT !.reference = client.nextReference,
                               !.nextReference = NextReference(@),
                               !.retries = RetriesFor(client.first), !.phase = "send"]
    IN  /\ client.phase = "next"
        /\ \/ /\ client.todo = <<>>
              /\ Return(client, "ok")
              /\ UNCHANGED links
           \/ /\ client.todo # <<>> /\ Spent
              /\ CloseLink(client.lifecycle = "connected")
              /\ Return([next EXCEPT !.lifecycle = Transition(@, "transportClosed")],
                        IF client.failure = "none" THEN "timeout" ELSE client.failure)
           \/ /\ client.todo # <<>> /\ ~Spent
              /\ client.lifecycle # "connected"
              /\ Return(next, "disconnected")
              /\ UNCHANGED links
           \/ /\ client.todo # <<>> /\ ~Spent
              /\ client.lifecycle = "connected"
              /\ client' = next
              /\ UNCHANGED <<links, report>>

FreshWait == DeadlineAfter(now, Case.op)                                 \* faulty
WaitUntil == EarlierDeadline(DeadlineAfter(now, Case.op), client.deadline)

Send ==
    /\ client.phase = "send" /\ ~Expired(client.deadline, now)
    /\ Post(Message("request", client.reference, ThisRequest))
    /\ client' = [client EXCEPT !.phase = "reply", !.stale = Case.stale,
                    !.receiveBy = WaitUntil,
                    !.progress = IF Writes THEN Sent(@, ThisRequest.pieces) ELSE @]
    /\ UNCHANGED report

(* A reconnection starts over at the address of the client; the listener   *)
(* refuses once the peer is done.                                          *)
PeerDone == peer.pc > Len(Case.script)

Dial ==
    /\ client.phase = "dial"
    /\ \/ Expired(client.deadline, now) /\ Catch("timeout")
       \/ ~Expired(client.deadline, now) /\ PeerDone /\ Catch("transport")
       \/ /\ ~Expired(client.deadline, now) /\ ~PeerDone
          /\ links' = Append(links, [NewLink EXCEPT !.toPeer = <<Cr>>])
          /\ client' = [client EXCEPT !.phase = "cotp", !.receiveBy = WaitUntil]
          /\ UNCHANGED report

-----------------------------------------------------------------------------
(* Answers                                                                 *)

Waits == {"cotp", "setup", "reply"}

Incoming == Head(Link.toClient)
Taken == [links EXCEPT ![Len(links)].toClient = Tail(@)]

ReceiveCc ==
    \/ Incoming.verdict # "ok" /\ Catch("protocol")
    \/ /\ Incoming.verdict = "ok"
       /\ links' = [Taken EXCEPT ![Len(links)].toPeer =
                       IF Link.peerEnd THEN @ ELSE Append(@, Setup)]
       /\ client' = [client EXCEPT !.phase = "setup", !.receiveBy = WaitUntil]
       /\ UNCHANGED report

(* A reconnection must not shrink the PDU length.                          *)
Shrinks == Running.fn # "connect" /\ Incoming.pdu < client.pdu

ReceiveSetup ==
    \/ Incoming.verdict = "wrong" /\ Catch("protocol")
    \/ Incoming.verdict = "global" /\ Catch("plcRejected")
    \/ Incoming.verdict = "ok" /\ Shrinks
       /\ CloseLink(TRUE)
       /\ Return(client, "protocol")
    \/ /\ Incoming.verdict = "ok" /\ ~Shrinks
       /\ links' = Taken
       /\ LET up == [client EXCEPT !.lifecycle = Transition(@, "reconnected"),
                                   !.pdu = Incoming.pdu]
          IN  IF Running.fn = "connect" THEN Return(up, "ok")
              ELSE client' = [up EXCEPT !.phase = "send"] /\ UNCHANGED report

(* The header of a text tells how much to read, and its body must tell the *)
(* same.                                                                   *)
LongestText(unit) == IF unit = 1 THEN 254 ELSE 16382
InText == Running.fn = "text"
HeaderHolds(values) == values[1] <= LongestText(Running.unit) /\ values[2] <= values[1]
CapacityChanged(values) == LET told == client.results \o values IN told[1] # told[3]
Incoherent ==
    /\ InText
    /\ IF client.first THEN ~HeaderHolds(Incoming.values)
       ELSE Len(client.todo) = 1 /\ CapacityChanged(Incoming.values)
TextBody(values) ==
    LET header == Running.items[1]
    IN  Labelled(1, Chunks(Read(header.start, header.count + values[1] * Running.unit), client.pdu))

(* An answer the decoder accepts settles the request.  A rejected item     *)
(* ends a scalar call, and the remaining chunks of its item in a multi     *)
(* call; an answer that is not the last of its service asks again.         *)
WithoutChunksOf(item, todo) ==
    SelectSeq(todo, LAMBDA request : item = 0 \/ request.item # item)

Remaining(rejected) ==
    IF Incoming.more THEN client.todo
    ELSE IF rejected THEN WithoutChunksOf(Head(client.todo).item, Tail(client.todo))
    ELSE Tail(client.todo)

(* The results of a multi call are codes, one for an item and its chunks.  *)
ResultsOf(codes, rejected) ==
    LET label == Head(client.todo).item
        continued == /\ label # 0 /\ ~rejected
                     /\ \E k \in 2 .. Len(client.todo) : client.todo[k].item = label
    IN  IF Running.fn # "multi" THEN Incoming.values ELSE IF continued THEN <<>> ELSE codes

Answered(codes) ==
    LET rejected == \E i \in DOMAIN codes : codes[i] # Success
        outcomes == [i \in DOMAIN codes |-> ItemOutcome(codes[i])]
        fails == rejected /\ Running.fn # "multi"
    IN  \/ /\ client.failure # "none"
           /\ CloseLink(TRUE)
           /\ Return([client EXCEPT !.lifecycle = "disconnected"], client.failure)
        \/ /\ client.failure = "none" /\ fails
           /\ links' = Taken
           /\ Return([client EXCEPT !.progress = GlobalReject(@)], "plcRejected")
        \/ /\ client.failure = "none" /\ ~fails /\ Incoherent
           /\ Catch("protocol")
        \/ /\ client.failure = "none" /\ ~fails /\ ~Incoherent
           /\ links' = Taken
           /\ client' = [client EXCEPT !.phase = "next", !.first = FALSE,
                           !.unit = IF client.first THEN Incoming.unit ELSE @,
                           !.token = Incoming.token,
                           !.progress = IF Writes THEN Acknowledge(@, outcomes) ELSE @,
                           !.todo = IF InText /\ client.first THEN TextBody(Incoming.values)
                                    ELSE Remaining(rejected),
                           !.results = @ \o ResultsOf(codes, rejected)]
           /\ UNCHANGED report

(* What cannot be decoded closes the session, and so does a refusal of a   *)
(* service that takes several requests; an upload that has started is      *)
(* ended on the PLC before.                                                *)
FragmentLimit == 256

Spoiled(kind) ==
    \/ /\ Running.cleanup # "none" /\ client.failure = "none"
       /\ ~client.first /\ ThisRequest.fn # Running.cleanup
       /\ links' = Taken
       /\ client' = [client EXCEPT !.phase = "next", !.failure = kind,
                        !.todo = Labelled(1, <<Body(Running.cleanup, <<>>)>>)]
       /\ UNCHANGED report
    \/ /\ client.first \/ client.failure # "none" \/ Running.cleanup \in {"none", ThisRequest.fn}
       /\ Catch(kind)

(* Fragments are bounded and belong together; other services have one.     *)
Unacceptable ==
    \/ Incoming.verdict = "wrong"
    \/ Incoming.verdict = "ok" /\ ThisRequest.fn \in Assembled
       /\ \/ Incoming.more /\ Len(client.results) + 1 >= FragmentLimit
          \/ ~client.first /\ Incoming.unit # client.unit
    \/ Incoming.verdict = "ok" /\ Incoming.more /\ ThisRequest.fn \notin Assembled \union Uploading

ReceiveReply ==
    LET step == CorrelationStep(client.reference, client.stale, Incoming.reference)
    IN  \/ step = "tooManyStale" /\ Catch("protocol")
        \/ /\ step = "skipStale"
           /\ links' = Taken
           /\ client' = [client EXCEPT !.stale = @ - 1]
           /\ UNCHANGED report
        \/ step = "deliver" /\ Unacceptable /\ Spoiled("protocol")
        \/ /\ step = "deliver" /\ Incoming.verdict = "global"
           /\ ThisRequest.fn \in Assembled \union Uploading
           /\ Spoiled("plcRejected")
        \/ /\ step = "deliver" /\ Incoming.verdict = "global"
           /\ ThisRequest.fn \notin Assembled \union Uploading
           /\ links' = Taken
           /\ Return([client EXCEPT !.progress = GlobalReject(@)], "plcRejected")
        \/ step = "deliver" /\ Incoming.verdict = "ok" /\ ~Unacceptable /\ Answered(Incoming.codes)

Receive ==
    /\ client.phase \in Waits /\ Link.toClient # <<>> /\ ~Expired(client.receiveBy, now)
    /\ \/ client.phase = "cotp" /\ ReceiveCc
       \/ client.phase = "setup" /\ ReceiveSetup
       \/ client.phase = "reply" /\ ReceiveReply

LosePeer ==
    /\ client.phase \in Waits /\ Link.toClient = <<>> /\ Link.peerEnd
    /\ Catch("disconnected")

TimeOut ==
    /\ \/ client.phase \in Waits /\ Expired(client.receiveBy, now)
       \/ client.phase = "send" /\ Expired(client.deadline, now)
    /\ Catch("timeout")

ClientStep ==
    /\ \/ Start \/ Enter \/ Exchange \/ Send \/ Dial \/ Receive \/ LosePeer \/ TimeOut
       \/ \E i \in DOMAIN Case.calls : Admit(i)
    /\ UNCHANGED <<conversation, peer, runner, now>>

-----------------------------------------------------------------------------
(* The peer                                                                *)

NewPeer == [pc |-> 1, chosen |-> <<>>, left |-> {}, link |-> 0, accepted |-> 0, wakes |-> NoDeadline,
            latest |-> Cr, seen |-> {}, memory |-> Case.memory, pending |-> FALSE, failed |-> FALSE]

(* The instruction at hand; a choice is followed to its end and taken once. *)
Instructed == IF peer.chosen # <<>> THEN Head(peer.chosen) ELSE Case.script[peer.pc]

Alternatives == IF peer.left = {} THEN DOMAIN Instructed.choices ELSE peer.left

Advance(state) == [state EXCEPT !.chosen = <<>>, !.left = {}, !.pc = @ + 1]
After(state) ==
    IF Len(state.chosen) > 1 THEN [state EXCEPT !.chosen = Tail(@)] ELSE Advance(state)

Wire == links[peer.link]
Arrived == Wire.toPeer # <<>>
Ended == ~Arrived /\ Wire.clientEnd

(* The peer gives up: it closes its connection and remembers the failure.  *)
PeerEnds == IF peer.link = 0 THEN links ELSE [links EXCEPT ![peer.link].peerEnd = TRUE]
PeerFails ==
    /\ peer' = [peer EXCEPT !.failed = TRUE, !.pending = TRUE, !.chosen = <<>>,
                            !.pc = Len(Case.script) + 1]
    /\ links' = PeerEnds

PeerAccepts ==
    /\ Instructed.op = "accept" /\ Len(links) > peer.accepted
    /\ peer' = After([peer EXCEPT !.accepted = @ + 1, !.link = peer.accepted + 1])
    /\ UNCHANGED links

(* The memory of a peer, where it is watched: cells in order of address.   *)
Within(piece, at) == piece.start <= at /\ at < piece.start + piece.count

Recalled(memory, piece) ==
    LET cells == SelectSeq(memory, LAMBDA cell : Within(piece, cell.at))
    IN  [k \in DOMAIN cells |-> cells[k].byte]

Stored(memory, body) ==
    IF body.fn # "write" THEN memory
    ELSE [k \in DOMAIN memory |->
            LET hits == {i \in DOMAIN body.pieces : Within(body.pieces[i], memory[k].at)}
            IN  IF hits = {} THEN memory[k]
                ELSE LET piece == body.pieces[CHOOSE i \in hits : \A j \in hits : j <= i]
                     IN  [memory[k] EXCEPT !.byte = ByteAt(piece.value, memory[k].at - piece.start)]]

(* A request carries what the script expects: the one before again,        *)
(* reference included, a byte with one bit changed, or a body whose        *)
(* reference is new or given.                                              *)
Flips(piece, observed) ==
    LET old == Recalled(peer.memory, piece)[1]
    IN  /\ observed.start = piece.start /\ observed.count = piece.count
        /\ \E bit \in 0 .. 7 : /\ observed.value = <<UpdateBit(old, bit, piece.value[1])>>
                               /\ observed.value # <<old>>

Expected(instruction, message) ==
    /\ message.kind = instruction.kind
    /\ message.kind = "request" =>
         CASE instruction.identity = "repeat" -> message = peer.latest
           [] instruction.identity = "flip" ->
                /\ message.body.fn = "write"
                /\ Flips(instruction.body.pieces[1], message.body.pieces[1])
           [] instruction.identity = "numbered" ->
                message.body = instruction.body /\ message.reference = instruction.reference
           [] instruction.identity = "fresh" ->
                message.body = instruction.body /\ message.reference \notin peer.seen

AnswerTo(message, reply) ==
    [kind |-> message.kind, reference |-> (message.reference + reply.delta) % ReferenceModulus,
     verdict |-> reply.verdict, codes |-> reply.codes,
     values |-> IF reply.recall THEN Recalled(peer.memory, message.body.pieces[1]) ELSE reply.values,
     more |-> reply.more, pdu |-> reply.pdu, unit |-> reply.unit, token |-> reply.token]

Heeds(message) ==
    IF message.kind # "request" THEN peer
    ELSE [peer EXCEPT !.latest = message,
                      !.memory = Stored(@, message.body),
                      !.seen = IF Instructed.replies # <<>> THEN @ \union {message.reference} ELSE @]

AnswersTo(message) ==
    IF Wire.clientEnd THEN <<>>
    ELSE Wire.toClient \o
           [k \in DOMAIN Instructed.replies |-> AnswerTo(message, Instructed.replies[k])]

PeerReceives ==
    /\ Instructed.op = "receive"
    /\ \/ /\ Arrived /\ Expected(Instructed, Head(Wire.toPeer))
          /\ peer' = After(Heeds(Head(Wire.toPeer)))
          /\ links' = [links EXCEPT ![peer.link].toPeer = Tail(@),
                                    ![peer.link].toClient = AnswersTo(Head(Wire.toPeer))]
       \/ Arrived /\ ~Expected(Instructed, Head(Wire.toPeer)) /\ PeerFails
       \/ Ended /\ PeerFails

(* An answer kept back until now.                                          *)
PeerAnswers ==
    /\ Instructed.op = "answer"
    /\ links' = [links EXCEPT ![peer.link].toClient = AnswersTo(peer.latest)]
    /\ peer' = After([peer EXCEPT !.seen = @ \union {peer.latest.reference}])

(* Whichever script the request begins is followed; all of them are due,   *)
(* unless the client may disconnect before.                                *)
PeerChooses ==
    /\ Instructed.op = "anyOf" /\ (Arrived \/ Ended)
    /\ LET Begun == {k \in Alternatives :
                       Arrived /\ Expected(Head(Instructed.choices[k]), Head(Wire.toPeer))}
           stops == Arrived /\ Head(Wire.toPeer) = Disconnect /\ Instructed.kind = "any"
       IN  \/ \E k \in Begun :
                 /\ peer' = [peer EXCEPT
                       !.left = Alternatives \ {k},
                       !.chosen = Instructed.choices[k] \o
                                      (IF Alternatives = {k} THEN <<>> ELSE <<Instructed>>)]
                 /\ UNCHANGED links
           \/ Begun = {} /\ stops /\ peer' = Advance(peer) /\ UNCHANGED links
           \/ Begun = {} /\ ~stops /\ PeerFails

PeerCloses ==
    /\ Instructed.op = "close"
    /\ links' = PeerEnds
    /\ peer' = After(peer)

(* The client is to close: with a DISCONNECT, without, or either way.      *)
ClosesAsExpected(message) ==
    message = Disconnect /\ Instructed.kind # "nothing"

PeerDrains ==
    /\ Instructed.op = "closed"
    /\ \/ /\ Arrived /\ ClosesAsExpected(Head(Wire.toPeer))
          /\ links' = [links EXCEPT ![peer.link].toPeer = Tail(@)]
          /\ peer' = IF Len(Wire.toPeer) > 1 \/ ~Wire.clientEnd
                     THEN [peer EXCEPT !.failed = TRUE] ELSE After([peer EXCEPT !.seen = {}])
       \/ Arrived /\ ~ClosesAsExpected(Head(Wire.toPeer)) /\ PeerFails
       \/ /\ Ended /\ Instructed.kind # "disconnect"
          /\ peer' = After(peer)
          /\ UNCHANGED links
       \/ Ended /\ Instructed.kind = "disconnect" /\ PeerFails

(* The process is told that the first request is there, and tells back     *)
(* once the other calls wait behind it.                                    *)
PeerMeets ==
    /\ Instructed.op = "barrier"
    /\ \/ /\ ~peer.pending
          /\ peer' = [peer EXCEPT !.pending = TRUE]
       \/ /\ peer.pending /\ runner = "released"
          /\ peer' = After(peer)
    /\ UNCHANGED links

Timed == {"sleep", "pause", "noMore"}

PeerWaits ==
    /\ Instructed.op \in Timed /\ peer.wakes = NoDeadline
    /\ peer' = [peer EXCEPT !.wakes = now + Instructed.ticks]
    /\ UNCHANGED links

(* Nobody may have connected once more.                                    *)
PeerWakes ==
    /\ Instructed.op \in Timed /\ Expired(peer.wakes, now)
    /\ \/ /\ Instructed.op = "noMore" /\ Len(links) > peer.accepted
          /\ PeerFails
       \/ /\ ~(Instructed.op = "noMore" /\ Len(links) > peer.accepted)
          /\ peer' = After([peer EXCEPT !.wakes = NoDeadline])
          /\ UNCHANGED links

(* A paced peer stops when its client has given up meanwhile, unless the   *)
(* client should still be there.                                           *)
PeerInterrupted ==
    /\ Instructed.op = "pause" /\ peer.wakes # NoDeadline /\ ~Expired(peer.wakes, now)
    /\ \/ /\ Instructed.kind # "unbroken"
          /\ Ended \/ (Arrived /\ Head(Wire.toPeer) = Disconnect)
          /\ peer' = [peer EXCEPT !.chosen = <<>>, !.wakes = NoDeadline,
                         !.pc = Len(Case.script) + (IF Last(Case.script).op = "noMore" THEN 0 ELSE 1)]
          /\ links' = PeerEnds
       \/ Arrived /\ Head(Wire.toPeer) # Disconnect /\ PeerFails
       \/ Instructed.kind = "unbroken" /\ (Arrived \/ Ended) /\ PeerFails

(* What the client should not have let happen.                             *)
PeerRefuses == Instructed.op = "refuse" /\ PeerFails

PeerStep ==
    /\ ~PeerDone
    /\ \/ PeerAccepts \/ PeerReceives \/ PeerAnswers \/ PeerChooses \/ PeerCloses \/ PeerDrains
       \/ PeerMeets \/ PeerRefuses \/ PeerWaits \/ PeerWakes \/ PeerInterrupted
    /\ UNCHANGED <<conversation, client, report, runner, now>>

-----------------------------------------------------------------------------
(* The process that runs a conversation, and time                          *)

Launches == {i \in DOMAIN Case.calls : Case.calls[i].when = "launch"}

Launch ==
    /\ runner = "pending" /\ peer.pending /\ Launches # {}
    /\ runner' = "launch"

Release ==
    /\ runner = "launch" /\ \A i \in Launches : report[i].kind # "new"
    /\ runner' = "released"

(* A call returned what the process expects of it.                         *)
Outcomes(trace) == [k \in DOMAIN trace |-> trace[k].outcome]

AsPlanned(i) ==
    LET call == Case.calls[i]
    IN  /\ report[i].kind \in (IF call.kind = "either" THEN {"ok", "disconnected"} ELSE {call.kind})
        /\ "trace" \in call.checks => Outcomes(report[i].trace) = call.trace
        /\ "results" \in call.checks => report[i].results = call.results

AllReturned == \A i \in DOMAIN Case.calls : Returned(i)

(* The peer is joined; a control conversation is one its peer must refuse. *)
Judge ==
    /\ runner \notin {"passed", "failed"} /\ AllReturned /\ PeerDone
    /\ runner' = IF peer.failed # Case.control THEN "failed"
                 ELSE IF Case.control \/ \A i \in DOMAIN Case.calls : AsPlanned(i)
                 THEN "passed" ELSE "failed"

RunnerStep ==
    /\ Launch \/ Release \/ Judge
    /\ UNCHANGED <<conversation, links, peer, client, report, now>>

(* The intervals of the campaigns are long compared with what client and   *)
(* peer compute: time passes when both wait, up to the next instant that   *)
(* one of them waits for.                                                  *)
Instants == {t \in {peer.wakes, client.receiveBy} : t # NoDeadline /\ t > now}

ClientWaits ==
    /\ \A i \in DOMAIN Case.calls : ~Admissible(i)
    /\ \/ client.phase = "idle" /\ client.queue = <<>>
       \/ /\ client.phase \in Waits /\ Link.toClient = <<>> /\ ~Link.peerEnd
          /\ ~Expired(client.receiveBy, now)

PeerIdles ==
    IF PeerDone THEN TRUE ELSE
    CASE Instructed.op = "accept"  -> Len(links) = peer.accepted
      [] Instructed.op = "barrier" -> peer.pending /\ runner # "released"
      [] Instructed.op \in {"receive", "anyOf", "closed"} -> ~Arrived /\ ~Ended
      [] Instructed.op \in {"sleep", "noMore"} -> peer.wakes > now
      [] Instructed.op = "pause" -> peer.wakes > now /\ ~Arrived /\ ~Ended
      [] OTHER -> FALSE

RunnerWaits ==
    ~(runner = "pending" /\ peer.pending /\ Launches # {}) /\ runner # "launch"

Tick ==
    /\ Instants # {}
    /\ ClientWaits /\ PeerIdles /\ RunnerWaits
    /\ now' = Least(Instants)
    /\ UNCHANGED <<conversation, links, peer, client, report, runner>>

Over == runner \in {"passed", "failed"} /\ UNCHANGED vars

Next == ClientStep \/ PeerStep \/ RunnerStep \/ Tick \/ Over

Init ==
    /\ conversation \in Conversations
    /\ links = <<>> /\ peer = NewPeer /\ client = NewClient
    /\ report = [i \in DOMAIN Case.calls |-> [kind |-> "new", trace |-> <<>>, results |-> <<>>]]
    /\ runner = "pending" /\ now = 0

Spec == Init /\ [][Next]_vars

-----------------------------------------------------------------------------
(* Properties                                                              *)

(* Every variable has its type, and one call at most holds the gate.       *)
TypeOK ==
    /\ client.lifecycle \in LifecycleStates
    /\ client.phase \in Waits \union {"idle", "start", "next", "send", "dial"}
    /\ client.call \in DOMAIN report \union {NoCall}
    /\ client.phase = "idle" <=> client.call = NoCall
    /\ {client.deadline, client.receiveBy, peer.wakes} \subseteq Deadline
    /\ client.retries \in 0 .. Case.retries /\ client.nextReference \in References
    /\ peer.accepted <= Len(links) /\ peer.failed \in BOOLEAN
    /\ runner \in {"pending", "launch", "released", "passed", "failed"}

(* The peer of a campaign sees nothing that its serve loop does not expect:*)
(* no changed or reordered request, no reused reference, no further attempt*)
(* or connection; and a peer that is to catch a faulty client does.        *)
PeerAgrees == /\ peer.failed => Case.control
              /\ runner = "failed" => ~Case.control

(* Every call returns what the native side of the campaign expects: the    *)
(* kind of its error, the outcomes of the attempts of a write in order and *)
(* the values or item codes it collected.                                  *)
AsExpected ==
    \A i \in DOMAIN Case.calls : Returned(i) /\ ~Case.control => AsPlanned(i)

(* A client has one connection open at most, never dials more often than   *)
(* the campaign's own count of sessions allows, and leaves none open at    *)
(* the end.                                                                *)
ConnectionsCounted ==
    /\ TypeOK
    /\ ~Case.control =>
        /\ Len(links) <= Case.connections
        /\ \A l \in 1 .. Len(links) - 1 : links[l].clientEnd
        /\ runner = "passed" => /\ Len(links) = Case.connections
                               /\ \A l \in DOMAIN links : links[l].clientEnd
=============================================================================
